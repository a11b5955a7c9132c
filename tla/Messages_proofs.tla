----------------------------- MODULE Messages_proofs -----------------------------
(***************************************************************************)
(* What is put together from bytes is what was taken apart, for every      *)
(* value of the constants: the integers of variable length are read as     *)
(* they were written, and a message is parsed as it was sent.  The proofs  *)
(* are by induction over the natural numbers, for which the first section  *)
(* has the means.                                                          *)
(*                                                                         *)
(* For a message: where its parts lie in the bytes of a stream (Laid), the *)
(* places in them at which a callback may leave the parser and what it has *)
(* by then (Somewhere, Complete, Refused), and one lemma for the steps     *)
(* from each of these places.                                              *)
(***************************************************************************)
EXTENDS Services_proofs, WellFoundedInduction

-----------------------------------------------------------------------------
(* Induction, and functions defined by it *)

\* A set of natural numbers has a least one.
LEMMA LeastNatural ==
    ASSUME NEW T, T \subseteq Nat, T # {}
    PROVE  \E m \in T : \A k \in T : m <= k
<1> DEFINE R == OpToRel(<, Nat)
<1>1. \A x, y \in Nat : y < x => <<y, x>> \in R
  BY SMT DEF OpToRel
<1>2. IsWellFoundedOn(R, Nat)
  BY NatLessThanWellFounded
<1> HIDE DEF R
<1>3. PICK x \in T : \A y \in T : ~ (<<y, x>> \in R)
  BY <1>2, WFMin
<1>4. \A k \in T : ~(k < x) /\ k \in Nat /\ x \in Nat
  BY <1>1, <1>3
<1> QED  BY <1>4

LEMMA Induction ==
    ASSUME NEW T, 0 \in T, \A n \in Nat : n \in T => n + 1 \in T
    PROVE  Nat \subseteq T
<1> SUFFICES ASSUME Nat \ T # {} PROVE FALSE
  OBVIOUS
<1>1. PICK m \in Nat \ T : \A k \in Nat \ T : m <= k
  BY LeastNatural
<1>2. m # 0 /\ m - 1 \in Nat /\ m = (m - 1) + 1
  BY <1>1
<1>3. m - 1 \in T
  BY <1>1, <1>2
<1> QED  BY <1>1, <1>2, <1>3

LEMMA StrongInduction ==
    ASSUME NEW T, \A n \in Nat : (\A k \in 0 .. n - 1 : k \in T) => n \in T
    PROVE  Nat \subseteq T
<1> SUFFICES ASSUME Nat \ T # {} PROVE FALSE
  OBVIOUS
<1>1. PICK m \in Nat \ T : \A k \in Nat \ T : m <= k
  BY LeastNatural
<1>2. \A k \in 0 .. m - 1 : k \in T
  BY <1>1
<1> QED  BY <1>1, <1>2

\* The first values of a function that begins with a and goes on by the steps s.
Iterates(g, n, V, a, s) ==
    /\ g \in [0 .. n -> V] /\ g[0] = a
    /\ \A i \in 0 .. n - 1 : g[i + 1] = s[i][g[i]]

\* ... and all of them.
Steps(V) == [Nat -> [V -> V]]
Iteration(f, V, a, s) ==
    f \in [Nat -> V] /\ f[0] = a /\ \A n \in Nat : f[n + 1] = s[n][f[n]]

\* A first value and a step for each number define a function.
LEMMA IterationExists ==
    ASSUME NEW V, NEW a \in V, NEW s \in Steps(V)
    PROVE  \E f : Iteration(f, V, a, s)
<1> USE DEF Steps
<1>1. ASSUME NEW n \in Nat PROVE \E g : Iterates(g, n, V, a, s)
  <2> DEFINE T == {k \in Nat : \E g : Iterates(g, k, V, a, s)}
  <2>1. 0 \in T
    <3>1. Iterates([i \in 0 .. 0 |-> a], 0, V, a, s)
      BY DEF Iterates
    <3> QED  BY <3>1
  <2>2. ASSUME NEW k \in Nat, k \in T PROVE k + 1 \in T
    <3>1. PICK g : Iterates(g, k, V, a, s)
      BY <2>2
    <3> DEFINE h == [i \in 0 .. k + 1 |-> IF i = k + 1 THEN s[k][g[k]] ELSE g[i]]
    <3>2. g[k] \in V /\ s[k][g[k]] \in V
      BY <3>1 DEF Iterates
    <3>3. h \in [0 .. k + 1 -> V] /\ h[0] = a
      BY <3>1, <3>2 DEF Iterates
    <3>4. ASSUME NEW i \in 0 .. (k + 1) - 1 PROVE h[i + 1] = s[i][h[i]]
      <4>1. CASE i = k
        BY <4>1
      <4>2. CASE i # k
        BY <3>1, <4>2 DEF Iterates
      <4> QED  BY <4>1, <4>2
    <3> HIDE DEF h
    <3>5. Iterates(h, k + 1, V, a, s)
      BY <3>3, <3>4 DEF Iterates
    <3>6. \E x : Iterates(x, k + 1, V, a, s)
      BY <3>5
    <3> QED  BY <3>6
  <2> HIDE DEF T
  <2>3. Nat \subseteq T
    BY <2>1, <2>2, Induction
  <2> QED  BY <2>3 DEF T
<1>2. ASSUME NEW n \in Nat, NEW g, Iterates(g, n, V, a, s),
             NEW h, Iterates(h, n + 1, V, a, s)
      PROVE  h[n] = g[n]
  <2> DEFINE U == {i \in Nat : i <= n => h[i] = g[i]}
  <2>1. 0 \in U
    BY <1>2 DEF Iterates
  <2>2. ASSUME NEW i \in Nat, i \in U PROVE i + 1 \in U
    BY <1>2, <2>2 DEF Iterates
  <2>3. Nat \subseteq U
    <3> HIDE DEF U
    <3> QED  BY <2>1, <2>2, Induction
  <2> QED  BY <2>3
<1> DEFINE G(n) == CHOOSE g : Iterates(g, n, V, a, s)
           f == [n \in Nat |-> G(n)[n]]
<1>3. ASSUME NEW n \in Nat PROVE Iterates(G(n), n, V, a, s)
  BY <1>1
<1>4. \A n \in Nat : f[n] = G(n)[n] /\ G(n)[n] \in V
  <2> SUFFICES ASSUME NEW n \in Nat PROVE G(n)[n] \in V
    OBVIOUS
  <2>1. G(n) \in [0 .. n -> V]
    BY <1>3 DEF Iterates
  <2> HIDE DEF G
  <2> QED  BY <2>1
<1>5. DOMAIN f = Nat /\ f = [n \in Nat |-> f[n]]
  OBVIOUS
<1>6. G(0)[0] = a
  BY <1>3 DEF Iterates
<1>7. ASSUME NEW n \in Nat PROVE f[n + 1] = s[n][f[n]]
  <2>1. Iterates(G(n + 1), n + 1, V, a, s) /\ Iterates(G(n), n, V, a, s)
    BY <1>3
  <2> HIDE DEF G
  <2>2. G(n + 1)[n] = G(n)[n]
    BY <1>2, <2>1
  <2>3. G(n + 1)[n + 1] = s[n][G(n + 1)[n]]
    BY <2>1 DEF Iterates
  <2> HIDE DEF f
  <2> QED  BY <1>4, <2>2, <2>3
<1> HIDE DEF f, G
<1>8. f \in [Nat -> V] /\ f[0] = a
  BY <1>4, <1>5, <1>6
<1>9. Iteration(f, V, a, s)
  BY <1>7, <1>8 DEF Iteration
<1> QED  BY <1>9

-----------------------------------------------------------------------------
(* Powers of two *)

LEMMA PowerIs ==
    /\ Codec!Power \in [Nat -> Nat \ {0}] /\ Codec!Power[0] = 1
    /\ \A n \in Nat : Codec!Power[n + 1] = 2 * Codec!Power[n]
<1> DEFINE twice == [n \in Nat |-> [x \in Nat |-> 2 * x]]
<1>1. twice \in Steps(Nat) /\ 1 \in Nat
  BY DEF Steps
<1> HIDE DEF twice
<1>2. PICK f : Iteration(f, Nat, 1, twice)
  BY <1>1, IterationExists
<1> USE DEF twice
<1>3. f \in [Nat -> Nat] /\ f[0] = 1 /\ \A n \in Nat : f[n + 1] = twice[n][f[n]]
  BY <1>2 DEF Iteration
<1>4. f = [n \in Nat |-> IF n = 0 THEN 1 ELSE 2 * f[n - 1]]
  <2>1. ASSUME NEW n \in Nat PROVE f[n] = IF n = 0 THEN 1 ELSE 2 * f[n - 1]
    <3>1. CASE n = 0
      BY <1>3, <3>1
    <3>2. CASE n # 0
      <4>1. n - 1 \in Nat /\ (n - 1) + 1 = n
        BY <3>2
      <4>2. f[(n - 1) + 1] = twice[n - 1][f[n - 1]]
        BY <1>3, <4>1
      <4> QED  BY <1>3, <3>2, <4>1, <4>2
    <3> QED  BY <3>1, <3>2
  <2>2. f = [n \in Nat |-> f[n]]
    BY <1>3
  <2> HIDE DEF twice
  <2> QED  BY <2>1, <2>2
<1>5. Codec!Power = [n \in Nat |-> IF n = 0 THEN 1 ELSE 2 * Codec!Power[n - 1]]
  <2>1. \E p : p = [n \in Nat |-> IF n = 0 THEN 1 ELSE 2 * p[n - 1]]
    BY <1>4
  <2> QED  BY <2>1 DEF Codec!Power
<1>6. Codec!Power[0] = 1 /\ \A n \in Nat : Codec!Power[n + 1] = 2 * Codec!Power[n]
  <2> DEFINE p == Codec!Power
  <2>1. \A n \in Nat : p[n] = IF n = 0 THEN 1 ELSE 2 * p[n - 1]
    BY <1>5
  <2> HIDE DEF p
  <2>2. p[0] = 1
    BY <2>1
  <2>3. ASSUME NEW n \in Nat PROVE p[n + 1] = 2 * p[n]
    <3>1. n + 1 \in Nat /\ n + 1 # 0 /\ (n + 1) - 1 = n
      OBVIOUS
    <3> QED  BY <2>1, <3>1
  <2> QED  BY <2>2, <2>3 DEF p
<1>7. Codec!Power \in [Nat -> Nat \ {0}]
  <2> DEFINE p == Codec!Power
             T == {n \in Nat : p[n] \in Nat \ {0}}
  <2>1. DOMAIN p = Nat /\ p = [n \in Nat |-> p[n]]
    BY <1>5
  <2>2. p[0] = 1 /\ \A n \in Nat : p[n + 1] = 2 * p[n]
    BY <1>6
  <2> HIDE DEF p
  <2>3. 0 \in T /\ \A n \in Nat : n \in T => n + 1 \in T
    BY <2>2
  <2>4. Nat \subseteq T
    <3> HIDE DEF T
    <3> QED  BY <2>3, Induction
  <2> QED  BY <2>1, <2>4 DEF p
<1> QED  BY <1>6, <1>7

-----------------------------------------------------------------------------
(* Quotients and remainders *)

LEMMA Quotient ==
    ASSUME NEW n \in Nat, NEW b \in Nat \ {0}
    PROVE  /\ n \div b \in Nat /\ n % b \in Nat /\ n % b < b
           /\ n = b * (n \div b) + (n % b)
OBVIOUS

\* What divides with a remainder is the quotient.
LEMMA QuotientIs ==
    ASSUME NEW n \in Nat, NEW b \in Nat \ {0}, NEW q \in Nat, NEW r \in Nat, r < b,
           n = b * q + r
    PROVE  n \div b = q /\ n % b = r
<1> DEFINE p == n \div b
           s == n % b
<1>1. p \in Nat /\ s \in Nat /\ s < b /\ n = b * p + s
  BY Quotient
<1> HIDE DEF p, s
<1>2. CASE p < q
  <2>1. PICK d \in Nat : q = p + 1 + d
    <3>1. q - p - 1 \in Nat /\ q = p + 1 + (q - p - 1)
      BY <1>1, <1>2
    <3> QED  BY <3>1
  <2>2. b * q = b * p + b + b * d
    BY <1>1, <2>1
  <2>3. b * d \in Nat /\ b * p \in Nat
    BY <1>1, <2>1
  <2> QED  BY <1>1, <2>2, <2>3
<1>3. CASE q < p
  <2>1. PICK d \in Nat : p = q + 1 + d
    <3>1. p - q - 1 \in Nat /\ p = q + 1 + (p - q - 1)
      BY <1>1, <1>3
    <3> QED  BY <3>1
  <2>2. b * p = b * q + b + b * d
    BY <1>1, <2>1
  <2>3. b * d \in Nat /\ b * q \in Nat
    BY <1>1, <2>1
  <2> QED  BY <1>1, <2>2, <2>3
<1>4. CASE p = q
  <2>1. b * p = b * q
    BY <1>4
  <2>2. b * p \in Nat /\ s = r
    BY <1>1, <2>1
  <2> QED  BY <1>4, <2>2 DEF p, s
<1> QED  BY <1>1, <1>2, <1>3, <1>4

\* Dividing twice, and what remains.
Product(c, a, b) == a \in Nat \ {0} /\ b \in Nat \ {0} /\ c = a * b
LEMMA QuotientTwice ==
    ASSUME NEW n \in Nat, NEW a, NEW b, NEW c, Product(c, a, b)
    PROVE  /\ c \in Nat \ {0}
           /\ n \div c = (n \div a) \div b
           /\ n % c = (n % a) + ((n \div a) % b) * a
<1> USE DEF Product
<1> DEFINE q == n \div a
           r == n % a
           p == q \div b
           s == q % b
<1>1. q \in Nat /\ r \in Nat /\ r < a /\ n = a * q + r
  BY Quotient
<1>2. p \in Nat /\ s \in Nat /\ s < b /\ q = b * p + s
  <2> HIDE DEF q
  <2> QED  BY <1>1, Quotient
<1> HIDE DEF q, r, p, s
<1>3. a * b \in Nat \ {0} /\ a * s \in Nat
  BY <1>2
<1>4. n = (a * b) * p + (a * s + r)
  <2>1. a * q = a * (b * p + s)
    BY <1>2
  <2>2. a * (b * p + s) = (a * b) * p + a * s
    BY <1>2
  <2>3. (a * b) * p \in Nat
    BY <1>2, <1>3
  <2> QED  BY <1>1, <1>3, <2>1, <2>2, <2>3
<1>5. a * s + r < a * b /\ a * s + r \in Nat
  <2>1. PICK d \in Nat : b = s + 1 + d
    <3>1. b - s - 1 \in Nat /\ b = s + 1 + (b - s - 1)
      BY <1>2
    <3> QED  BY <3>1
  <2>2. a * b = a * s + a + a * d /\ a * d \in Nat
    BY <1>2, <2>1
  <2> QED  BY <1>1, <1>3, <2>2
<1>6. n \div (a * b) = p /\ n % (a * b) = a * s + r
  <2> DEFINE m == a * b
             t == a * s + r
  <2>1. m \in Nat \ {0} /\ t \in Nat /\ t < m /\ n = m * p + t
    BY <1>3, <1>4, <1>5
  <2> HIDE DEF m, t
  <2>2. n \div m = p /\ n % m = t
    BY <1>2, <2>1, QuotientIs
  <2> QED  BY <2>2 DEF m, t
<1>7. a * s + r = r + s * a
  BY <1>1, <1>2
<1> QED  BY <1>3, <1>6, <1>7 DEF p, q, r, s

LEMMA SmallQuotient ==
    ASSUME NEW n \in Nat, NEW b \in Nat \ {0}
    PROVE  /\ n < b <=> n \div b = 0
           /\ n < b => n % b = n
<1>1. n \div b \in Nat /\ n % b \in Nat /\ n % b < b /\ n = b * (n \div b) + (n % b)
  BY Quotient
<1>2. ASSUME n < b PROVE n \div b = 0 /\ n % b = n
  <2>1. n = b * 0 + n
    OBVIOUS
  <2> QED  BY <1>2, <2>1, QuotientIs
<1>3. ASSUME n \div b = 0 PROVE n < b
  <2>1. b * (n \div b) = 0
    BY <1>3
  <2> QED  BY <1>1, <2>1
<1> QED  BY <1>2, <1>3

LEMMA PowerSum ==
    \A m, n \in Nat : Codec!Power[m + n] = Codec!Power[m] * Codec!Power[n]
<1> SUFFICES ASSUME NEW m \in Nat
             PROVE  \A n \in Nat : Codec!Power[m + n] = Codec!Power[m] * Codec!Power[n]
  OBVIOUS
<1> DEFINE p == Codec!Power
           T == {n \in Nat : p[m + n] = p[m] * p[n]}
<1>1. /\ p[0] = 1 /\ \A n \in Nat : p[n + 1] = 2 * p[n]
      /\ \A n \in Nat : p[n] \in Nat
  BY PowerIs
<1> HIDE DEF p
<1>2. 0 \in T
  <2>1. p[m + 0] = p[m] /\ p[m] * 1 = p[m]
    BY <1>1
  <2> QED  BY <1>1, <2>1
<1>3. ASSUME NEW n \in Nat, n \in T PROVE n + 1 \in T
  <2>1. p[m + (n + 1)] = 2 * p[m + n] /\ p[n + 1] = 2 * p[n] /\ p[m + n] = p[m] * p[n]
    <3>1. m + (n + 1) = (m + n) + 1 /\ m + n \in Nat
      OBVIOUS
    <3> QED  BY <1>1, <1>3, <3>1
  <2>2. 2 * (p[m] * p[n]) = p[m] * (2 * p[n])
    BY <1>1
  <2> QED  BY <2>1, <2>2
<1>4. Nat \subseteq T
  <2> HIDE DEF T
  <2> QED  BY <1>2, <1>3, Induction
<1> QED  BY <1>4 DEF p

\* 2^n is more than n.
LEMMA PowerGrows == \A n \in Nat : n < Codec!Power[n]
<1> DEFINE p == Codec!Power
           T == {n \in Nat : n < p[n]}
<1>1. p[0] = 1 /\ \A n \in Nat : p[n] \in Nat /\ p[n + 1] = 2 * p[n]
  BY PowerIs
<1> HIDE DEF p
<1>2. 0 \in T
  BY <1>1
<1>3. \A n \in Nat : n \in T => n + 1 \in T
  BY <1>1
<1>4. Nat \subseteq T
  <2> HIDE DEF T
  <2> QED  BY <1>2, <1>3, Induction
<1> QED  BY <1>4 DEF p

-----------------------------------------------------------------------------
(* The integers of variable length *)

\* What a number of groups can hold.
Block(n) == Codec!Power[Group * n]

LEMMA BlockIs ==
    /\ Codec!Flag \in Nat /\ Codec!Flag >= 2 /\ Codec!Span \in Nat \ {0}
    /\ Block(0) = 1 /\ Block(1) = Codec!Flag
    /\ \A n \in Nat : /\ Block(n) \in Nat \ {0} /\ n < Block(n)
                      /\ Block(n + 1) = Codec!Flag * Block(n)
<1>1. Group \in Nat \ {0} /\ Width \in Nat \ {0}
  BY ServicesAssumption DEF Codec!VarintAssumption
<1>2. /\ Codec!Power[0] = 1
      /\ \A n \in Nat : Codec!Power[n] \in Nat \ {0} /\ n < Codec!Power[n]
  BY PowerIs, PowerGrows
<1>3. Codec!Flag \in Nat /\ Codec!Flag >= 2 /\ Codec!Span \in Nat \ {0}
  BY <1>1, <1>2 DEF Codec!Flag, Codec!Span
<1>4. Block(0) = 1 /\ Block(1) = Codec!Flag
  <2>1. Group * 0 = 0 /\ Group * 1 = Group
    BY <1>1
  <2> QED  BY <1>2, <2>1 DEF Block, Codec!Flag
<1>5. ASSUME NEW n \in Nat
      PROVE  Block(n) \in Nat \ {0} /\ n < Block(n) /\ Block(n + 1) = Codec!Flag * Block(n)
  <2> DEFINE m == Group * n
  <2>1. m \in Nat /\ Group * (n + 1) = Group + m
    BY <1>1
  <2>2. n <= m
    <3>1. PICK d \in Nat : Group = d + 1
      <4>1. Group - 1 \in Nat /\ Group = (Group - 1) + 1
        BY <1>1
      <4> QED  BY <4>1
    <3>2. m = d * n + n /\ d * n \in Nat
      BY <3>1
    <3> QED  BY <3>2
  <2> HIDE DEF m
  <2>3. Codec!Power[m] \in Nat \ {0} /\ m < Codec!Power[m]
    BY <1>2, <2>1
  <2>4. Codec!Power[Group + m] = Codec!Power[Group] * Codec!Power[m]
    BY <1>1, <2>1, PowerSum
  <2>5. Block(n) = Codec!Power[m] /\ Block(n + 1) = Codec!Power[Group + m]
    BY <2>1 DEF Block, m
  <2>6. n < Codec!Power[m]
    BY <2>1, <2>2, <2>3
  <2> QED  BY <2>3, <2>4, <2>5, <2>6 DEF Codec!Flag
<1> QED  BY <1>3, <1>4, <1>5

\* How many groups a number takes, and which bytes they are.
SizeIs(n, x) == n \in Nat \ {0} /\ x < Block(n) /\ \A k \in 1 .. n - 1 : Block(k) <= x
Size(x) == CHOOSE n : SizeIs(n, x)
Written(x) == [i \in 1 .. Size(x) |-> (IF i < Size(x) THEN Codec!Flag ELSE 0)
                                       + ((x \div Block(i - 1)) % Codec!Flag)]

LEMMA SizeExists == ASSUME NEW x \in Nat PROVE SizeIs(Size(x), x)
<1> DEFINE T == {n \in Nat \ {0} : x < Block(n)}
<1>1. x + 1 \in T
  <2>1. x + 1 \in Nat /\ x + 1 < Block(x + 1) /\ Block(x + 1) \in Nat
    BY BlockIs
  <2> QED  BY <2>1
<1>2. PICK m \in T : \A k \in T : m <= k
  BY <1>1, LeastNatural
<1>3. SizeIs(m, x)
  <2>1. ASSUME NEW k \in 1 .. m - 1 PROVE Block(k) <= x
    <3>1. k \in Nat \ {0} /\ k < m /\ m \in Nat /\ Block(k) \in Nat
      BY <1>2, BlockIs
    <3>2. k \notin T
      BY <1>2, <3>1
    <3> QED  BY <3>1, <3>2
  <2> QED  BY <1>2, <2>1 DEF SizeIs
<1> QED  BY <1>3 DEF Size

LEMMA SizeUnique ==
    ASSUME NEW x \in Nat, NEW n, SizeIs(n, x)
    PROVE  n = Size(x)
<1> DEFINE m == Size(x)
<1>1. SizeIs(m, x)
  BY SizeExists
<1> HIDE DEF m
<1>2. n \in Nat \ {0} /\ m \in Nat \ {0}
  BY <1>1 DEF SizeIs
<1>3. Block(n) \in Nat /\ Block(m) \in Nat
  BY <1>2, BlockIs
<1>4. ~(n < m)
  BY <1>1, <1>2, <1>3 DEF SizeIs
<1>5. ~(m < n)
  BY <1>1, <1>2, <1>3 DEF SizeIs
<1>6. m = n
  BY <1>2, <1>4, <1>5
<1> QED  BY <1>6 DEF m

\* One group less to write for what is left of the number.
LEMMA BlockLess ==
    ASSUME NEW x \in Nat, NEW n \in Nat
    PROVE  /\ x \div Codec!Flag \in Nat
           /\ x < Block(n + 1) <=> x \div Codec!Flag < Block(n)
           /\ x \div Block(n + 1) = (x \div Codec!Flag) \div Block(n)
<1> DEFINE F == Codec!Flag
           B == Block(n)
           y == x \div F
<1>1. F \in Nat \ {0} /\ B \in Nat \ {0} /\ Block(n + 1) = F * B
  BY BlockIs
<1> HIDE DEF F, B
<1>2. y \in Nat
  BY <1>1, Quotient
<1>3. F * B \in Nat \ {0} /\ x \div (F * B) = y \div B
  <2> DEFINE c == F * B
  <2>1. Product(c, F, B)
    BY <1>1 DEF Product
  <2> HIDE DEF c
  <2>2. c \in Nat \ {0} /\ x \div c = (x \div F) \div B
    BY <2>1, QuotientTwice
  <2> QED  BY <2>2 DEF c
<1>4. x < Block(n + 1) <=> x \div Block(n + 1) = 0
  BY <1>1, <1>3, SmallQuotient
<1> HIDE DEF y
<1>5. y < B <=> y \div B = 0
  BY <1>1, <1>2, SmallQuotient
<1> QED  BY <1>1, <1>2, <1>3, <1>4, <1>5 DEF F, B, y

LEMMA WrittenStep ==
    ASSUME NEW x \in Nat
    PROVE  /\ x < Codec!Flag => Size(x) = 1 /\ Written(x) = <<x>>
           /\ x >= Codec!Flag =>
                /\ x \div Codec!Flag \in Nat /\ x \div Codec!Flag < x
                /\ Size(x) = Size(x \div Codec!Flag) + 1
                /\ Written(x) = <<Codec!Flag + (x % Codec!Flag)>> \o Written(x \div Codec!Flag)
<1> DEFINE F == Codec!Flag
           y == x \div F
           n == Size(y)
<1>1. F \in Nat /\ F >= 2 /\ Block(0) = 1 /\ Block(1) = F
  BY BlockIs
<1> HIDE DEF F
<1>2. ASSUME x < F PROVE Size(x) = 1 /\ Written(x) = <<x>>
  <2>1. SizeIs(1, x)
    BY <1>1, <1>2 DEF SizeIs
  <2>2. Size(x) = 1
    BY <2>1, SizeUnique
  <2>3. x \div 1 = x /\ x % F = x
    BY <1>1, <1>2, SmallQuotient
  <2>4. Written(x) = [i \in 1 .. 1 |-> x]
    BY <1>1, <2>2, <2>3 DEF Written, F
  <2> QED  BY <2>2, <2>4
<1>3. ASSUME x >= F
      PROVE  /\ y \in Nat /\ y < x /\ Size(x) = n + 1
             /\ Written(x) = <<F + (x % F)>> \o Written(y)
  <2>1. y \in Nat /\ x % F \in Nat /\ x % F < F /\ x = F * y + (x % F)
    BY <1>1, Quotient
  <2>2. y < x
    <3> HIDE DEF y
    <3>1. PICK d \in Nat : F = d + 2
      <4>1. F - 2 \in Nat /\ F = (F - 2) + 2
        BY <1>1
      <4> QED  BY <4>1
    <3>2. F * y = d * y + 2 * y /\ d * y \in Nat
      BY <2>1, <3>1
    <3>3. CASE y = 0
      BY <1>1, <1>3, <3>3
    <3>4. CASE y # 0
      BY <2>1, <3>2, <3>4
    <3> QED  BY <3>3, <3>4
  <2>3. n \in Nat \ {0} /\ y < Block(n) /\ \A k \in 1 .. n - 1 : Block(k) <= y
    BY <2>1, SizeExists DEF SizeIs
  <2>4. \A k \in Nat : Block(k) \in Nat /\ Block(k + 1) \in Nat
    BY BlockIs
  <2>5. \A k \in Nat : x < Block(k + 1) <=> y < Block(k)
    BY BlockLess DEF F
  <2>6. SizeIs(n + 1, x)
    <3> HIDE DEF n, y
    <3>1. ASSUME NEW k \in 1 .. (n + 1) - 1 PROVE Block(k) <= x
      <4>1. CASE k = 1
        BY <1>1, <1>3, <4>1
      <4>2. CASE k # 1
        <5>1. k - 1 \in 1 .. n - 1 /\ k - 1 \in Nat /\ (k - 1) + 1 = k
          BY <2>3, <4>2
        <5>2. ~(y < Block(k - 1))
          BY <2>1, <2>3, <2>4, <5>1
        <5>3. ~(x < Block(k)) /\ Block(k) \in Nat
          BY <2>4, <2>5, <5>1, <5>2
        <5> QED  BY <5>3
      <4> QED  BY <4>1, <4>2
    <3> QED  BY <2>3, <2>5, <3>1 DEF SizeIs
  <2>7. Size(x) = n + 1
    BY <2>6, SizeUnique
  <2>8. Written(x) = <<F + (x % F)>> \o Written(y)
    <3> DEFINE w == [i \in 1 .. n + 1 |-> (IF i < n + 1 THEN F ELSE 0)
                                           + ((x \div Block(i - 1)) % F)]
               v == [i \in 1 .. n |-> (IF i < n THEN F ELSE 0) + ((y \div Block(i - 1)) % F)]
    <3>1. Written(x) = w
      BY <2>7 DEF Written, F
    <3>2. Written(y) = v
      BY DEF Written, F
    <3>3. w[1] = F + (x % F)
      <4>1. x \div 1 = x /\ Block(1 - 1) = 1
        BY <1>1
      <4> HIDE DEF n, y
      <4>2. 1 \in 1 .. n + 1 /\ 1 < n + 1
        BY <2>3
      <4>3. w[1] = F + ((x \div Block(1 - 1)) % F)
        BY <4>2
      <4> QED  BY <4>1, <4>3
    <3>4. ASSUME NEW i \in 1 .. n PROVE w[i + 1] = v[i]
      <4>1. i - 1 \in Nat /\ (i - 1) + 1 = (i + 1) - 1
        BY <2>3
      <4>2. x \div Block((i + 1) - 1) = y \div Block(i - 1)
        BY <4>1, BlockLess DEF F
      <4> QED  BY <2>3, <4>1, <4>2
    <3>5. w \in Seq(Nat) /\ v \in Seq(Nat)
      <4> HIDE DEF n, y
      <4>1. \A i \in Nat \ {0} : /\ (x \div Block(i - 1)) % F \in Nat
                               /\ (y \div Block(i - 1)) % F \in Nat
        <5> SUFFICES ASSUME NEW i \in Nat \ {0}
                     PROVE  /\ (x \div Block(i - 1)) % F \in Nat
                            /\ (y \div Block(i - 1)) % F \in Nat
          OBVIOUS
        <5>1. Block(i - 1) \in Nat \ {0}
          BY BlockIs
        <5> HIDE DEF y
        <5>2. x \div Block(i - 1) \in Nat /\ y \div Block(i - 1) \in Nat
          BY <2>1, <5>1, Quotient
        <5> QED  BY <1>1, <5>2, Quotient
      <4>2. w \in [1 .. n + 1 -> Nat] /\ v \in [1 .. n -> Nat]
        BY <1>1, <2>3, <4>1
      <4> HIDE DEF w, v
      <4> QED  BY <2>3, <4>2
    <3>6. Len(w) = n + 1 /\ Len(v) = n /\ DOMAIN w = 1 .. n + 1
      BY <2>3
    <3> HIDE DEF w, v, n
    <3>7. w = <<F + (x % F)>> \o v
      BY <2>3, <3>3, <3>4, <3>5, <3>6
    <3> QED  BY <3>1, <3>2, <3>7
  <2> QED  BY <2>1, <2>2, <2>7, <2>8
<1> QED  BY <1>2, <1>3 DEF F, y, n

\* The loop of writeUint32 writes exactly these.
LEMMA GroupsIs == \A x \in Codec!Unsigned : Codec!Groups[x] = Written(x)
<1> DEFINE g == Codec!Groups
           U == Codec!Unsigned
           F == Codec!Flag
           Step(h, x) == IF x >= F THEN <<F + (x % F)>> \o h[x \div F] ELSE <<x>>
           f == [x \in U |-> Written(x)]
<1>1. \A x \in U : x \in Nat /\ \A y \in Nat : y <= x => y \in U
  BY BlockIs DEF Codec!Unsigned
<1>2. F \in Nat
  BY BlockIs
<1>3. \A x \in U : x >= F => x \div F \in U /\ x \div F \in Nat /\ x \div F < x
  <2> SUFFICES ASSUME NEW x \in U, x >= F PROVE x \div F \in U /\ x \div F \in Nat /\ x \div F < x
    OBVIOUS
  <2>1. x \in Nat
    BY <1>1
  <2> DEFINE y == x \div F
  <2>2. y \in Nat /\ y < x
    BY <2>1, WrittenStep
  <2> HIDE DEF y, U
  <2>3. y \in U
    BY <1>1, <2>1, <2>2
  <2> QED  BY <2>2, <2>3 DEF y
<1>4. f = [x \in U |-> Step(f, x)]
  <2>1. ASSUME NEW x \in U PROVE f[x] = Step(f, x)
    <3>1. x \in Nat
      BY <1>1
    <3>2. CASE x >= F
      <4> DEFINE y == x \div F
      <4>1. Written(x) = <<F + (x % F)>> \o Written(y)
        BY <3>1, <3>2, WrittenStep
      <4>2. y \in U
        BY <1>3, <3>2
      <4> HIDE DEF y, F, U
      <4>3. f[y] = Written(y) /\ f[x] = Written(x)
        BY <4>2
      <4>4. f[x] = <<F + (x % F)>> \o f[y]
        BY <4>1, <4>3
      <4> HIDE DEF f
      <4> QED  BY <3>2, <4>4 DEF y
    <3>3. CASE ~(x >= F)
      <4>1. x < F
        BY <1>2, <3>1, <3>3
      <4>2. Written(x) = <<x>>
        BY <3>1, <4>1, WrittenStep
      <4> QED  BY <3>3, <4>2
    <3> QED  BY <3>2, <3>3
  <2> HIDE DEF Step, U
  <2> QED  BY <2>1
<1>5. g = [x \in U |-> Step(g, x)]
  <2>1. \E h : h = [x \in U |-> Step(h, x)]
    BY <1>4
  <2> QED  BY <2>1 DEF Codec!Groups
<1>6. \A x \in U : g[x] = Step(g, x)
  <2> HIDE DEF g, U, Step
  <2> QED  BY <1>5
<1> DEFINE T == {x \in Nat : x \in U => g[x] = Written(x)}
<1>7. ASSUME NEW x \in Nat, \A y \in 0 .. x - 1 : y \in T PROVE x \in T
  <2> SUFFICES ASSUME x \in U PROVE g[x] = Written(x)
    OBVIOUS
  <2>1. CASE x >= F
    <3> DEFINE y == x \div F
    <3>1. y \in U /\ y \in Nat /\ y < x
      BY <1>3, <2>1
    <3>2. Written(x) = <<F + (x % F)>> \o Written(y)
      BY <2>1, WrittenStep
    <3>3. g[x] = <<F + (x % F)>> \o g[y]
      <4> HIDE DEF g, U, F
      <4> QED  BY <1>6, <2>1
    <3> HIDE DEF y, g, U, F
    <3>4. g[y] = Written(y)
      BY <1>7, <3>1
    <3> QED  BY <3>2, <3>3, <3>4
  <2>2. CASE ~(x >= F)
    <3>1. x < F
      BY <1>2, <2>2
    <3>2. Written(x) = <<x>>
      BY <3>1, WrittenStep
    <3>3. g[x] = <<x>>
      <4> HIDE DEF g, U, F
      <4> QED  BY <1>6, <2>2
    <3> QED  BY <3>2, <3>3
  <2> QED  BY <2>1, <2>2
<1>8. Nat \subseteq T
  <2> HIDE DEF T
  <2> QED  BY <1>7, StrongInduction
<1> HIDE DEF g, U
<1>9. \A x \in U : g[x] = Written(x)
  BY <1>1, <1>8
<1> QED  BY <1>9 DEF g, U

\* The bytes of a number: all but the last have the flag, and each its group.
LEMMA WrittenIs ==
    ASSUME NEW x \in Nat
    PROVE  /\ Written(x) \in Seq(Codec!Octets) /\ Len(Written(x)) = Size(x)
           /\ Size(x) \in Nat \ {0} /\ x < Block(Size(x))
           /\ \A i \in 1 .. Size(x) :
                /\ Written(x)[i] % Codec!Flag = (x \div Block(i - 1)) % Codec!Flag
                /\ Written(x)[i] < Codec!Flag <=> i = Size(x)
                /\ Written(x)[i] \in Nat
<1> DEFINE F == Codec!Flag
           n == Size(x)
           w == Written(x)
           D(i) == (x \div Block(i - 1)) % F
<1>1. F \in Nat \ {0}
  BY BlockIs
<1>2. n \in Nat \ {0} /\ x < Block(n)
  BY SizeExists DEF SizeIs
<1>3. \A i \in 1 .. n : D(i) \in Nat /\ D(i) < F
  <2> SUFFICES ASSUME NEW i \in 1 .. n PROVE D(i) \in Nat /\ D(i) < F
    OBVIOUS
  <2> DEFINE q == x \div Block(i - 1)
  <2>1. Block(i - 1) \in Nat \ {0}
    BY <1>2, BlockIs
  <2>2. q \in Nat
    BY <2>1, Quotient
  <2> HIDE DEF q, F
  <2>3. q % F \in Nat /\ q % F < F
    BY <1>1, <2>2, Quotient
  <2> QED  BY <2>3 DEF q
<1>4. w = [i \in 1 .. n |-> (IF i < n THEN F ELSE 0) + D(i)]
  BY DEF Written
<1> HIDE DEF w, n, F, D
<1>5. ASSUME NEW i \in 1 .. n
      PROVE  w[i] % F = D(i) /\ (w[i] < F <=> i = n) /\ w[i] \in 0 .. 2 * F - 1
  <2>1. D(i) \in Nat /\ D(i) < F
    BY <1>3
  <2>2. CASE i = n
    <3>1. w[i] = D(i)
      BY <1>2, <1>4, <2>1, <2>2
    <3>2. D(i) % F = D(i)
      BY <1>1, <2>1, SmallQuotient
    <3> QED  BY <1>1, <2>1, <2>2, <3>1, <3>2
  <2>3. CASE i # n
    <3>1. w[i] = F + D(i) /\ w[i] = F * 1 + D(i) /\ w[i] \in Nat
      BY <1>1, <1>2, <1>4, <2>1, <2>3
    <3>2. w[i] % F = D(i)
      BY <1>1, <2>1, <3>1, QuotientIs
    <3> QED  BY <1>1, <2>1, <2>3, <3>1, <3>2
  <2> QED  BY <2>2, <2>3
<1>6. w \in Seq(0 .. 2 * F - 1) /\ Len(w) = n
  <2>1. DOMAIN w = 1 .. n /\ w = [i \in 1 .. n |-> w[i]]
    BY <1>4
  <2>2. w \in [1 .. n -> 0 .. 2 * F - 1]
    BY <1>5, <2>1
  <2>3. w \in Seq(0 .. 2 * F - 1)
    BY <1>2, <2>2, SeqDef, Zenon
  <2> QED  BY <1>2, <2>1, <2>3
<1>7. \A i \in 1 .. n : w[i] \in Nat
  BY <1>1, <1>5
<1> QED  BY <1>2, <1>5, <1>6, <1>7 DEF w, n, F, D, Codec!Octets

\* The loop of readUint32 adds one group after the other.
LEMMA CollectedIs ==
    ASSUME stream \in Seq(Nat)
    PROVE  /\ Codec!Collected[0] = 0
           /\ \A i \in 0 .. Len(stream) - 1 :
                Codec!Collected[i + 1] =
                  (Codec!Collected[i] + (stream[i + 1] % Codec!Flag) * Block(i)) % Codec!Span
<1> DEFINE S == Codec!Span
           n == Len(stream)
           c == Codec!Collected
           D(i) == (stream[i] % Codec!Flag) * Codec!Power[Group * (i - 1)]
           add == [i \in Nat |-> [x \in Nat |-> IF i < n THEN (x + D(i + 1)) % S ELSE x]]
           More(h, i) == IF i = 0 THEN 0 ELSE (h[i - 1] + D(i)) % S
<1>1. n \in Nat /\ S \in Nat \ {0}
  BY BlockIs
<1>2. \A i \in 1 .. n : D(i) \in Nat
  <2> SUFFICES ASSUME NEW i \in 1 .. n PROVE D(i) \in Nat
    OBVIOUS
  <2>1. stream[i] \in Nat /\ Codec!Flag \in Nat \ {0} /\ i - 1 \in Nat
    <3>1. stream[i] \in Nat /\ i - 1 \in Nat
      BY <1>1
    <3>2. Codec!Flag \in Nat \ {0}
      BY BlockIs
    <3> QED  BY <3>1, <3>2
  <2>2. Block(i - 1) \in Nat /\ stream[i] % Codec!Flag \in Nat
    BY <2>1, BlockIs, Quotient
  <2> DEFINE q == stream[i] % Codec!Flag
             b == Block(i - 1)
  <2> HIDE DEF q, b
  <2>3. q \in Nat /\ b \in Nat
    BY <2>2 DEF q, b
  <2>4. q * b \in Nat
    BY <2>3
  <2> QED  BY <2>4 DEF q, b, Block
<1>3. add \in Steps(Nat)
  <2>1. ASSUME NEW i \in Nat, NEW x \in Nat
        PROVE  (IF i < n THEN (x + D(i + 1)) % S ELSE x) \in Nat
    <3>1. CASE i < n
      <4>1. i + 1 \in 1 .. n
        BY <1>1, <3>1
      <4> HIDE DEF D, S, n
      <4>2. x + D(i + 1) \in Nat
        BY <1>2, <4>1
      <4> QED  BY <1>1, <3>1, <4>2, Quotient
    <3>2. CASE ~(i < n)
      BY <3>2
    <3> QED  BY <3>1, <3>2
  <2> HIDE DEF D, S, n
  <2> QED  BY <2>1 DEF Steps
<1> HIDE DEF add
<1>4. PICK f : Iteration(f, Nat, 0, add)
  BY <1>3, IterationExists
<1>5. f \in [Nat -> Nat] /\ f[0] = 0 /\ \A i \in Nat : f[i + 1] = add[i][f[i]]
  BY <1>4 DEF Iteration
<1> DEFINE h == [i \in 0 .. n |-> f[i]]
<1>6. h = [i \in 0 .. n |-> More(h, i)]
  <2>1. ASSUME NEW i \in 0 .. n PROVE h[i] = More(h, i)
    <3>1. CASE i = 0
      BY <1>1, <1>5, <3>1
    <3>2. CASE i # 0
      <4>1. i - 1 \in Nat /\ (i - 1) + 1 = i /\ i - 1 < n /\ i - 1 \in 0 .. n
        BY <1>1, <3>2
      <4>2. h[i] = f[i] /\ h[i - 1] = f[i - 1] /\ f[i - 1] \in Nat
        BY <1>5, <4>1
      <4>3. f[i] = add[i - 1][f[i - 1]]
        BY <1>5, <4>1
      <4> HIDE DEF h, n, S, D
      <4>4. add[i - 1][f[i - 1]] = (f[i - 1] + D((i - 1) + 1)) % S
        BY <4>1, <4>2 DEF add
      <4>5. D((i - 1) + 1) = D(i)
        BY <4>1
      <4> QED  BY <3>2, <4>2, <4>3, <4>4, <4>5
    <3> QED  BY <3>1, <3>2
  <2> HIDE DEF More, n
  <2> QED  BY <2>1
<1>7. c = [i \in 0 .. n |-> More(c, i)]
  <2>1. \E g : g = [i \in 0 .. n |-> More(g, i)]
    BY <1>6
  <2> QED  BY <2>1 DEF Codec!Collected
<1> HIDE DEF c
<1>8. \A i \in 0 .. n : c[i] = More(c, i)
  <2> HIDE DEF More, n
  <2> QED  BY <1>7
<1>9. c[0] = 0
  BY <1>1, <1>8
<1>10. ASSUME NEW i \in 0 .. n - 1
       PROVE  c[i + 1] = (c[i] + (stream[i + 1] % Codec!Flag) * Block(i)) % Codec!Span
  <2>1. i + 1 \in 0 .. n /\ i + 1 # 0 /\ (i + 1) - 1 = i
    BY <1>1
  <2>2. c[i + 1] = (c[(i + 1) - 1] + D(i + 1)) % S
    BY <1>8, <2>1
  <2>3. D(i + 1) = (stream[i + 1] % Codec!Flag) * Block(i)
    BY <2>1 DEF Block
  <2> QED  BY <2>1, <2>2, <2>3
<1> QED  BY <1>9, <1>10 DEF c

\* A stream that begins with the bytes of a number: where it ends, and what is read.
StartsWith(x) ==
    /\ Size(x) <= Len(stream)
    /\ \A j \in 1 .. Size(x) : stream[j] = Written(x)[j]

LEMMA ReadsNumber ==
    ASSUME NEW x \in Codec!Unsigned, stream \in Seq(Nat), StartsWith(x)
    PROVE  Codec!Taken = Size(x) /\ Codec!Collected[Codec!Taken] = x
<1> DEFINE F == Codec!Flag
           S == Codec!Span
           n == Size(x)
           c == Codec!Collected
<1>1. x \in Nat /\ x < S /\ S \in Nat \ {0} /\ F \in Nat \ {0}
  BY BlockIs DEF Codec!Unsigned
<1>2. n \in Nat \ {0} /\ x < Block(n) /\ n <= Len(stream) /\ Len(stream) \in Nat
  BY <1>1, WrittenIs DEF StartsWith
<1>3. \A i \in 1 .. n : /\ stream[i] % F = (x \div Block(i - 1)) % F
                        /\ stream[i] < F <=> i = n
                        /\ stream[i] \in Nat
  BY <1>1, WrittenIs DEF StartsWith
<1>4. Codec!Taken = n
  <2> DEFINE Ends(k) == stream[k] < F /\ \A i \in 1 .. k - 1 : stream[i] >= F
  <2> HIDE DEF n
  <2>1. n \in DOMAIN stream /\ Ends(n)
    <3>1. n \in DOMAIN stream /\ stream[n] < F
      BY <1>2, <1>3
    <3>2. ASSUME NEW i \in 1 .. n - 1 PROVE stream[i] >= F
      BY <1>1, <1>2, <1>3
    <3> QED  BY <3>1, <3>2
  <2>2. ASSUME NEW k \in DOMAIN stream, Ends(k) PROVE k = n
    <3>1. k \in Nat \ {0}
      BY <1>2
    <3>2. ~(k < n)
      BY <1>2, <1>3, <2>2, <3>1
    <3>3. ~(n < k)
      BY <1>1, <1>2, <1>3, <2>2, <3>1
    <3> QED  BY <1>2, <3>1, <3>2, <3>3
  <2>3. Codec!Taken = CHOOSE k \in DOMAIN stream : Ends(k)
    BY DEF Codec!Taken
  <2> HIDE DEF Ends, F
  <2> QED  BY <2>1, <2>2, <2>3
<1>5. c[0] = 0 /\ \A i \in 0 .. Len(stream) - 1 :
                    c[i + 1] = (c[i] + (stream[i + 1] % F) * Block(i)) % S
  BY CollectedIs
<1> DEFINE T == {i \in Nat : i <= n => c[i] = x % Block(i)}
<1> HIDE DEF c, n
<1>6. 0 \in T
  <2>1. x % 1 = 0
    BY <1>1
  <2> QED  BY <1>5, <2>1, BlockIs
<1>7. ASSUME NEW i \in Nat, i \in T PROVE i + 1 \in T
  <2> SUFFICES ASSUME i + 1 <= n PROVE c[i + 1] = x % Block(i + 1)
    OBVIOUS
  <2>1. c[i] = x % Block(i)
    BY <1>2, <1>7
  <2>2. i \in 0 .. Len(stream) - 1 /\ i + 1 \in 1 .. n /\ (i + 1) - 1 = i
    BY <1>2
  <2>3. stream[i + 1] % F = (x \div Block(i)) % F
    BY <1>3, <2>2
  <2>4. c[i + 1] = ((x % Block(i)) + ((x \div Block(i)) % F) * Block(i)) % S
    BY <1>5, <2>1, <2>2, <2>3
  <2> DEFINE B == Block(i)
             C == Block(i + 1)
  <2>5. Product(C, B, F)
    <3>1. B \in Nat \ {0} /\ C = F * B
      BY BlockIs
    <3> HIDE DEF B, C, F
    <3> QED  BY <1>1, <3>1 DEF Product
  <2>6. C \in Nat \ {0} /\ x % C = (x % B) + ((x \div B) % F) * B
    <3> HIDE DEF B, C, F
    <3> QED  BY <1>1, <2>5, QuotientTwice
  <2>7. x % C \in Nat /\ x % C <= x
    <3> DEFINE q == x \div C
    <3> HIDE DEF C
    <3>1. q \in Nat /\ x % C \in Nat /\ x = C * q + (x % C)
      BY <1>1, <2>6, Quotient
    <3> HIDE DEF q
    <3>2. C * q \in Nat
      BY <2>6, <3>1
    <3> QED  BY <1>1, <3>1, <3>2
  <2>8. (x % C) % S = x % C
    <3> HIDE DEF C, S
    <3>1. x % C < S
      BY <1>1, <2>7
    <3> QED  BY <1>1, <2>7, <3>1, SmallQuotient
  <2> QED  BY <2>4, <2>6, <2>8
<1>8. Nat \subseteq T
  <2> HIDE DEF T
  <2> QED  BY <1>6, <1>7, Induction
<1>9. c[n] = x % Block(n)
  BY <1>2, <1>8
<1>10. x % Block(n) = x
  <2>1. Block(n) \in Nat \ {0}
    BY <1>2, BlockIs
  <2> QED  BY <1>1, <1>2, <2>1, SmallQuotient
<1> QED  BY <1>4, <1>9, <1>10 DEF c, n

\* A signed number is mapped to an unsigned one and back.
LEMMA Zigzag ==
    ASSUME NEW v \in Codec!Signed
    PROVE  /\ Codec!EncodeZigzag(v) \in Codec!Unsigned
           /\ Codec!DecodeZigzag(Codec!EncodeZigzag(v)) = v
<1>1. PICK h \in Nat \ {0} : Codec!Span = 2 * h
  <2>1. Width - 1 \in Nat /\ (Width - 1) + 1 = Width
    BY ServicesAssumption DEF Codec!VarintAssumption
  <2>2. Codec!Power[Width] = 2 * Codec!Power[Width - 1] /\ Codec!Power[Width - 1] \in Nat \ {0}
    BY <2>1, PowerIs
  <2> QED  BY <2>2 DEF Codec!Span
<1>2. (2 * h) \div 2 = h
  BY <1>1
<1>3. v \in Int /\ -h <= v /\ v < h /\ Codec!Unsigned = 0 .. 2 * h - 1
  BY <1>1, <1>2 DEF Codec!Signed, Codec!Unsigned
<1> DEFINE e == Codec!EncodeZigzag(v)
<1>4. CASE v >= 0
  <2>1. (2 * v) % (2 * h) = 2 * v
    BY <1>1, <1>3, <1>4, SmallQuotient
  <2>2. e = 2 * v
    BY <1>1, <1>3, <1>4, <2>1 DEF Codec!EncodeZigzag
  <2>3. (2 * v) % 2 = 0 /\ (2 * v) \div 2 = v
    BY <1>3, <1>4
  <2>4. Codec!DecodeZigzag(2 * v) = Codec!ToSigned(v)
    BY <2>3 DEF Codec!DecodeZigzag
  <2>5. Codec!ToSigned(v) = v
    BY <1>1, <1>2, <1>3 DEF Codec!ToSigned
  <2> QED  BY <1>1, <1>3, <1>4, <2>2, <2>4, <2>5
<1>5. CASE v < 0
  <2>1. (2 * v) % (2 * h) = 2 * v + 2 * h
    BY <1>1, <1>3, <1>5
  <2>2. e = -1 - 2 * v
    BY <1>1, <1>3, <1>5, <2>1 DEF Codec!EncodeZigzag, Codec!Complement
  <2>3. (-1 - 2 * v) % 2 = 1 /\ (-1 - 2 * v) \div 2 = -1 - v
    BY <1>3, <1>5
  <2>4. Codec!DecodeZigzag(-1 - 2 * v) = Codec!ToSigned(2 * h + v)
    BY <1>1, <1>3, <2>3 DEF Codec!DecodeZigzag, Codec!Complement
  <2>5. Codec!ToSigned(2 * h + v) = v
    BY <1>1, <1>2, <1>3, <1>5 DEF Codec!ToSigned
  <2> QED  BY <1>1, <1>3, <1>5, <2>2, <2>4, <2>5
<1> QED  BY <1>3, <1>4, <1>5

\* What goes out for a number.
Sent(number) ==
    IF number.signed THEN Codec!EncodeZigzag(number.value) ELSE number.value

\* The stream is cut into the bytes of the numbers that are not yet read: the
\* reader does not know the cuts.
Cuts ==
    {cut \in [0 .. Len(unread) -> 0 .. Len(stream)] :
        /\ cut[0] = 0 /\ cut[Len(unread)] = Len(stream)
        /\ \A i, j \in 0 .. Len(unread) : i <= j => cut[i] <= cut[j]
        /\ \A i \in 1 .. Len(unread) :
            /\ cut[i] = cut[i - 1] + Size(Sent(unread[i]))
            /\ \A j \in 1 .. Size(Sent(unread[i])) :
                stream[cut[i - 1] + j] = Written(Sent(unread[i]))[j]}

CodecInv ==
    /\ stream \in Seq(Codec!Octets) /\ unread \in Seq(Codec!Numbers)
    /\ got.number = got.wanted
    /\ Cuts # {}

LEMMA SentIs ==
    ASSUME NEW number \in Codec!Numbers
    PROVE  /\ Sent(number) \in Codec!Unsigned /\ Sent(number) \in Nat
           /\ number = [signed |-> number.signed,
                        value |-> IF number.signed THEN Codec!DecodeZigzag(Sent(number))
                                  ELSE Sent(number)]
<1>1. Codec!Unsigned \subseteq Nat
  BY BlockIs DEF Codec!Unsigned
<1>2. CASE number \in [signed : {TRUE}, value : Codec!Signed]
  <2>1. number.signed = TRUE /\ number.value \in Codec!Signed
        /\ number = [signed |-> TRUE, value |-> number.value]
    BY <1>2
  <2>2. /\ Codec!EncodeZigzag(number.value) \in Codec!Unsigned
        /\ Codec!DecodeZigzag(Codec!EncodeZigzag(number.value)) = number.value
    BY <2>1, Zigzag
  <2>3. Sent(number) = Codec!EncodeZigzag(number.value)
    BY <2>1 DEF Sent
  <2> QED  BY <1>1, <2>1, <2>2, <2>3
<1>3. CASE number \in [signed : {FALSE}, value : Codec!Unsigned]
  <2>1. number.signed = FALSE /\ number.value \in Codec!Unsigned
        /\ number = [signed |-> FALSE, value |-> number.value]
    BY <1>3
  <2>2. Sent(number) = number.value
    BY <2>1 DEF Sent
  <2> QED  BY <1>1, <2>1, <2>2
<1> QED  BY <1>2, <1>3 DEF Codec!Numbers

LEMMA WriteNumberKeeps ==
    ASSUME CodecInv, NEW number \in Codec!Numbers, Codec!WriteNumber(number)
    PROVE  CodecInv'
<1> DEFINE x == Sent(number)
           w == Written(x)
           n == Len(unread)
           l == Len(stream)
<1>1. x \in Codec!Unsigned /\ x \in Nat
  BY SentIs
<1>2. stream' = stream \o w /\ unread' = Append(unread, number)
  BY <1>1, GroupsIs DEF Codec!WriteNumber, Sent
<1>3. w \in Seq(Codec!Octets) /\ Len(w) = Size(x) /\ Size(x) \in Nat \ {0}
  BY <1>1, WrittenIs
<1>4. stream \in Seq(Codec!Octets) /\ unread \in Seq(Codec!Numbers) /\ n \in Nat /\ l \in Nat
  BY DEF CodecInv
<1>5. got'.number = got'.wanted
  BY DEF Codec!WriteNumber, Codec!Nothing
<1> HIDE DEF w, x
<1>6. /\ stream' \in Seq(Codec!Octets) /\ unread' \in Seq(Codec!Numbers)
      /\ Len(stream') = l + Size(x) /\ Len(unread') = n + 1
      /\ \A i \in 1 .. l : stream'[i] = stream[i]
      /\ \A i \in 1 .. Size(x) : stream'[l + i] = w[i]
      /\ \A i \in 1 .. n : unread'[i] = unread[i]
      /\ unread'[n + 1] = number
  BY <1>2, <1>3, <1>4
<1>7. PICK cut \in Cuts : TRUE
  BY DEF CodecInv
<1> DEFINE more == [i \in 0 .. n + 1 |-> IF i = n + 1 THEN l + Size(x) ELSE cut[i]]
<1>8. /\ cut \in [0 .. n -> 0 .. l] /\ cut[0] = 0 /\ cut[n] = l
      /\ \A i, j \in 0 .. n : i <= j => cut[i] <= cut[j]
      /\ \A i \in 1 .. n : cut[i] = cut[i - 1] + Size(Sent(unread[i]))
      /\ \A i \in 1 .. n : \A j \in 1 .. Size(Sent(unread[i])) :
            stream[cut[i - 1] + j] = Written(Sent(unread[i]))[j]
  BY <1>7 DEF Cuts
<1> HIDE DEF n, l
<1>9. more \in [0 .. n + 1 -> 0 .. l + Size(x)]
  BY <1>3, <1>4, <1>8
<1>10. more[0] = 0 /\ more[n + 1] = l + Size(x)
  BY <1>4, <1>8
<1>11. ASSUME NEW i \in 0 .. n + 1, NEW j \in 0 .. n + 1, i <= j PROVE more[i] <= more[j]
  <2>1. CASE j = n + 1
    BY <1>3, <1>4, <1>8, <2>1
  <2>2. CASE j # n + 1
    BY <1>4, <1>8, <1>11, <2>2
  <2> QED  BY <2>1, <2>2
<1>12. ASSUME NEW i \in 1 .. n + 1
       PROVE  /\ more[i] = more[i - 1] + Size(Sent(unread'[i]))
              /\ \A j \in 1 .. Size(Sent(unread'[i])) :
                    stream'[more[i - 1] + j] = Written(Sent(unread'[i]))[j]
  <2>1. CASE i = n + 1
    <3>1. more[i] = l + Size(x) /\ more[i - 1] = l /\ unread'[i] = number
      BY <1>4, <1>6, <1>8, <2>1
    <3> QED  BY <1>6, <3>1 DEF w, x
  <2>2. CASE i # n + 1
    <3>1. i \in 1 .. n /\ i - 1 \in 0 .. n /\ unread'[i] = unread[i]
      BY <1>4, <1>6, <2>2
    <3>2. more[i] = cut[i] /\ more[i - 1] = cut[i - 1]
      BY <1>4, <3>1
    <3>3. cut[i] = cut[i - 1] + Size(Sent(unread[i])) /\ cut[i] \in 0 .. l /\ cut[i - 1] \in 0 .. l
      BY <1>4, <1>8, <3>1
    <3>4. ASSUME NEW j \in 1 .. Size(Sent(unread[i]))
          PROVE  stream'[cut[i - 1] + j] = Written(Sent(unread[i]))[j]
      <4>1. unread[i] \in Codec!Numbers
        BY <1>4, <3>1 DEF n
      <4>2. Size(Sent(unread[i])) \in Nat
        BY <4>1, SentIs, WrittenIs
      <4>3. cut[i - 1] + j \in 1 .. l
        BY <1>4, <3>3, <4>2
      <4> QED  BY <1>6, <1>8, <3>1, <4>3
    <3> QED  BY <3>1, <3>2, <3>3, <3>4
  <2> QED  BY <2>1, <2>2
<1> HIDE DEF more
<1>13. more \in Cuts'
  BY <1>6, <1>9, <1>10, <1>11, <1>12 DEF Cuts
<1> QED  BY <1>5, <1>6, <1>13 DEF CodecInv

LEMMA ReadNumberKeeps ==
    ASSUME CodecInv, Codec!ReadNumber
    PROVE  CodecInv'
<1> DEFINE number == Head(unread)
           x == Sent(number)
           s == Size(x)
           n == Len(unread)
           l == Len(stream)
<1>1. /\ stream \in Seq(Codec!Octets) /\ unread \in Seq(Codec!Numbers)
      /\ n \in Nat \ {0} /\ l \in Nat
  BY DEF CodecInv, Codec!ReadNumber
<1>2. number = unread[1] /\ number \in Codec!Numbers
  BY <1>1
<1>3. x \in Codec!Unsigned /\ x \in Nat
  BY <1>2, SentIs
<1>4. s \in Nat \ {0}
  BY <1>3, WrittenIs
<1>5. PICK cut \in Cuts : TRUE
  BY DEF CodecInv
<1>6. /\ cut \in [0 .. n -> 0 .. l] /\ cut[0] = 0 /\ cut[n] = l
      /\ \A i, j \in 0 .. n : i <= j => cut[i] <= cut[j]
      /\ \A i \in 1 .. n : cut[i] = cut[i - 1] + Size(Sent(unread[i]))
      /\ \A i \in 1 .. n : \A j \in 1 .. Size(Sent(unread[i])) :
            stream[cut[i - 1] + j] = Written(Sent(unread[i]))[j]
  BY <1>5 DEF Cuts
<1> HIDE DEF n, l, number
<1>7. cut[1] = s /\ s <= l /\ \A j \in 1 .. s : stream[j] = Written(x)[j]
  <2>1. 1 \in 1 .. n /\ 1 - 1 = 0
    BY <1>1
  <2>2. cut[1] = 0 + s /\ \A j \in 1 .. s : stream[0 + j] = Written(x)[j]
    BY <1>2, <1>6, <2>1
  <2>3. cut[1] \in 0 .. l
    BY <1>6, <2>1
  <2> HIDE DEF s, x
  <2> QED  BY <1>1, <1>4, <2>2, <2>3
<1>8. StartsWith(x)
  BY <1>7 DEF StartsWith, l
<1>9. stream \in Seq(Nat)
  <2>1. Codec!Octets \subseteq Nat
    BY DEF Codec!Octets
  <2> QED  BY <1>1, <2>1, SeqMonotonic
<1>10. Codec!Taken = s /\ Codec!Collected[Codec!Taken] = x
  BY <1>3, <1>8, <1>9, ReadsNumber
<1>11. got'.number = got'.wanted
  <2>1. got'.wanted = number
    BY DEF Codec!ReadNumber, number
  <2>2. got'.number = [signed |-> number.signed,
                       value |-> IF number.signed THEN Codec!DecodeZigzag(x) ELSE x]
    BY <1>10 DEF Codec!ReadNumber, number
  <2> QED  BY <1>2, <2>1, <2>2, SentIs
<1>12. stream' = SubSeq(stream, s + 1, l) /\ unread' = Tail(unread)
  BY <1>10 DEF Codec!ReadNumber, l
<1> HIDE DEF s, x
<1>13. /\ stream' \in Seq(Codec!Octets) /\ unread' \in Seq(Codec!Numbers)
       /\ Len(stream') = l - s /\ Len(unread') = n - 1
       /\ \A i \in 1 .. l - s : stream'[i] = stream[s + i]
       /\ \A i \in 1 .. n - 1 : unread'[i] = unread[i + 1]
  BY <1>1, <1>4, <1>7, <1>12 DEF n, l
<1> DEFINE rest == [i \in 0 .. n - 1 |-> cut[i + 1] - s]
<1>14. ASSUME NEW i \in 0 .. n - 1
       PROVE  i + 1 \in 1 .. n /\ cut[i + 1] \in s .. l /\ rest[i] = cut[i + 1] - s
  <2>1. i + 1 \in 1 .. n /\ i + 1 \in 0 .. n /\ 1 \in 0 .. n /\ 1 <= i + 1
    BY <1>1
  <2>2. cut[1] <= cut[i + 1] /\ cut[i + 1] \in 0 .. l
    BY <1>6, <2>1
  <2> QED  BY <1>1, <1>4, <1>7, <2>1, <2>2
<1>15. rest \in [0 .. n - 1 -> 0 .. l - s]
  <2>1. \A i \in 0 .. n - 1 : rest[i] \in 0 .. l - s
    BY <1>1, <1>4, <1>7, <1>14
  <2> QED  BY <2>1
<1>16. rest[0] = 0 /\ rest[n - 1] = l - s
  <2>1. 0 \in 0 .. n - 1 /\ n - 1 \in 0 .. n - 1 /\ 0 + 1 = 1 /\ (n - 1) + 1 = n
    BY <1>1
  <2>2. rest[0] = cut[1] - s /\ rest[n - 1] = cut[n] - s
    BY <2>1
  <2> HIDE DEF rest
  <2> QED  BY <1>1, <1>4, <1>6, <1>7, <2>2
<1> HIDE DEF rest
<1>17. ASSUME NEW i \in 0 .. n - 1, NEW j \in 0 .. n - 1, i <= j PROVE rest[i] <= rest[j]
  <2>1. i + 1 \in 0 .. n /\ j + 1 \in 0 .. n /\ i + 1 <= j + 1
    BY <1>1, <1>17
  <2>2. cut[i + 1] <= cut[j + 1]
    BY <1>6, <2>1
  <2>3. /\ cut[i + 1] \in s .. l /\ rest[i] = cut[i + 1] - s
        /\ cut[j + 1] \in s .. l /\ rest[j] = cut[j + 1] - s
    BY <1>14
  <2> QED  BY <1>1, <1>4, <2>2, <2>3
<1>18. ASSUME NEW i \in 1 .. n - 1
       PROVE  /\ rest[i] = rest[i - 1] + Size(Sent(unread'[i]))
              /\ \A j \in 1 .. Size(Sent(unread'[i])) :
                    stream'[rest[i - 1] + j] = Written(Sent(unread'[i]))[j]
  <2>1. /\ i + 1 \in 1 .. n /\ (i + 1) - 1 = i /\ (i - 1) + 1 = i /\ i - 1 \in 0 .. n - 1
        /\ i \in 0 .. n - 1 /\ unread'[i] = unread[i + 1]
    <3>1. unread'[i] = unread[i + 1]
      BY <1>13
    <3>2. /\ i + 1 \in 1 .. n /\ (i + 1) - 1 = i /\ (i - 1) + 1 = i /\ i - 1 \in 0 .. n - 1
          /\ i \in 0 .. n - 1
      BY <1>1
    <3> QED  BY <3>1, <3>2
  <2>2. unread[i + 1] \in Codec!Numbers
    BY <1>1, <2>1 DEF n
  <2> DEFINE t == Size(Sent(unread[i + 1]))
  <2>3. t \in Nat
    BY <2>2, SentIs, WrittenIs
  <2>4. cut[i + 1] = cut[i] + t
    BY <1>6, <2>1
  <2>5. /\ rest[i] = cut[i + 1] - s /\ rest[i - 1] = cut[i] - s
        /\ cut[i + 1] \in s .. l /\ cut[i] \in s .. l
    BY <1>14, <2>1
  <2> HIDE DEF t
  <2>6. PICK a \in s .. l, b \in s .. l : a = cut[i] /\ b = cut[i + 1] /\ b = a + t
    BY <2>4, <2>5
  <2>7. rest[i] = b - s /\ rest[i - 1] = a - s
    BY <2>5, <2>6
  <2>8. ASSUME NEW j \in 1 .. t
        PROVE  stream'[rest[i - 1] + j] = Written(Sent(unread[i + 1]))[j]
    <3>1. stream[cut[i] + j] = Written(Sent(unread[i + 1]))[j]
      BY <1>6, <2>1 DEF t
    <3>2. (a - s) + j \in 1 .. l - s /\ s + ((a - s) + j) = a + j
      BY <1>1, <1>4, <2>3, <2>6
    <3>3. stream'[(a - s) + j] = stream[a + j]
      BY <1>13, <3>2
    <3> QED  BY <2>6, <2>7, <3>1, <3>3
  <2>9. rest[i] = rest[i - 1] + t
    BY <1>1, <1>4, <2>3, <2>6, <2>7
  <2> QED  BY <2>1, <2>8, <2>9 DEF t
<1>19. rest \in Cuts'
  BY <1>13, <1>15, <1>16, <1>17, <1>18 DEF Cuts
<1> QED  BY <1>11, <1>13, <1>19 DEF CodecInv

\* Every number, signed or not and of any width, is read back as it was written,
\* and the reader stops where the next one begins (bytearray.cpp:39-75, 173-207,
\* 305-341).
THEOREM NumbersAreReadBack == ServicesSpec => []NumbersReadBack
<1>1. ServicesInit => CodecInv
  <2> SUFFICES ASSUME ServicesInit PROVE CodecInv
    OBVIOUS
  <2>1. stream = <<>> /\ unread = <<>> /\ got = Codec!Nothing
    BY DEF ServicesInit, Codec!Init
  <2> DEFINE none == [i \in 0 .. 0 |-> 0]
  <2>2. none \in Cuts
    BY <2>1 DEF Cuts
  <2> QED  BY <2>1, <2>2 DEF CodecInv, Codec!Nothing
<1>2. CodecInv /\ [ServicesNext]_allVars => CodecInv'
  <2> SUFFICES ASSUME CodecInv, [ServicesNext]_allVars PROVE CodecInv'
    OBVIOUS
  <2>1. [Codec!Next]_codecVars
    BY StepOfParts
  <2>2. CASE UNCHANGED codecVars
    <3>1. Cuts' = Cuts
      BY <2>2 DEF codecVars, Cuts
    <3>2. stream' = stream /\ unread' = unread /\ got' = got
      BY <2>2 DEF codecVars
    <3> QED  BY <3>1, <3>2 DEF CodecInv
  <2>3. CASE Codec!ReadNumber
    BY <2>3, ReadNumberKeeps
  <2>4. ASSUME NEW number \in Codec!Numbers, Codec!WriteNumber(number) PROVE CodecInv'
    BY <2>4, WriteNumberKeeps
  <2> QED  BY <2>1, <2>2, <2>3, <2>4 DEF Codec!Next
<1>3. CodecInv => NumbersReadBack
  <2> SUFFICES ASSUME CodecInv PROVE NumbersReadBack
    OBVIOUS
  <2>1. ASSUME unread = <<>> PROVE stream = <<>>
    <3>1. PICK cut \in Cuts : TRUE
      BY DEF CodecInv
    <3>2. cut[0] = 0 /\ cut[Len(unread)] = Len(stream)
      BY <3>1 DEF Cuts
    <3>3. Len(unread) = 0
      BY <2>1
    <3>4. Len(stream) = 0
      BY <3>2, <3>3
    <3> QED  BY <3>4 DEF CodecInv
  <2> QED  BY <2>1 DEF CodecInv, NumbersReadBack, Codec!NumbersReadBack
<1> QED  BY <1>1, <1>2, <1>3, PTL DEF ServicesSpec

-----------------------------------------------------------------------------
(* The bytes of a message *)

\* Where each of some sequences lies in what they are put together to.
Cut(seqs, flat) ==
    {cut \in [0 .. Len(seqs) -> 0 .. Len(flat)] :
        /\ cut[0] = 0 /\ cut[Len(seqs)] = Len(flat)
        /\ \A i \in 1 .. Len(seqs) :
            /\ cut[i] = cut[i - 1] + Len(seqs[i])
            /\ \A j \in 1 .. Len(seqs[i]) : flat[cut[i - 1] + j] = seqs[i][j]}

\* Sequences put together lie in the whole one behind the other.
LEMMA Flattened ==
    ASSUME NEW S, NEW seqs \in Seq(Seq(S))
    PROVE  /\ Parser!FlattenSeq(seqs) \in Seq(S)
           /\ Cut(seqs, Parser!FlattenSeq(seqs)) # {}
<1> DEFINE n == Len(seqs)
           V == Seq(S)
           more == [i \in Nat |-> [x \in V |-> IF i < n THEN x \o seqs[i + 1] ELSE x]]
           More(h, i) == IF i = 1 THEN seqs[i] ELSE h[i - 1] \o seqs[i]
<1>1. n \in Nat /\ DOMAIN seqs = 1 .. n /\ \A i \in 1 .. n : seqs[i] \in V
  OBVIOUS
<1>2. more \in Steps(V) /\ <<>> \in V
  <2>1. ASSUME NEW i \in Nat, NEW x \in V
        PROVE  (IF i < n THEN x \o seqs[i + 1] ELSE x) \in V
    <3>1. CASE i < n
      <4>1. i + 1 \in 1 .. n
        BY <1>1, <3>1
      <4>2. seqs[i + 1] \in V
        BY <1>1, <4>1
      <4> QED  BY <3>1, <4>2
    <3> QED  BY <3>1
  <2>2. <<>> \in V
    OBVIOUS
  <2> HIDE DEF V, n
  <2> QED  BY <2>1, <2>2 DEF Steps
<1> HIDE DEF V, more, n
<1>3. PICK f : Iteration(f, V, <<>>, more)
  BY <1>2, IterationExists
<1>4. f \in [Nat -> V] /\ f[0] = <<>> /\ \A i \in Nat : f[i + 1] = more[i][f[i]]
  BY <1>3 DEF Iteration
<1>5. ASSUME NEW i \in 1 .. n
      PROVE  i - 1 \in Nat /\ i \in Nat /\ f[i] = f[i - 1] \o seqs[i] /\ f[i - 1] \in V /\ f[i] \in V
  <2>1. i - 1 \in Nat /\ i \in Nat /\ (i - 1) + 1 = i /\ i - 1 < n
    BY <1>1
  <2>2. f[(i - 1) + 1] = more[i - 1][f[i - 1]] /\ f[i - 1] \in V /\ f[i] \in V
    BY <1>4, <2>1
  <2>3. more[i - 1][f[i - 1]] = f[i - 1] \o seqs[(i - 1) + 1]
    BY <2>1, <2>2 DEF more
  <2> QED  BY <2>1, <2>2, <2>3
<1>6. ASSUME n # 0 PROVE Parser!FlattenSeq(seqs) = f[n]
  <2> DEFINE h == [i \in 1 .. n |-> f[i]]
             Is(g) == g = [i \in 1 .. n |-> More(g, i)]
             g == CHOOSE g : Is(g)
  <2>1. Is(h)
    <3>1. ASSUME NEW i \in 1 .. n PROVE h[i] = More(h, i)
      <4>0. f[i] = f[i - 1] \o seqs[i]
        BY <1>5
      <4>1. CASE i = 1
        <5>1. f[i] = f[0] \o seqs[i]
          BY <4>0, <4>1
        <5>2. seqs[i] \in Seq(S)
          BY <1>1 DEF V
        <5>3. <<>> \o seqs[i] = seqs[i]
          BY <5>2
        <5> QED  BY <1>4, <4>1, <5>1, <5>3
      <4>2. CASE i # 1
        <5>1. i - 1 \in 1 .. n
          BY <1>1, <4>2
        <5> QED  BY <1>5, <4>2, <5>1
      <4> QED  BY <4>1, <4>2
    <3>2. h = [i \in 1 .. n |-> h[i]]
      OBVIOUS
    <3> HIDE DEF h, More
    <3> QED  BY <3>1, <3>2
  <2>2. Is(g)
    <3> HIDE DEF Is
    <3> QED  BY <2>1
  <2> HIDE DEF g
  <2>3. \A i \in 1 .. n : g[i] = More(g, i)
    <3> HIDE DEF More
    <3> QED  BY <2>2
  <2> DEFINE T == {i \in Nat : i \in 1 .. n => g[i] = f[i]}
  <2>4. 0 \in T
    BY <1>1
  <2>5. ASSUME NEW i \in Nat, i \in T PROVE i + 1 \in T
    <3> SUFFICES ASSUME i + 1 \in 1 .. n PROVE g[i + 1] = f[i + 1]
      OBVIOUS
    <3>1. CASE i = 0
      <4>1. 1 \in 1 .. n /\ 1 - 1 = 0 /\ i + 1 = 1
        BY <3>1
      <4>2. g[1] = seqs[1] /\ f[1] = f[1 - 1] \o seqs[1]
        BY <1>5, <2>3, <4>1
      <4>3. seqs[1] \in Seq(S)
        BY <1>1, <4>1 DEF V
      <4>4. <<>> \o seqs[1] = seqs[1]
        BY <4>3
      <4> QED  BY <1>4, <4>1, <4>2, <4>4
    <3>2. CASE i # 0
      <4>1. i \in 1 .. n /\ (i + 1) - 1 = i /\ i + 1 # 1
        BY <1>1, <3>2
      <4>2. g[i] = f[i]
        BY <2>5, <4>1
      <4>3. g[i + 1] = g[i] \o seqs[i + 1]
        BY <2>3, <4>1
      <4>4. f[i + 1] = f[i] \o seqs[i + 1]
        BY <1>5, <4>1
      <4> QED  BY <4>2, <4>3, <4>4
    <3> QED  BY <3>1, <3>2
  <2>6. Nat \subseteq T
    <3> HIDE DEF T
    <3> QED  BY <2>4, <2>5, Induction
  <2>7. g[n] = f[n]
    BY <1>1, <1>6, <2>6
  <2>8. Parser!FlattenSeq(seqs) = g[n]
    BY <1>6 DEF Parser!FlattenSeq, g, n
  <2> QED  BY <2>7, <2>8
<1>7. Parser!FlattenSeq(seqs) = f[n]
  <2>1. CASE n = 0
    <3>1. seqs = <<>>
      BY <2>1 DEF n
    <3> QED  BY <1>4, <2>1, <3>1 DEF Parser!FlattenSeq, n
  <2> QED  BY <1>6, <2>1
<1> DEFINE L(i) == Len(f[i])
<1>8. \A i \in Nat : L(i) \in Nat
  BY <1>4 DEF V
<1>9. ASSUME NEW i \in 1 .. n
      PROVE  /\ L(i) = L(i - 1) + Len(seqs[i]) /\ Len(seqs[i]) \in Nat
             /\ \A j \in 1 .. L(i - 1) : f[i][j] = f[i - 1][j]
             /\ \A j \in 1 .. Len(seqs[i]) : f[i][L(i - 1) + j] = seqs[i][j]
  <2>1. PICK a \in Seq(S), b \in Seq(S) : f[i - 1] = a /\ seqs[i] = b /\ f[i] = a \o b
    BY <1>1, <1>5 DEF V
  <2>2. /\ Len(a \o b) = Len(a) + Len(b) /\ Len(a) \in Nat /\ Len(b) \in Nat
        /\ \A j \in 1 .. Len(a) : (a \o b)[j] = a[j]
        /\ \A j \in 1 .. Len(b) : (a \o b)[Len(a) + j] = b[j]
    OBVIOUS
  <2> QED  BY <2>1, <2>2
<1>10. ASSUME NEW k \in Nat, k + 1 <= n
       PROVE  /\ L(k + 1) = L(k) + Len(seqs[k + 1]) /\ Len(seqs[k + 1]) \in Nat
              /\ \A j \in 1 .. L(k) : f[k + 1][j] = f[k][j]
              /\ \A j \in 1 .. Len(seqs[k + 1]) : f[k + 1][L(k) + j] = seqs[k + 1][j]
  <2>1. PICK i \in 1 .. n : i = k + 1 /\ i - 1 = k
    BY <1>1, <1>10
  <2> HIDE DEF L
  <2> QED  BY <1>9, <2>1
<1> DEFINE Lies(k, i) == \A j \in 1 .. Len(seqs[i]) : f[k][L(i - 1) + j] = seqs[i][j]
           T == {k \in Nat : k <= n => \A i \in 1 .. k : L(i) <= L(k) /\ L(i - 1) <= L(k) /\ Lies(k, i)}
<1>11. 0 \in T
  OBVIOUS
<1>12. ASSUME NEW k \in Nat, k \in T PROVE k + 1 \in T
  <2> SUFFICES ASSUME k + 1 <= n, NEW i \in 1 .. k + 1
               PROVE  L(i) <= L(k + 1) /\ L(i - 1) <= L(k + 1) /\ Lies(k + 1, i)
    OBVIOUS
  <2>1. k + 1 \in 1 .. n /\ (k + 1) - 1 = k /\ i \in 1 .. n /\ i - 1 \in Nat
    BY <1>1
  <2>2. /\ L(k + 1) = L(k) + Len(seqs[k + 1]) /\ Len(seqs[k + 1]) \in Nat
        /\ \A j \in 1 .. L(k) : f[k + 1][j] = f[k][j]
        /\ \A j \in 1 .. Len(seqs[k + 1]) : f[k + 1][L(k) + j] = seqs[k + 1][j]
    BY <1>10
  <2>3. L(k) \in Nat /\ L(i) \in Nat /\ L(i - 1) \in Nat /\ L(k + 1) \in Nat
    BY <1>8, <2>1
  <2>4. CASE i = k + 1
    <3>1. i - 1 = k
      BY <2>4
    <3> HIDE DEF L
    <3> QED  BY <2>2, <2>3, <2>4, <3>1
  <2>5. CASE i # k + 1
    <3>1. i \in 1 .. k
      BY <2>5
    <3>2. L(i) <= L(k) /\ L(i - 1) <= L(k) /\ Lies(k, i)
      BY <1>1, <1>12, <2>1, <3>1
    <3>3. L(i) = L(i - 1) + Len(seqs[i]) /\ Len(seqs[i]) \in Nat
      BY <1>9, <2>1
    <3>4. ASSUME NEW j \in 1 .. Len(seqs[i]) PROVE f[k + 1][L(i - 1) + j] = seqs[i][j]
      <4>1. L(i - 1) + j \in 1 .. L(k)
        <5> HIDE DEF L
        <5> QED  BY <2>3, <3>2, <3>3
      <4> QED  BY <2>2, <3>2, <4>1
    <3>5. L(i) <= L(k + 1) /\ L(i - 1) <= L(k + 1)
      <4> HIDE DEF L
      <4> QED  BY <2>2, <2>3, <3>2
    <3> QED  BY <3>4, <3>5
  <2> QED  BY <2>4, <2>5
<1>13. Nat \subseteq T
  <2> HIDE DEF T
  <2> QED  BY <1>11, <1>12, Induction
<1>14. \A i \in 1 .. n : L(i) <= L(n) /\ L(i - 1) <= L(n) /\ Lies(n, i)
  BY <1>1, <1>13
<1> DEFINE cut == [i \in 0 .. n |-> L(i)]
<1>15. cut \in [0 .. n -> 0 .. Len(f[n])] /\ cut[0] = 0 /\ cut[n] = Len(f[n])
  <2>1. ASSUME NEW i \in 0 .. n PROVE L(i) \in 0 .. Len(f[n])
    <3>1. CASE i = 0
      BY <1>1, <1>4, <1>8, <3>1
    <3>2. CASE i # 0
      BY <1>1, <1>8, <1>14, <3>2
    <3> QED  BY <3>1, <3>2
  <2>2. L(0) = 0 /\ 0 \in 0 .. n /\ n \in 0 .. n
    BY <1>1, <1>4
  <2> QED  BY <2>1, <2>2
<1>16. ASSUME NEW i \in 1 .. n
       PROVE  /\ cut[i] = cut[i - 1] + Len(seqs[i])
              /\ \A j \in 1 .. Len(seqs[i]) : f[n][cut[i - 1] + j] = seqs[i][j]
  <2>1. i \in 0 .. n /\ i - 1 \in 0 .. n
    BY <1>1
  <2>2. cut[i] = L(i) /\ cut[i - 1] = L(i - 1)
    BY <2>1
  <2> QED  BY <1>9, <1>14, <2>2
<1> HIDE DEF cut
<1>17. cut \in Cut(seqs, f[n])
  BY <1>15, <1>16 DEF Cut, n
<1>18. f[n] \in Seq(S)
  BY <1>1, <1>4 DEF V
<1> QED  BY <1>7, <1>17, <1>18

\* A text and what ends it lie in a sequence after some of its bytes.
Lies(bytes, pos, label, text, end) ==
    /\ pos + Len(text) < Len(bytes)
    /\ \A j \in 1 .. Len(text) : /\ bytes[pos + j].part = label
                                 /\ bytes[pos + j].char = text[j]
    /\ bytes[pos + Len(text) + 1].part = end

\* Where the headers of a message lie, and where the message ends.
Ends(msg, pos) == pos[Len(msg.headers) + 1] + Len(msg.body) + 2
LiesAt(msg, pos, bytes) ==
    /\ pos \in [1 .. Len(msg.headers) + 1 -> Nat]
    /\ pos[1] = Len(msg.start) + 1
    /\ Lies(bytes, 0, "start", msg.start, "startEnd")
    /\ \A i \in 1 .. Len(msg.headers) :
        /\ Lies(bytes, pos[i], "field", msg.headers[i].name, "fieldEnd")
        /\ Lies(bytes, pos[i] + Len(msg.headers[i].name) + 1, "value", msg.headers[i].value,
                "valueEnd")
        /\ pos[i + 1] = pos[i] + Len(msg.headers[i].name) + Len(msg.headers[i].value) + 2
    /\ bytes[pos[Len(msg.headers) + 1] + 1].part = "headersEnd"
    /\ Lies(bytes, pos[Len(msg.headers) + 1] + 1, "body", msg.body, "messageEnd")

Parts == {"start", "startEnd", "field", "fieldEnd", "value", "valueEnd", "headersEnd", "body",
          "messageEnd"}
AllBytes == [part : Parts, char : Chars \cup {""}]

\* Each byte of a text carries its part.
LEMMA Spelled ==
    ASSUME NEW label \in Parts, NEW text \in Parser!Texts
    PROVE  /\ Parser!Spell(label, text) \in Seq(AllBytes) /\ Parser!End(label) \in Seq(AllBytes)
           /\ Len(text) \in Nat /\ Len(Parser!Spell(label, text)) = Len(text)
           /\ \A j \in 1 .. Len(text) : /\ Parser!Spell(label, text)[j].part = label
                                        /\ Parser!Spell(label, text)[j].char = text[j]
           /\ Len(Parser!End(label)) = 1 /\ Parser!End(label)[1].part = label
<1> DEFINE s == Parser!Spell(label, text)
           e == Parser!End(label)
<1>1. text \in Seq(Chars) /\ Len(text) \in Nat /\ DOMAIN text = 1 .. Len(text)
  BY DEF Parser!Texts
<1>2. /\ s \in [1 .. Len(text) -> AllBytes]
      /\ \A j \in 1 .. Len(text) : s[j].part = label /\ s[j].char = text[j]
  <2>1. s = [i \in 1 .. Len(text) |-> [part |-> label, char |-> text[i]]]
    BY <1>1 DEF Parser!Spell
  <2>2. ASSUME NEW i \in 1 .. Len(text) PROVE [part |-> label, char |-> text[i]] \in AllBytes
    <3>1. text[i] \in Chars
      BY <1>1
    <3> QED  BY <3>1 DEF AllBytes
  <2> HIDE DEF s
  <2> QED  BY <2>1, <2>2
<1>3. e \in Seq(AllBytes) /\ Len(e) = 1 /\ e[1].part = label
  <2> DEFINE b == [part |-> label, char |-> ""]
  <2>1. b \in AllBytes /\ b.part = label
    BY DEF AllBytes
  <2>2. e = <<b>>
    BY DEF Parser!End
  <2> HIDE DEF b, e
  <2> QED  BY <2>1, <2>2
<1> HIDE DEF s, e
<1>4. s \in Seq(AllBytes) /\ Len(s) = Len(text)
  BY <1>1, <1>2
<1> QED  BY <1>1, <1>2, <1>3, <1>4 DEF s, e

\* A text with what ends it, and after other bytes.
Ended(label, text, end) == Parser!Spell(label, text) \o Parser!End(end)
Then(w, label, text, end) == w \o Parser!Spell(label, text) \o Parser!End(end)

LEMMA AddText ==
    ASSUME NEW w \in Seq(AllBytes), NEW label \in Parts, NEW text \in Parser!Texts,
           NEW end \in Parts
    PROVE  /\ Then(w, label, text, end) \in Seq(AllBytes) /\ Len(text) \in Nat
           /\ Len(Then(w, label, text, end)) = Len(w) + Len(text) + 1
           /\ \A j \in 1 .. Len(w) : Then(w, label, text, end)[j] = w[j]
           /\ Lies(Then(w, label, text, end), Len(w), label, text, end)
<1> DEFINE v == Then(w, label, text, end)
<1>1. PICK s \in Seq(AllBytes) : s = Parser!Spell(label, text)
  BY Spelled
<1>2. PICK e \in Seq(AllBytes) : e = Parser!End(end)
  BY Spelled
<1>3. /\ Len(text) \in Nat /\ Len(s) = Len(text) /\ Len(e) = 1 /\ e[1].part = end
      /\ \A j \in 1 .. Len(text) : s[j].part = label /\ s[j].char = text[j]
  BY <1>1, <1>2, Spelled
<1>4. v = (w \o s) \o e
  BY <1>1, <1>2 DEF Then
<1> HIDE DEF v
<1>5. PICK u \in Seq(AllBytes) : u = w \o s
  <2>1. w \o s \in Seq(AllBytes)
    OBVIOUS
  <2> QED  BY <2>1
<1>6. /\ Len(u) = Len(w) + Len(s) /\ Len(w) \in Nat
      /\ \A j \in 1 .. Len(w) : u[j] = w[j]
      /\ \A j \in 1 .. Len(s) : u[Len(w) + j] = s[j]
  BY <1>5
<1>7. v \in Seq(AllBytes) /\ v = u \o e
  BY <1>4, <1>5
<1>8. /\ Len(v) = Len(u) + Len(e)
      /\ \A j \in 1 .. Len(u) : v[j] = u[j]
      /\ \A j \in 1 .. Len(e) : v[Len(u) + j] = e[j]
  BY <1>7
<1>9. Len(v) = Len(w) + Len(text) + 1
  BY <1>3, <1>6, <1>8
<1>10. \A j \in 1 .. Len(w) : v[j] = w[j]
  BY <1>3, <1>6, <1>8
<1>11. ASSUME NEW j \in 1 .. Len(text)
       PROVE  v[Len(w) + j].part = label /\ v[Len(w) + j].char = text[j]
  <2>1. Len(w) + j \in 1 .. Len(u)
    BY <1>3, <1>6
  <2>2. v[Len(w) + j] = s[j]
    BY <1>3, <1>6, <1>8, <2>1
  <2> QED  BY <1>3, <2>2
<1>12. v[Len(w) + Len(text) + 1].part = end
  <2>1. v[Len(u) + 1] = e[1] /\ Len(u) + 1 = Len(w) + Len(text) + 1
    BY <1>3, <1>6, <1>8
  <2> QED  BY <1>3, <2>1
<1>13. Lies(v, Len(w), label, text, end)
  BY <1>3, <1>6, <1>9, <1>11, <1>12 DEF Lies
<1> QED  BY <1>3, <1>7, <1>9, <1>10, <1>13 DEF v

\* The same of a text that nothing comes before.
LEMMA FirstText ==
    ASSUME NEW label \in Parts, NEW text \in Parser!Texts, NEW end \in Parts,
           NEW v, v = Ended(label, text, end)
    PROVE  /\ v \in Seq(AllBytes) /\ Len(text) \in Nat /\ Len(v) = Len(text) + 1
           /\ Lies(v, 0, label, text, end)
<1>1. PICK s \in Seq(AllBytes) : s = Parser!Spell(label, text)
  BY Spelled
<1>2. PICK e \in Seq(AllBytes) : e = Parser!End(end)
  BY Spelled
<1>3. /\ Len(text) \in Nat /\ Len(s) = Len(text) /\ Len(e) = 1 /\ e[1].part = end
      /\ \A j \in 1 .. Len(text) : s[j].part = label /\ s[j].char = text[j]
  BY <1>1, <1>2, Spelled
<1>4. v \in Seq(AllBytes) /\ v = s \o e
  BY <1>1, <1>2 DEF Ended
<1>5. /\ Len(v) = Len(s) + Len(e)
      /\ \A j \in 1 .. Len(s) : v[j] = s[j]
      /\ \A j \in 1 .. Len(e) : v[Len(s) + j] = e[j]
  BY <1>4
<1>6. Len(v) = Len(text) + 1
  BY <1>3, <1>5
<1>7. ASSUME NEW j \in 1 .. Len(text)
      PROVE  v[0 + j].part = label /\ v[0 + j].char = text[j]
  <2>1. v[0 + j] = s[j]
    BY <1>3, <1>5
  <2> QED  BY <1>3, <2>1
<1>8. v[0 + Len(text) + 1].part = end
  <2>1. v[Len(s) + 1] = e[1] /\ Len(s) + 1 = 0 + Len(text) + 1
    BY <1>3, <1>5
  <2> QED  BY <1>3, <2>1
<1>9. 0 + Len(text) < Len(v)
  BY <1>3, <1>6
<1>10. Lies(v, 0, label, text, end)
  BY <1>7, <1>8, <1>9 DEF Lies
<1> QED  BY <1>3, <1>4, <1>6, <1>10

\* What lies in a sequence lies, further on, in one that contains it.
LEMMA LiesWithin ==
    ASSUME NEW bytes, NEW more, NEW pos \in Nat, NEW by \in Nat, NEW label, NEW end,
           NEW text \in Parser!Texts, Len(bytes) \in Nat, Len(more) \in Nat,
           by + Len(bytes) <= Len(more),
           \A j \in 1 .. Len(bytes) : more[by + j] = bytes[j],
           Lies(bytes, pos, label, text, end)
    PROVE  Lies(more, by + pos, label, text, end)
<1>1. Len(text) \in Nat /\ pos + Len(text) < Len(bytes)
  BY DEF Parser!Texts, Lies
<1>2. (by + pos) + Len(text) < Len(more)
  BY <1>1
<1>3. ASSUME NEW j \in 1 .. Len(text)
      PROVE  more[(by + pos) + j].part = label /\ more[(by + pos) + j].char = text[j]
  <2>1. pos + j \in 1 .. Len(bytes) /\ (by + pos) + j = by + (pos + j)
    BY <1>1
  <2>2. more[(by + pos) + j] = bytes[pos + j]
    BY <2>1
  <2>3. bytes[pos + j].part = label /\ bytes[pos + j].char = text[j]
    BY DEF Lies
  <2> QED  BY <2>2, <2>3
<1>4. more[(by + pos) + Len(text) + 1].part = end
  <2>1. pos + Len(text) + 1 \in 1 .. Len(bytes)
        /\ (by + pos) + Len(text) + 1 = by + (pos + Len(text) + 1)
    BY <1>1
  <2>2. more[by + (pos + Len(text) + 1)] = bytes[pos + Len(text) + 1]
    BY <2>1
  <2> QED  BY <2>1, <2>2 DEF Lies
<1> QED  BY <1>2, <1>3, <1>4 DEF Lies

\* The bytes of one header.
LEMMA HeaderIs ==
    ASSUME NEW name \in Parser!Texts, NEW value \in Parser!Texts, NEW v,
           v = Then(Ended("field", name, "fieldEnd"), "value", value, "valueEnd")
    PROVE  /\ v \in Seq(AllBytes) /\ Len(name) \in Nat /\ Len(value) \in Nat
           /\ Len(v) = Len(name) + Len(value) + 2
           /\ Lies(v, 0, "field", name, "fieldEnd")
           /\ Lies(v, Len(name) + 1, "value", value, "valueEnd")
<1> DEFINE w == Ended("field", name, "fieldEnd")
<1>0. "field" \in Parts /\ "fieldEnd" \in Parts /\ "value" \in Parts /\ "valueEnd" \in Parts
  BY DEF Parts
<1>1. /\ w \in Seq(AllBytes) /\ Len(name) \in Nat /\ Len(w) = Len(name) + 1
      /\ Lies(w, 0, "field", name, "fieldEnd")
  BY <1>0, FirstText
<1>2. v = Then(w, "value", value, "valueEnd")
  OBVIOUS
<1> HIDE DEF w
<1>3. /\ v \in Seq(AllBytes) /\ Len(value) \in Nat /\ Len(v) = Len(w) + Len(value) + 1
      /\ \A j \in 1 .. Len(w) : v[j] = w[j]
      /\ Lies(v, Len(w), "value", value, "valueEnd")
  <2> DEFINE u == Then(w, "value", value, "valueEnd")
  <2>1. w \in Seq(AllBytes) /\ "value" \in Parts /\ "valueEnd" \in Parts
    BY <1>0, <1>1
  <2>2. /\ u \in Seq(AllBytes) /\ Len(value) \in Nat /\ Len(u) = Len(w) + Len(value) + 1
        /\ \A j \in 1 .. Len(w) : u[j] = w[j]
        /\ Lies(u, Len(w), "value", value, "valueEnd")
    BY <2>1, AddText
  <2> HIDE DEF u
  <2>3. v = u
    BY <1>2 DEF u
  <2> QED  BY <2>2, <2>3, Zenon
<1>4. Lies(v, 0 + 0, "field", name, "fieldEnd")
  <2>1. \A j \in 1 .. Len(w) : v[0 + j] = w[j]
    BY <1>3
  <2>2. Len(w) \in Nat /\ Len(v) \in Nat /\ 0 + Len(w) <= Len(v)
    BY <1>1, <1>3
  <2> QED  BY <1>1, <2>1, <2>2, LiesWithin
<1> QED  BY <1>1, <1>3, <1>4

HeaderBytes(msg) ==
    [i \in DOMAIN msg.headers |->
        Then(Ended("field", msg.headers[i].name, "fieldEnd"),
             "value", msg.headers[i].value, "valueEnd")]

\* Where the headers lie when they follow one another.
LEMMA HeadersLie ==
    ASSUME NEW msg \in Parser!Messages, NEW n \in Nat, n = Len(msg.headers)
    PROVE  \E flat \in Seq(AllBytes), cut \in [0 .. n -> Nat] :
            /\ flat = Parser!FlattenSeq(HeaderBytes(msg))
            /\ cut[0] = 0 /\ cut[n] = Len(flat)
            /\ \A i \in 1 .. n :
                /\ Lies(flat, cut[i - 1], "field", msg.headers[i].name, "fieldEnd")
                /\ Lies(flat, cut[i - 1] + Len(msg.headers[i].name) + 1, "value",
                        msg.headers[i].value, "valueEnd")
                /\ cut[i] = cut[i - 1] + Len(msg.headers[i].name) + Len(msg.headers[i].value) + 2
<1> DEFINE hs == HeaderBytes(msg)
           hb(i) == Then(Ended("field", msg.headers[i].name, "fieldEnd"),
                         "value", msg.headers[i].value, "valueEnd")
           H == [name : Parser!Texts \ {<<>>}, value : Parser!Texts]
<1>1. /\ DOMAIN msg.headers = 1 .. n
      /\ \A i \in 1 .. n : msg.headers[i].name \in Parser!Texts /\ msg.headers[i].value \in Parser!Texts
  <2>1. msg.headers \in Seq(H)
    BY DEF Parser!Messages
  <2>2. PICK hd \in Seq(H) : hd = msg.headers
    BY <2>1
  <2>3. \A h \in H : h.name \in Parser!Texts /\ h.value \in Parser!Texts
    OBVIOUS
  <2> HIDE DEF H
  <2>4. Len(hd) = n /\ DOMAIN hd = 1 .. Len(hd) /\ \A i \in 1 .. Len(hd) : hd[i] \in H
    BY <2>2
  <2> QED  BY <2>2, <2>3, <2>4
<1>2. ASSUME NEW i \in 1 .. n
      PROVE  /\ hb(i) \in Seq(AllBytes)
             /\ Len(msg.headers[i].name) \in Nat /\ Len(msg.headers[i].value) \in Nat
             /\ Len(hb(i)) = Len(msg.headers[i].name) + Len(msg.headers[i].value) + 2
             /\ Lies(hb(i), 0, "field", msg.headers[i].name, "fieldEnd")
             /\ Lies(hb(i), Len(msg.headers[i].name) + 1, "value", msg.headers[i].value, "valueEnd")
  BY <1>1, HeaderIs
<1> HIDE DEF hb, hs
<1>3. hs \in Seq(Seq(AllBytes)) /\ Len(hs) = n /\ \A i \in 1 .. n : hs[i] = hb(i)
  <2>1. hs = [i \in 1 .. n |-> hb(i)]
    BY <1>1 DEF hb, hs, HeaderBytes
  <2>2. hs \in [1 .. n -> Seq(AllBytes)]
    BY <1>2, <2>1
  <2> QED  BY <2>1, <2>2
<1>4. PICK flat \in Seq(AllBytes) : flat = Parser!FlattenSeq(hs) /\ Cut(hs, flat) # {}
  BY <1>3, Flattened
<1>5. PICK cut : cut \in Cut(hs, flat)
  BY <1>4
<1>6. PICK l \in Nat : l = Len(flat)
  <2>1. Len(flat) \in Nat
    BY <1>4
  <2> QED  BY <2>1
<1>7. /\ cut \in [0 .. n -> 0 .. l] /\ cut[0] = 0 /\ cut[n] = l
      /\ \A i \in 1 .. n : /\ cut[i] = cut[i - 1] + Len(hs[i])
                           /\ \A j \in 1 .. Len(hs[i]) : flat[cut[i - 1] + j] = hs[i][j]
  <2>1. Len(hs) = n
    BY <1>3
  <2> QED  BY <1>5, <1>6, <2>1 DEF Cut
<1>8. ASSUME NEW i \in 1 .. n
      PROVE  /\ Lies(flat, cut[i - 1], "field", msg.headers[i].name, "fieldEnd")
             /\ Lies(flat, cut[i - 1] + Len(msg.headers[i].name) + 1, "value",
                     msg.headers[i].value, "valueEnd")
             /\ cut[i] = cut[i - 1] + Len(msg.headers[i].name) + Len(msg.headers[i].value) + 2
  <2>1. PICK b \in Seq(AllBytes) : b = hs[i] /\ b = hb(i)
    BY <1>2, <1>3
  <2>2. PICK name \in Parser!Texts, value \in Parser!Texts :
            name = msg.headers[i].name /\ value = msg.headers[i].value
    BY <1>1
  <2>3. /\ Len(b) = Len(name) + Len(value) + 2
        /\ Lies(b, 0, "field", name, "fieldEnd")
        /\ Lies(b, Len(name) + 1, "value", value, "valueEnd")
        /\ Len(name) \in Nat /\ Len(value) \in Nat
    BY <1>2, <2>1, <2>2
  <2>4. PICK q \in Nat : q = cut[i - 1]
    <3>1. i - 1 \in 0 .. n
      OBVIOUS
    <3> QED  BY <1>7, <3>1
  <2>5. cut[i] = q + Len(b) /\ \A j \in 1 .. Len(b) : flat[q + j] = b[j]
    BY <1>7, <2>1, <2>4
  <2>6. cut[i] \in 0 .. l
    <3>1. i \in 0 .. n
      OBVIOUS
    <3> QED  BY <1>7, <3>1
  <2>7. Len(flat) \in Nat /\ Len(b) \in Nat /\ q + Len(b) <= Len(flat)
    BY <1>6, <2>3, <2>5, <2>6
  <2>8. Lies(flat, q + 0, "field", name, "fieldEnd")
    BY <2>2, <2>3, <2>4, <2>5, <2>7, LiesWithin
  <2>9. Lies(flat, q + (Len(name) + 1), "value", value, "valueEnd")
    <3>1. PICK k \in Nat : k = Len(name) + 1
      BY <2>3
    <3>2. Lies(b, k, "value", value, "valueEnd")
      BY <2>3, <3>1
    <3>3. Lies(flat, q + k, "value", value, "valueEnd")
      BY <2>2, <2>4, <2>5, <2>7, <3>1, <3>2, LiesWithin
    <3> QED  BY <3>1, <3>3
  <2>10. q + 0 = q /\ q + (Len(name) + 1) = q + Len(name) + 1
         /\ cut[i] = q + Len(name) + Len(value) + 2
    BY <2>3, <2>4, <2>5
  <2> QED  BY <2>2, <2>4, <2>8, <2>9, <2>10
<1>9. cut \in [0 .. n -> Nat]
  BY <1>7
<1>10. flat = Parser!FlattenSeq(HeaderBytes(msg)) /\ cut[0] = 0 /\ cut[n] = Len(flat)
  BY <1>4, <1>6, <1>7 DEF hs
<1>11. \A i \in 1 .. n :
        /\ Lies(flat, cut[i - 1], "field", msg.headers[i].name, "fieldEnd")
        /\ Lies(flat, cut[i - 1] + Len(msg.headers[i].name) + 1, "value",
                msg.headers[i].value, "valueEnd")
        /\ cut[i] = cut[i - 1] + Len(msg.headers[i].name) + Len(msg.headers[i].value) + 2
  BY <1>8
<1> WITNESS flat \in Seq(AllBytes), cut \in [0 .. n -> Nat]
<1> QED  BY <1>10, <1>11

\* Where the parts of a message lie in its bytes.
LEMMA WrittenLies ==
    ASSUME NEW msg \in Parser!Messages
    PROVE  /\ Parser!Written(msg) \in Seq(AllBytes)
           /\ \E pos : /\ LiesAt(msg, pos, Parser!Written(msg))
                       /\ Len(Parser!Written(msg)) = Ends(msg, pos)
<1>1. /\ msg.start \in Parser!Texts /\ msg.body \in Parser!Texts
      /\ \E n \in Nat : n = Len(msg.headers)
  <2> DEFINE H == [name : Parser!Texts \ {<<>>}, value : Parser!Texts]
  <2>1. msg.headers \in Seq(H) /\ msg.start \in Parser!Texts /\ msg.body \in Parser!Texts
    BY DEF Parser!Messages
  <2> HIDE DEF H
  <2>2. Len(msg.headers) \in Nat
    BY <2>1
  <2> QED  BY <2>1, <2>2
<1>2. PICK n \in Nat : n = Len(msg.headers)
  BY <1>1
<1>3. PICK flat \in Seq(AllBytes), cut \in [0 .. n -> Nat] :
        /\ flat = Parser!FlattenSeq(HeaderBytes(msg))
        /\ cut[0] = 0 /\ cut[n] = Len(flat)
        /\ \A i \in 1 .. n :
            /\ Lies(flat, cut[i - 1], "field", msg.headers[i].name, "fieldEnd")
            /\ Lies(flat, cut[i - 1] + Len(msg.headers[i].name) + 1, "value",
                    msg.headers[i].value, "valueEnd")
            /\ cut[i] = cut[i - 1] + Len(msg.headers[i].name) + Len(msg.headers[i].value) + 2
  BY <1>2, HeadersLie
<1>4. /\ "start" \in Parts /\ "startEnd" \in Parts /\ "headersEnd" \in Parts
      /\ "body" \in Parts /\ "messageEnd" \in Parts
  BY DEF Parts
<1>5. PICK w1 : w1 = Ended("start", msg.start, "startEnd")
  OBVIOUS
<1>6. /\ w1 \in Seq(AllBytes) /\ Len(msg.start) \in Nat /\ Len(w1) = Len(msg.start) + 1
      /\ Lies(w1, 0, "start", msg.start, "startEnd")
  BY <1>1, <1>4, <1>5, FirstText
<1>7. w1 \in Seq(AllBytes) /\ flat \in Seq(AllBytes)
  BY <1>3, <1>6
<1>8. PICK w2 : w2 = w1 \o flat
  OBVIOUS
<1>9. PICK e \in Seq(AllBytes) : e = Parser!End("headersEnd") /\ Len(e) = 1 /\ e[1].part = "headersEnd"
  BY <1>1, <1>4, Spelled
<1>10. PICK w3 : w3 = w2 \o e
  OBVIOUS
<1>11. PICK w : w = Then(w3, "body", msg.body, "messageEnd")
  OBVIOUS
<1>12. PICK s \in Nat, l \in Nat, b \in Nat :
        s = Len(msg.start) + 1 /\ s = Len(w1) /\ l = Len(flat) /\ b = Len(msg.body)
  <2>1. Len(msg.start) + 1 \in Nat
    BY <1>6
  <2>2. Len(flat) \in Nat
    BY <1>7
  <2>3. Len(msg.body) \in Nat
    BY <1>1 DEF Parser!Texts
  <2> QED  BY <1>6, <2>1, <2>2, <2>3
<1>13. /\ w2 \in Seq(AllBytes) /\ Len(w2) = s + l
       /\ \A j \in 1 .. s : w2[j] = w1[j]
       /\ \A j \in 1 .. l : w2[s + j] = flat[j]
  <2>1. /\ w1 \o flat \in Seq(AllBytes) /\ Len(w1 \o flat) = Len(w1) + Len(flat)
        /\ \A j \in 1 .. Len(w1) : (w1 \o flat)[j] = w1[j]
        /\ \A j \in 1 .. Len(flat) : (w1 \o flat)[Len(w1) + j] = flat[j]
    BY <1>7
  <2>2. s = Len(w1) /\ l = Len(flat)
    BY <1>12
  <2> QED  BY <1>8, <2>1, <2>2, Zenon
<1>14. /\ w3 \in Seq(AllBytes) /\ Len(w3) = (s + l) + 1
       /\ \A j \in 1 .. s + l : w3[j] = w2[j]
       /\ w3[(s + l) + 1] = e[1]
  <2>1. w2 \in Seq(AllBytes) /\ e \in Seq(AllBytes)
    BY <1>13
  <2>2. w2 \o e \in Seq(AllBytes) /\ Len(w2 \o e) = Len(w2) + Len(e)
    BY <2>1
  <2>3. \A j \in 1 .. Len(w2) : (w2 \o e)[j] = w2[j]
    BY <2>1
  <2>4. \A j \in 1 .. Len(e) : (w2 \o e)[Len(w2) + j] = e[j]
    BY <2>1
  <2>5. (w2 \o e)[Len(w2) + 1] = e[1]
    BY <1>9, <2>4
  <2>6. s + l = Len(w2)
    BY <1>13
  <2> QED  BY <1>9, <1>10, <2>2, <2>3, <2>5, <2>6, Zenon
<1>15. /\ w \in Seq(AllBytes) /\ Len(w) = Len(w3) + Len(msg.body) + 1
       /\ \A j \in 1 .. Len(w3) : w[j] = w3[j]
       /\ Lies(w, Len(w3), "body", msg.body, "messageEnd")
  <2>1. w3 \in Seq(AllBytes) /\ "body" \in Parts /\ "messageEnd" \in Parts
    BY <1>4, <1>14
  <2>2. PICK text \in Parser!Texts : text = msg.body
    BY <1>1
  <2>3. w = Then(w3, "body", text, "messageEnd")
    BY <1>11, <2>2
  <2>4. /\ w \in Seq(AllBytes) /\ Len(w) = Len(w3) + Len(text) + 1
        /\ \A j \in 1 .. Len(w3) : w[j] = w3[j]
        /\ Lies(w, Len(w3), "body", text, "messageEnd")
    BY <2>1, <2>3, AddText
  <2> QED  BY <2>2, <2>4
<1>15a. Parser!Written(msg) = w
  BY <1>3, <1>5, <1>8, <1>9, <1>10, <1>11, Zenon DEF Parser!Written, HeaderBytes, Ended, Then
<1>16. Len(w) = s + l + b + 2
  <2>1. ((s + l) + 1) + b + 1 = s + l + b + 2
    OBVIOUS
  <2> QED  BY <1>12, <1>14, <1>15, <2>1, Zenon
<1>17. \A j \in 1 .. s : w[j] = w1[j]
  <2>1. \A j \in 1 .. s : j \in 1 .. s + l /\ j \in 1 .. (s + l) + 1
    OBVIOUS
  <2> QED  BY <1>13, <1>14, <1>15, <2>1
<1>18. \A j \in 1 .. l : w[s + j] = flat[j]
  <2>1. \A j \in 1 .. l : s + j \in 1 .. s + l /\ s + j \in 1 .. (s + l) + 1
    OBVIOUS
  <2> QED  BY <1>13, <1>14, <1>15, <2>1
<1>19. w[(s + l) + 1].part = "headersEnd"
  <2>1. (s + l) + 1 \in 1 .. (s + l) + 1
    OBVIOUS
  <2> QED  BY <1>9, <1>14, <1>15, <2>1
<1> DEFINE pos == [i \in 1 .. n + 1 |-> s + cut[i - 1]]
<1>20. ASSUME NEW i \in 1 .. n + 1
       PROVE  i - 1 \in 0 .. n /\ cut[i - 1] \in Nat /\ pos[i] = s + cut[i - 1] /\ pos[i] \in Nat
  <2>1. i - 1 \in 0 .. n
    OBVIOUS
  <2>2. cut[i - 1] \in Nat
    BY <1>3, <2>1
  <2> QED  BY <2>1, <2>2
<1>21. pos \in [1 .. n + 1 -> Nat]
  BY <1>20
<1> HIDE DEF pos
<1>22. pos[1] = s /\ pos[n + 1] = s + l
  <2>1. 1 \in 1 .. n + 1 /\ 1 - 1 = 0 /\ n + 1 \in 1 .. n + 1 /\ (n + 1) - 1 = n
    OBVIOUS
  <2>2. pos[1] = s + cut[0] /\ pos[n + 1] = s + cut[n]
    BY <1>20, <2>1
  <2>3. cut[0] = 0 /\ cut[n] = l
    BY <1>3, <1>12
  <2> QED  BY <2>2, <2>3
<1>23. Lies(w, 0, "start", msg.start, "startEnd")
  <2>1. \A j \in 1 .. Len(w1) : w[0 + j] = w1[j]
    BY <1>12, <1>17
  <2>2. Len(w) \in Nat /\ Len(w1) \in Nat /\ 0 + Len(w1) <= Len(w)
    <3>1. s + l + b + 2 \in Nat /\ 0 + s <= s + l + b + 2
      OBVIOUS
    <3> QED  BY <1>12, <1>16, <3>1, Zenon
  <2>3. Lies(w, 0 + 0, "start", msg.start, "startEnd")
    BY <1>1, <1>6, <2>1, <2>2, LiesWithin
  <2> QED  BY <2>3
<1>24. \A i \in 1 .. n : msg.headers[i].name \in Parser!Texts /\ msg.headers[i].value \in Parser!Texts
  <2> DEFINE H == [name : Parser!Texts \ {<<>>}, value : Parser!Texts]
  <2>1. msg.headers \in Seq(H)
    BY DEF Parser!Messages
  <2>2. \A h \in H : h.name \in Parser!Texts /\ h.value \in Parser!Texts
    OBVIOUS
  <2> HIDE DEF H
  <2>3. \A i \in 1 .. n : msg.headers[i] \in H
    BY <1>2, <2>1
  <2> QED  BY <2>2, <2>3
<1>25. ASSUME NEW i \in 1 .. n
       PROVE  /\ Lies(w, pos[i], "field", msg.headers[i].name, "fieldEnd")
              /\ Lies(w, pos[i] + Len(msg.headers[i].name) + 1, "value", msg.headers[i].value, "valueEnd")
              /\ pos[i + 1] = pos[i] + Len(msg.headers[i].name) + Len(msg.headers[i].value) + 2
  <2>1. i \in 1 .. n + 1 /\ i + 1 \in 1 .. n + 1 /\ (i + 1) - 1 = i
    OBVIOUS
  <2>2. PICK q \in Nat : q = cut[i - 1]
    BY <1>20, <2>1
  <2>3. PICK name \in Parser!Texts, value \in Parser!Texts :
            name = msg.headers[i].name /\ value = msg.headers[i].value
    BY <1>24
  <2>4. PICK x \in Nat, y \in Nat : x = Len(name) /\ y = Len(value)
    BY DEF Parser!Texts
  <2>5. /\ Lies(flat, q, "field", name, "fieldEnd")
        /\ Lies(flat, q + x + 1, "value", value, "valueEnd")
        /\ cut[i] = q + x + y + 2
    BY <1>3, <2>2, <2>3, <2>4
  <2>6. pos[i] = s + q /\ pos[i + 1] = s + (q + x + y + 2)
    BY <1>20, <2>1, <2>2, <2>5
  <2>7. Len(w) \in Nat /\ Len(flat) \in Nat /\ s + Len(flat) <= Len(w)
        /\ \A j \in 1 .. Len(flat) : w[s + j] = flat[j]
    <3>1. s + l + b + 2 \in Nat /\ s + l <= s + l + b + 2
      OBVIOUS
    <3> QED  BY <1>12, <1>16, <1>18, <3>1, Zenon
  <2>8. Lies(w, s + q, "field", name, "fieldEnd")
    BY <2>2, <2>3, <2>5, <2>7, LiesWithin
  <2>9. PICK r \in Nat : r = q + x + 1
    OBVIOUS
  <2>10. Lies(w, s + r, "value", value, "valueEnd")
    BY <2>3, <2>5, <2>7, <2>9, LiesWithin
  <2>11. s + r = (s + q) + x + 1 /\ s + (q + x + y + 2) = (s + q) + x + y + 2
    BY <2>9
  <2> QED  BY <2>3, <2>4, <2>6, <2>8, <2>10, <2>11
<1>26. /\ pos[n + 1] + 1 = (s + l) + 1 /\ Len(w3) = (s + l) + 1
       /\ Ends(msg, pos) = s + l + b + 2
  BY <1>2, <1>12, <1>14, <1>22 DEF Ends
<1>27. Lies(w, pos[n + 1] + 1, "body", msg.body, "messageEnd") /\ w[pos[n + 1] + 1].part = "headersEnd"
  BY <1>15, <1>19, <1>26
<1>28. LiesAt(msg, pos, w)
  BY <1>2, <1>12, <1>21, <1>22, <1>23, <1>25, <1>27 DEF LiesAt
<1> QED  BY <1>15, <1>15a, <1>16, <1>26, <1>28

\* The names and values of a message.
LEMMA MessageTexts ==
    ASSUME NEW msg \in Parser!Messages
    PROVE  /\ msg.start \in Parser!Texts /\ msg.start # <<>> /\ msg.body \in Parser!Texts
           /\ Len(msg.headers) \in Nat /\ DOMAIN msg.headers = 1 .. Len(msg.headers)
           /\ \A i \in 1 .. Len(msg.headers) :
                /\ msg.headers[i].name \in Parser!Texts /\ msg.headers[i].name # <<>>
                /\ msg.headers[i].value \in Parser!Texts
<1> DEFINE H == [name : Parser!Texts \ {<<>>}, value : Parser!Texts]
<1>1. /\ msg.headers \in Seq(H) /\ msg.start \in Parser!Texts /\ msg.start # <<>>
      /\ msg.body \in Parser!Texts
  BY DEF Parser!Messages
<1>2. PICK hd \in Seq(H) : hd = msg.headers
  BY <1>1
<1>3. \A h \in H : h.name \in Parser!Texts /\ h.name # <<>> /\ h.value \in Parser!Texts
  OBVIOUS
<1> HIDE DEF H
<1>4. Len(hd) \in Nat /\ DOMAIN hd = 1 .. Len(hd) /\ \A i \in 1 .. Len(hd) : hd[i] \in H
  OBVIOUS
<1> QED  BY <1>1, <1>2, <1>3, <1>4

\* The first message lies in a stream as it does by itself.
LEMMA LiesAtWithin ==
    ASSUME NEW msg \in Parser!Messages, NEW pos, NEW w, NEW bytes,
           LiesAt(msg, pos, w), Len(w) = Ends(msg, pos), Len(bytes) \in Nat,
           Len(w) <= Len(bytes), \A j \in 1 .. Len(w) : bytes[j] = w[j]
    PROVE  LiesAt(msg, pos, bytes) /\ Len(w) \in Nat
<1>1. PICK n \in Nat : n = Len(msg.headers)
  BY MessageTexts
<1>2. /\ msg.start \in Parser!Texts /\ msg.body \in Parser!Texts
      /\ \A i \in 1 .. n : /\ msg.headers[i].name \in Parser!Texts
                           /\ msg.headers[i].value \in Parser!Texts
  BY <1>1, MessageTexts
<1>3. /\ pos \in [1 .. n + 1 -> Nat] /\ pos[1] = Len(msg.start) + 1
      /\ Lies(w, 0, "start", msg.start, "startEnd")
      /\ \A i \in 1 .. n :
            /\ Lies(w, pos[i], "field", msg.headers[i].name, "fieldEnd")
            /\ Lies(w, pos[i] + Len(msg.headers[i].name) + 1, "value",
                    msg.headers[i].value, "valueEnd")
            /\ pos[i + 1] = pos[i] + Len(msg.headers[i].name) + Len(msg.headers[i].value) + 2
      /\ w[pos[n + 1] + 1].part = "headersEnd"
      /\ Lies(w, pos[n + 1] + 1, "body", msg.body, "messageEnd")
  BY <1>1 DEF LiesAt
<1>4. PICK p \in Nat, b \in Nat : p = pos[n + 1] /\ b = Len(msg.body)
  <2>1. n + 1 \in 1 .. n + 1
    OBVIOUS
  <2>2. pos[n + 1] \in Nat
    BY <1>3, <2>1
  <2>3. Len(msg.body) \in Nat
    BY <1>2 DEF Parser!Texts
  <2> QED  BY <2>2, <2>3
<1>5. Len(w) = p + b + 2
  BY <1>1, <1>4 DEF Ends
<1>6. PICK lw \in Nat : lw = Len(w) /\ lw = p + b + 2
  BY <1>5
<1>7. \A j \in 1 .. lw : bytes[0 + j] = w[j]
  BY <1>6
<1>8. lw \in Nat /\ Len(w) \in Nat /\ 0 + Len(w) <= Len(bytes)
      /\ \A j \in 1 .. Len(w) : bytes[0 + j] = w[j]
  BY <1>6
<1>9. ASSUME NEW q \in Nat, NEW label, NEW end, NEW text \in Parser!Texts,
             Lies(w, q, label, text, end)
      PROVE  Lies(bytes, q, label, text, end)
  <2>1. Lies(bytes, 0 + q, label, text, end)
    BY <1>8, <1>9, LiesWithin
  <2> QED  BY <2>1
<1>10. Lies(bytes, 0, "start", msg.start, "startEnd")
  BY <1>2, <1>3, <1>9
<1>11. Lies(bytes, p + 1, "body", msg.body, "messageEnd")
  BY <1>2, <1>3, <1>4, <1>9
<1>12. bytes[p + 1].part = "headersEnd"
  <2>1. p + 1 \in 1 .. lw
    BY <1>6
  <2>2. bytes[0 + (p + 1)] = w[p + 1]
    BY <1>7, <2>1
  <2> QED  BY <1>3, <1>4, <2>2
<1>13. ASSUME NEW i \in 1 .. n
       PROVE  /\ Lies(bytes, pos[i], "field", msg.headers[i].name, "fieldEnd")
              /\ Lies(bytes, pos[i] + Len(msg.headers[i].name) + 1, "value",
                      msg.headers[i].value, "valueEnd")
  <2>1. PICK q \in Nat : q = pos[i]
    <3>1. i \in 1 .. n + 1
      OBVIOUS
    <3> QED  BY <1>3, <3>1
  <2>2. PICK r \in Nat : r = q + Len(msg.headers[i].name) + 1
    <3>1. Len(msg.headers[i].name) \in Nat
      <4>1. msg.headers[i].name \in Parser!Texts
        BY <1>2
      <4> QED  BY <4>1 DEF Parser!Texts
    <3> QED  BY <3>1
  <2>3. Lies(w, q, "field", msg.headers[i].name, "fieldEnd")
        /\ Lies(w, r, "value", msg.headers[i].value, "valueEnd")
    BY <1>3, <2>1, <2>2
  <2> QED  BY <1>2, <1>9, <2>1, <2>2, <2>3
<1> QED  BY <1>1, <1>3, <1>4, <1>8, <1>10, <1>11, <1>12, <1>13 DEF LiesAt

\* A stream begins with its first message; behind it there is the next or nothing.
Laid(msg, pos, more, bytes) ==
    /\ LiesAt(msg, pos, bytes) /\ Ends(msg, pos) <= Len(bytes)
    /\ Ends(msg, pos) = Len(Parser!Written(msg))
    /\ more \in Parser!Texts
    /\ more = <<>> => Len(bytes) = Ends(msg, pos)
    /\ more # <<>> => Lies(bytes, Ends(msg, pos), "start", more, "startEnd")

\* So the first message of a stream is laid in its bytes.
LEMMA StreamLaid ==
    ASSUME NEW ms \in Seq(Parser!Messages), ms # <<>>, NEW bytes,
           bytes = Parser!FlattenSeq([i \in DOMAIN ms |-> Parser!Written(ms[i])])
    PROVE  bytes \in Seq(AllBytes) /\ \E pos, more : Laid(ms[1], pos, more, bytes)
<1> DEFINE ws == [i \in DOMAIN ms |-> Parser!Written(ms[i])]
<1>1. PICK n \in Nat : /\ n = Len(ms) /\ n >= 1 /\ DOMAIN ms = 1 .. n
                       /\ \A i \in 1 .. n : ms[i] \in Parser!Messages
  OBVIOUS
<1>2. ws \in Seq(Seq(AllBytes)) /\ Len(ws) = n /\ \A i \in 1 .. n : ws[i] = Parser!Written(ms[i])
  <2>1. \A i \in 1 .. n : Parser!Written(ms[i]) \in Seq(AllBytes)
    BY <1>1, WrittenLies
  <2>2. ws = [i \in 1 .. n |-> Parser!Written(ms[i])]
    BY <1>1
  <2> HIDE DEF ws
  <2>3. ws \in [1 .. n -> Seq(AllBytes)]
    BY <2>1, <2>2
  <2> QED  BY <2>2, <2>3
<1>3. bytes = Parser!FlattenSeq(ws)
  OBVIOUS
<1> HIDE DEF ws
<1>4. bytes \in Seq(AllBytes) /\ Cut(ws, bytes) # {}
  BY <1>2, <1>3, Flattened
<1>5. PICK cut : cut \in Cut(ws, bytes)
  BY <1>4
<1>6. PICK l \in Nat : l = Len(bytes)
  <2>1. Len(bytes) \in Nat
    BY <1>4
  <2> QED  BY <2>1
<1>7. /\ cut \in [0 .. n -> 0 .. l] /\ cut[0] = 0 /\ cut[n] = l
      /\ \A i \in 1 .. n : /\ cut[i] = cut[i - 1] + Len(ws[i])
                           /\ \A j \in 1 .. Len(ws[i]) : bytes[cut[i - 1] + j] = ws[i][j]
  BY <1>2, <1>5, <1>6 DEF Cut
<1>8. PICK msg \in Parser!Messages : msg = ms[1]
  BY <1>1
<1>9. PICK w \in Seq(AllBytes) : w = ws[1] /\ w = Parser!Written(msg)
  BY <1>1, <1>2, <1>8, WrittenLies
<1>10. PICK pos : LiesAt(msg, pos, w) /\ Len(w) = Ends(msg, pos)
  BY <1>9, WrittenLies
<1>11. PICK lw \in Nat : lw = Len(w) /\ cut[1] = lw /\ lw <= l /\ \A j \in 1 .. lw : bytes[j] = w[j]
  <2>1. 1 \in 1 .. n /\ 1 - 1 = 0 /\ 1 \in 0 .. n
    BY <1>1
  <2>2. cut[1] = 0 + Len(w) /\ \A j \in 1 .. Len(w) : bytes[0 + j] = w[j]
    <3>1. PICK i \in 1 .. n : i = 1 /\ i - 1 = 0
      BY <2>1
    <3>2. cut[i] = cut[i - 1] + Len(ws[i]) /\ \A j \in 1 .. Len(ws[i]) : bytes[cut[i - 1] + j] = ws[i][j]
      BY <1>7
    <3>3. cut[1] = cut[0] + Len(ws[1]) /\ \A j \in 1 .. Len(ws[1]) : bytes[cut[0] + j] = ws[1][j]
      BY <3>1, <3>2, Zenon
    <3>4. cut[0] = 0 /\ w = ws[1]
      BY <1>7, <1>9
    <3> QED  BY <3>3, <3>4
  <2>3. cut[1] \in 0 .. l
    BY <1>7, <2>1
  <2>4. PICK lw \in Nat : lw = Len(w)
    <3>1. Len(w) \in Nat
      OBVIOUS
    <3> QED  BY <3>1
  <2>5. cut[1] = lw /\ lw <= l
    BY <2>2, <2>3, <2>4
  <2>6. \A j \in 1 .. lw : bytes[j] = w[j]
    BY <2>2, <2>4
  <2> QED  BY <2>4, <2>5, <2>6
<1>12. LiesAt(msg, pos, bytes)
  BY <1>6, <1>10, <1>11, LiesAtWithin
<1>13. CASE n = 1
  <2>1. Len(bytes) = Ends(msg, pos)
    BY <1>6, <1>7, <1>10, <1>11, <1>13
  <2>2. <<>> \in Parser!Texts
    BY DEF Parser!Texts
  <2>3. Ends(msg, pos) <= Len(bytes)
    BY <1>6, <2>1
  <2>4. Laid(msg, pos, <<>>, bytes)
    BY <1>9, <1>10, <1>12, <2>1, <2>2, <2>3 DEF Laid
  <2> QED  BY <1>4, <1>8, <2>4
<1>14. CASE n # 1
  <2>1. 2 \in 1 .. n /\ 2 - 1 = 1 /\ 2 \in 0 .. n
    BY <1>1, <1>14
  <2>2. PICK next \in Parser!Messages : next = ms[2]
    BY <1>1, <2>1
  <2>3. PICK v \in Seq(AllBytes) : v = ws[2] /\ v = Parser!Written(next)
    BY <1>2, <2>1, <2>2, WrittenLies
  <2>4. Lies(v, 0, "start", next.start, "startEnd") /\ next.start \in Parser!Texts /\ next.start # <<>>
    BY <2>2, <2>3, WrittenLies, MessageTexts DEF LiesAt
  <2>5. PICK lv \in Nat : lv = Len(v)
    <3>1. Len(v) \in Nat
      OBVIOUS
    <3> QED  BY <3>1
  <2>6. cut[2] = lw + lv /\ lw + lv <= l /\ \A j \in 1 .. lv : bytes[lw + j] = v[j]
    <3>1. cut[2] = lw + lv /\ \A j \in 1 .. lv : bytes[lw + j] = v[j]
      <4>1. PICK i \in 1 .. n : i = 2 /\ i - 1 = 1
        BY <2>1
      <4>2. cut[i] = cut[i - 1] + Len(ws[i]) /\ \A j \in 1 .. Len(ws[i]) : bytes[cut[i - 1] + j] = ws[i][j]
        BY <1>7
      <4>3. cut[2] = cut[1] + Len(ws[2]) /\ \A j \in 1 .. Len(ws[2]) : bytes[cut[1] + j] = ws[2][j]
        BY <4>1, <4>2, Zenon
      <4>4. cut[1] = lw /\ v = ws[2] /\ lv = Len(v)
        BY <1>11, <2>3, <2>5
      <4> QED  BY <4>3, <4>4
    <3>2. cut[2] \in 0 .. l
      BY <1>7, <2>1
    <3> QED  BY <3>1, <3>2
  <2>7. Lies(bytes, lw + 0, "start", next.start, "startEnd")
    BY <1>6, <2>4, <2>5, <2>6, LiesWithin
  <2>8. lw + 0 = Ends(msg, pos) /\ Ends(msg, pos) <= Len(bytes)
    BY <1>6, <1>10, <1>11
  <2>9. Laid(msg, pos, next.start, bytes)
    BY <1>9, <1>10, <1>12, <2>4, <2>7, <2>8 DEF Laid
  <2> QED  BY <1>4, <1>8, <2>9
<1> QED  BY <1>13, <1>14

-----------------------------------------------------------------------------
(* What the parser has at each place of a message *)

\* The headers made of some of those of a message.
Kept(msg, S) ==
    [name \in {msg.headers[i].name : i \in S} |->
        msg.headers[Parser!Max({i \in S : msg.headers[i].name = name})].value]

Filled(msg, i) == {j \in 1 .. i : msg.headers[j].value # <<>>}
Fits(msg, i) ==
    \A j \in 1 .. i :
        Len(msg.headers[j].name) + (IF j > 1 THEN Len(msg.headers[j - 1].name) ELSE 0) <= MaxName

\* The name of a header has been read, and some of its value.
Reading(msg, i, word) ==
    /\ curr.field = msg.headers[i].name /\ curr.value = word
    /\ headers = Kept(msg, Filled(msg, i - 1))
    /\ Fits(msg, i)

Begun(msg) == curr.start = msg.start /\ msg.start \in ValidStarts /\ curr.body = <<>>

Whole(msg) == headers = Parser!HeadersOf(msg) /\ Fits(msg, Len(msg.headers))

InStart(msg, k) ==
    /\ k \in 0 .. Len(msg.start) /\ parsed = k
    /\ curr.start = SubSeq(msg.start, 1, k)
    /\ curr.field = <<>> /\ curr.value = <<>> /\ curr.body = <<>> /\ headers = <<>>

\* A name that was cut is shorter than it should be.
BeforeHeader(msg, pos, i) ==
    /\ i \in 1 .. Len(msg.headers) + 1 /\ parsed = pos[i]
    /\ Begun(msg)
    /\ Len(curr.field) <= IF i = 1 THEN 0 ELSE Len(msg.headers[i - 1].name)
    /\ ~nameCut => IF i = 1 THEN headers = <<>>
                   ELSE Reading(msg, i - 1, msg.headers[i - 1].value)

InName(msg, pos, i, k) ==
    /\ i \in 1 .. Len(msg.headers) /\ k \in 1 .. Len(msg.headers[i].name) /\ parsed = pos[i] + k
    /\ Begun(msg)
    /\ Len(curr.field) <= k
    /\ http_bytes[parsed].part = "field"
    /\ ~nameCut => /\ piece < parsed
                   /\ k < Len(msg.headers[i].name) => parsed = come
                   /\ k = Len(msg.headers[i].name) => Reading(msg, i, <<>>)

InValue(msg, pos, i, k) ==
    /\ i \in 1 .. Len(msg.headers) /\ k \in 0 .. Len(msg.headers[i].value)
    /\ parsed = pos[i] + Len(msg.headers[i].name) + 1 + k
    /\ Begun(msg)
    /\ Len(curr.field) <= Len(msg.headers[i].name)
    /\ ~nameCut => Reading(msg, i, SubSeq(msg.headers[i].value, 1, k))

InBody(msg, pos, k) ==
    /\ k \in 0 .. Len(msg.body) /\ parsed = pos[Len(msg.headers) + 1] + 1 + k
    /\ curr.start = msg.start /\ msg.start \in ValidStarts
    /\ curr.body = SubSeq(msg.body, 1, k)
    /\ ~nameCut => Whole(msg)

\* A message is complete, and perhaps the next has begun.
Complete(msg, pos, more) ==
    /\ Ends(msg, pos) <= parsed
    /\ msg.start \in ValidStarts /\ http_body = msg.body
    /\ ~nameCut => Whole(msg)
    /\ error => Ends(msg, pos) < parsed
    /\ ~error => \E k \in 0 .. Len(more) : /\ parsed = Ends(msg, pos) + k
                                           /\ curr.start = msg.start \o SubSeq(more, 1, k)

Refused(msg) == ~(msg.start \in ValidStarts /\ Fits(msg, Len(msg.headers)))

Somewhere(msg, pos) ==
    \/ \E k \in Nat : InStart(msg, k) \/ InBody(msg, pos, k)
    \/ \E i \in Nat : BeforeHeader(msg, pos, i)
                      \/ \E k \in Nat : InName(msg, pos, i, k) \/ InValue(msg, pos, i, k)

Progress(msg, pos, more) ==
    IF m_isFinish THEN Complete(msg, pos, more)
    ELSE IF error THEN Refused(msg) ELSE Somewhere(msg, pos)

ParserTyped ==
    /\ parsed \in Nat /\ come \in Nat /\ piece \in Nat
    /\ piece <= parsed /\ parsed <= come /\ come <= Len(http_bytes)
    /\ curr \in [start : Parser!Texts, field : Parser!Texts, value : Parser!Texts,
                 body : Parser!Texts]
    /\ m_isFinish \in BOOLEAN /\ error \in BOOLEAN /\ nameCut \in BOOLEAN

Returned ==
    /\ outcome = "OK" => m_isFinish
    /\ outcome = "ERROR" => error /\ (http.kind = "request" \/ ~m_isFinish)

\* The inductive invariant: the first message is laid in the bytes, and the parser
\* is at one of its places.
ParserInv ==
    /\ ParserTyped /\ Returned
    /\ http_bytes \in Seq(AllBytes)
    /\ http.messages \in Seq(Parser!Messages) /\ http.messages # <<>>
    /\ \E pos, more : /\ Laid(Parser!First, pos, more, http_bytes)
                      /\ Progress(Parser!First, pos, more)

\* One more header, later than the others, is stored as setHeader does.
KeptWith(msg, S, j) ==
    [name \in DOMAIN Kept(msg, S) \cup {msg.headers[j].name} |->
        IF name = msg.headers[j].name THEN msg.headers[j].value ELSE Kept(msg, S)[name]]

LEMMA KeptMore ==
    ASSUME NEW msg, NEW S, NEW j \in Nat, S \subseteq Nat, \A i \in S : i < j
    PROVE  Kept(msg, S \cup {j}) = KeptWith(msg, S, j)
<1> DEFINE N(i) == msg.headers[i].name
           V(i) == msg.headers[i].value
           Of(T, name) == {i \in T : N(i) = name}
           D == {N(i) : i \in S}
           more == S \cup {j}
<1>1. Kept(msg, S) = [name \in D |-> V(Parser!Max(Of(S, name)))]
  BY DEF Kept
<1>2. Kept(msg, more) = [name \in {N(i) : i \in more} |-> V(Parser!Max(Of(more, name)))]
  BY DEF Kept
<1>3. {N(i) : i \in more} = D \cup {N(j)}
  OBVIOUS
<1> DEFINE f == [name \in D |-> V(Parser!Max(Of(S, name)))]
           g == [name \in D \cup {N(j)} |-> V(Parser!Max(Of(more, name)))]
           h == [name \in D \cup {N(j)} |-> IF name = N(j) THEN V(j) ELSE f[name]]
<1>4. ASSUME NEW name \in D \cup {N(j)}
      PROVE  V(Parser!Max(Of(more, name))) = IF name = N(j) THEN V(j) ELSE f[name]
  <2>1. CASE name = N(j)
    <3> DEFINE T == Of(more, name)
    <3>0. j \in T /\ \A i \in T : i \in S \/ i = j
      <4> HIDE DEF N
      <4> QED  BY <2>1
    <3>1. T \subseteq Nat /\ \A i \in T : j >= i
      <4> HIDE DEF T
      <4> QED  BY <3>0
    <3>2. \A m \in T : (\A i \in T : m >= i) => m = j
      <4> HIDE DEF T
      <4>1. ASSUME NEW m \in T, \A i \in T : m >= i PROVE m = j
        <5>1. m \in Nat /\ j >= m /\ m >= j
          BY <3>0, <3>1, <4>1
        <5> QED  BY <5>1
      <4> QED  BY <4>1
    <3> HIDE DEF T
    <3>3. Parser!Max(T) = j
      BY <3>0, <3>1, <3>2 DEF Parser!Max
    <3> QED  BY <2>1, <3>3 DEF T
  <2>2. CASE name # N(j)
    <3>1. Of(more, name) = Of(S, name)
      BY <2>2
    <3>2. name \in D
      BY <2>2
    <3> HIDE DEF Of, D
    <3>3. f[name] = V(Parser!Max(Of(S, name)))
      BY <3>2
    <3> QED  BY <2>2, <3>1, <3>3
  <2> QED  BY <2>1, <2>2
<1>5. g = h
  <2> HIDE DEF f, Of, D, N, V
  <2> QED  BY <1>4
<1>6. DOMAIN Kept(msg, S) = D /\ Kept(msg, S) = f
  BY <1>1
<1>7. Kept(msg, more) = g
  BY <1>2, <1>3
<1>8. KeptWith(msg, S, j) = h
  BY <1>6 DEF KeptWith
<1> QED  BY <1>5, <1>7, <1>8

\* The beginnings of a word.
LEMMA Beginnings ==
    ASSUME NEW word \in Parser!Texts, NEW k \in Nat, NEW m \in Nat, k <= m, m <= Len(word)
    PROVE  /\ Len(word) \in Nat /\ SubSeq(word, 1, Len(word)) = word
           /\ SubSeq(word, 1, 0) = <<>>
           /\ SubSeq(word, k + 1, m) \in Parser!Texts /\ Len(SubSeq(word, k + 1, m)) = m - k
           /\ SubSeq(word, 1, m) \in Parser!Texts /\ Len(SubSeq(word, 1, m)) = m
           /\ SubSeq(word, 1, k) \o SubSeq(word, k + 1, m) = SubSeq(word, 1, m)
<1>1. word \in Seq(Chars) /\ Len(word) \in Nat
  BY DEF Parser!Texts
<1>2. SubSeq(word, 1, Len(word)) = word /\ SubSeq(word, 1, 0) = <<>>
  BY <1>1
<1>3. SubSeq(word, k + 1, m) \in Seq(Chars) /\ Len(SubSeq(word, k + 1, m)) = m - k
  BY <1>1
<1>4. SubSeq(word, 1, m) \in Seq(Chars) /\ Len(SubSeq(word, 1, m)) = m
  BY <1>1
<1>5. SubSeq(word, 1, k) \o SubSeq(word, k + 1, m) = SubSeq(word, 1, m)
  BY <1>1
<1> QED  BY <1>1, <1>2, <1>3, <1>4, <1>5 DEF Parser!Texts

\* llhttp reports what has come of a text from where it has got to, and the whole
\* rest of it unless the read ends there.
Reports(q, k, word, text) ==
    \E m \in Nat : /\ k < m /\ m <= Len(word) /\ parsed' = q + m /\ parsed' <= come
                   /\ m < Len(word) => parsed' = come
                   /\ text = SubSeq(word, k + 1, m)

LEMMA SpanIs ==
    ASSUME NEW label, NEW text, Parser!Span(label, text),
           NEW q \in Nat, NEW k \in Nat, NEW word \in Parser!Texts, NEW end,
           Lies(http_bytes, q, label, word, end), end # label,
           parsed = q + k, k < Len(word), ParserTyped
    PROVE  Reports(q, k, word, text)
<1>1. PICK p \in Nat, c \in Nat, w \in Nat : p = parsed /\ c = come /\ w = Len(word) /\ p = q + k /\ k < w
  <2>1. Len(word) \in Nat
    BY DEF Parser!Texts
  <2>2. parsed \in Nat /\ come \in Nat
    BY DEF ParserTyped
  <2> QED  BY <2>1, <2>2
<1>2. PICK j \in p + 1 .. c :
        /\ \A i \in p + 1 .. j : http_bytes[i].part = label
        /\ j < c => http_bytes[j + 1].part # label
        /\ text = [i \in 1 .. j - (p + 1) + 1 |-> http_bytes[(p + 1) + i - 1].char]
        /\ parsed' = j
  BY <1>1 DEF Parser!Span, Parser!Part, Parser!Text
<1>3. /\ \A i \in 1 .. w : /\ http_bytes[q + i].part = label
                           /\ http_bytes[q + i].char = word[i]
      /\ http_bytes[q + w + 1].part # label
  BY <1>1 DEF Lies
<1>4. j <= q + w
  <2> SUFFICES ASSUME j > q + w PROVE FALSE
    BY <1>1
  <2>1. q + w + 1 \in p + 1 .. j
    BY <1>1
  <2> QED  BY <1>2, <1>3, <2>1
<1>5. PICK m \in Nat : m = j - q /\ k < m /\ m <= w /\ j = q + m
  BY <1>1, <1>4
<1>6. m < w => j = c
  <2> SUFFICES ASSUME m < w, j < c PROVE FALSE
    BY <1>5
  <2>1. j + 1 = q + (m + 1) /\ m + 1 \in 1 .. w
    BY <1>5
  <2> QED  BY <1>2, <1>3, <2>1
<1>7. text = SubSeq(word, k + 1, m)
  <2>1. word \in Seq(Chars) /\ Len(word) = w
    BY <1>1 DEF Parser!Texts
  <2>2. SubSeq(word, k + 1, m) = [i \in 1 .. m - k |-> word[k + i]]
    BY <1>5, <2>1
  <2>3. j - (p + 1) + 1 = m - k
    BY <1>1, <1>5
  <2>4. ASSUME NEW i \in 1 .. m - k PROVE http_bytes[(p + 1) + i - 1].char = word[k + i]
    <3>1. (p + 1) + i - 1 = q + (k + i) /\ k + i \in 1 .. w
      BY <1>1, <1>5
    <3> QED  BY <1>3, <3>1
  <2> QED  BY <1>2, <2>2, <2>3, <2>4
<1> QED  BY <1>1, <1>2, <1>5, <1>6, <1>7 DEF Reports

\* The callback is the one for the next byte; a read and its outcome stay as they are.
LEMMA Dispatch ==
    ASSUME Parser!Execute, NEW label, http_bytes[parsed + 1].part = label
    PROVE  /\ parsed < come /\ ~error /\ outcome = "none"
           /\ http' = http /\ http_bytes' = http_bytes /\ come' = come /\ piece' = piece
           /\ outcome' = outcome /\ nameCut' = nameCut
           /\ label = "start" => \E text : Parser!Collect("start", text)
           /\ label = "value" => \E text : Parser!Collect("value", text)
           /\ label = "body" => \E text : Parser!Collect("body", text)
           /\ label = "field" => \E text : Parser!_on_header_field(text)
           /\ label = "startEnd" => Parser!StartEnd
           /\ label = "fieldEnd" => Parser!FieldEnd
           /\ label = "valueEnd" => Parser!ValueEnd
           /\ label = "headersEnd" => Parser!_on_Header_complate
           /\ label = "messageEnd" => Parser!_on_Message_complate
<1> DEFINE Same == /\ parsed < come /\ ~error /\ outcome = "none"
                   /\ http' = http /\ http_bytes' = http_bytes /\ come' = come /\ piece' = piece
                   /\ outcome' = outcome /\ nameCut' = nameCut
<1>1. ASSUME NEW l, NEW text, Parser!Span(l, text) PROVE Same /\ l = label
  BY <1>1 DEF Parser!Span, Parser!Running, Parser!Part
<1>2. ASSUME NEW l, Parser!Ended(l) PROVE Same /\ l = label
  BY <1>2 DEF Parser!Ended, Parser!Running, Parser!Part
<1> HIDE DEF Same
<1>3. CASE \E text \in Parser!Spans : Parser!_on_header_field(text)
  <2>1. PICK text : Parser!_on_header_field(text)
    BY <1>3
  <2>2. Same /\ label = "field"
    BY <1>1, <2>1 DEF Parser!_on_header_field
  <2> QED  BY <2>1, <2>2 DEF Same
<1>4. CASE \E text \in Parser!Spans : \E l \in {"start", "value", "body"} : Parser!Collect(l, text)
  <2>1. PICK text \in Parser!Spans : \E l \in {"start", "value", "body"} : Parser!Collect(l, text)
    BY <1>4
  <2>2. PICK l \in {"start", "value", "body"} : Parser!Collect(l, text)
    BY <2>1
  <2>3. Same /\ label = l
    BY <1>1, <2>2 DEF Parser!Collect
  <2> QED  BY <2>2, <2>3 DEF Same
<1>5. CASE Parser!StartEnd
  <2>1. Same /\ label = "startEnd"
    BY <1>2, <1>5 DEF Parser!StartEnd
  <2> QED  BY <1>5, <2>1 DEF Same
<1>6. CASE Parser!FieldEnd
  <2>1. Same /\ label = "fieldEnd"
    BY <1>2, <1>6 DEF Parser!FieldEnd
  <2> QED  BY <1>6, <2>1 DEF Same
<1>7. CASE Parser!ValueEnd
  <2>1. Same /\ label = "valueEnd"
    BY <1>2, <1>7 DEF Parser!ValueEnd
  <2> QED  BY <1>7, <2>1 DEF Same
<1>8. CASE Parser!_on_Header_complate
  <2>1. Same /\ label = "headersEnd"
    BY <1>2, <1>8 DEF Parser!_on_Header_complate
  <2> QED  BY <1>8, <2>1 DEF Same
<1>9. CASE Parser!_on_Message_complate
  <2>1. Same /\ label = "messageEnd"
    BY <1>2, <1>9 DEF Parser!_on_Message_complate
  <2> QED  BY <1>9, <2>1 DEF Same
<1> QED  BY <1>3, <1>4, <1>5, <1>6, <1>7, <1>8, <1>9 DEF Parser!Execute

\* The place of a message in the bytes, part by part.
LEMMA Layout ==
    ASSUME NEW msg \in Parser!Messages, NEW pos, NEW more, Laid(msg, pos, more, http_bytes)
    PROVE  \E n \in Nat :
            /\ n = Len(msg.headers)
            /\ \A i \in 1 .. n + 1 : pos[i] \in Nat
            /\ pos[1] = Len(msg.start) + 1
            /\ Lies(http_bytes, 0, "start", msg.start, "startEnd")
            /\ \A i \in 1 .. n :
                /\ Lies(http_bytes, pos[i], "field", msg.headers[i].name, "fieldEnd")
                /\ Lies(http_bytes, pos[i] + Len(msg.headers[i].name) + 1, "value",
                        msg.headers[i].value, "valueEnd")
                /\ pos[i + 1] = pos[i] + Len(msg.headers[i].name) + Len(msg.headers[i].value) + 2
            /\ http_bytes[pos[n + 1] + 1].part = "headersEnd"
            /\ Lies(http_bytes, pos[n + 1] + 1, "body", msg.body, "messageEnd")
            /\ Ends(msg, pos) = pos[n + 1] + Len(msg.body) + 2
<1>1. PICK n \in Nat : n = Len(msg.headers)
  BY MessageTexts
<1>2. LiesAt(msg, pos, http_bytes)
  BY DEF Laid
<1>3. pos \in [1 .. n + 1 -> Nat]
  BY <1>1, <1>2 DEF LiesAt
<1>4. \A i \in 1 .. n + 1 : pos[i] \in Nat
  BY <1>3
<1>5. /\ pos[1] = Len(msg.start) + 1
      /\ Lies(http_bytes, 0, "start", msg.start, "startEnd")
      /\ \A i \in 1 .. n :
          /\ Lies(http_bytes, pos[i], "field", msg.headers[i].name, "fieldEnd")
          /\ Lies(http_bytes, pos[i] + Len(msg.headers[i].name) + 1, "value",
                  msg.headers[i].value, "valueEnd")
          /\ pos[i + 1] = pos[i] + Len(msg.headers[i].name) + Len(msg.headers[i].value) + 2
      /\ http_bytes[pos[n + 1] + 1].part = "headersEnd"
      /\ Lies(http_bytes, pos[n + 1] + 1, "body", msg.body, "messageEnd")
      /\ Ends(msg, pos) = pos[n + 1] + Len(msg.body) + 2
  BY <1>1, <1>2 DEF LiesAt, Ends
<1> QED  BY <1>1, <1>4, <1>5

\* Where the next byte is of a text, or ends it.
LEMMA NextByte ==
    ASSUME NEW q \in Nat, NEW k \in Nat, NEW word \in Parser!Texts, NEW label, NEW end,
           Lies(http_bytes, q, label, word, end), parsed = q + k, k <= Len(word)
    PROVE  http_bytes[parsed + 1].part = IF k < Len(word) THEN label ELSE end
<1>1. Len(word) \in Nat
  BY DEF Parser!Texts
<1>2. CASE k < Len(word)
  <2>1. k + 1 \in 1 .. Len(word) /\ parsed + 1 = q + (k + 1)
    BY <1>1, <1>2
  <2> QED  BY <1>2, <2>1 DEF Lies
<1>3. CASE k = Len(word)
  <2>1. parsed + 1 = q + Len(word) + 1
    BY <1>1, <1>3
  <2> QED  BY <1>1, <1>3, <2>1 DEF Lies
<1> QED  BY <1>1, <1>2, <1>3

\* One of the collecting callbacks: a text that had come up to k has come up to m.
LEMMA Collects ==
    ASSUME NEW label \in {"start", "value", "body"}, NEW text, Parser!Collect(label, text),
           NEW q \in Nat, NEW k \in Nat, NEW word \in Parser!Texts, NEW end,
           Lies(http_bytes, q, label, word, end), end # label,
           parsed = q + k, k < Len(word), ParserTyped
    PROVE  \E m \in Nat :
            /\ k < m /\ m <= Len(word) /\ parsed' = q + m
            /\ curr' = [curr EXCEPT ![label] = @ \o SubSeq(word, k + 1, m)]
            /\ headers' = headers /\ http_body' = http_body
            /\ m_isFinish' = m_isFinish /\ error' = error
            /\ ParserTyped'
<1>1. Parser!Span(label, text)
  BY DEF Parser!Collect
<1>2. PICK m \in Nat : /\ k < m /\ m <= Len(word) /\ parsed' = q + m /\ parsed' <= come
                       /\ text = SubSeq(word, k + 1, m)
  BY <1>1, SpanIs DEF Reports
<1>3. /\ curr' = [curr EXCEPT ![label] = @ \o text] /\ headers' = headers /\ error' = error
      /\ http' = http /\ http_bytes' = http_bytes /\ come' = come /\ piece' = piece
      /\ http_body' = http_body /\ m_isFinish' = m_isFinish /\ nameCut' = nameCut
  BY DEF Parser!Collect, Parser!Span
<1>4. text \in Parser!Texts
  BY <1>2, Beginnings
<1>5. curr' \in [start : Parser!Texts, field : Parser!Texts, value : Parser!Texts, body : Parser!Texts]
  <2>1. \A s \in Parser!Texts : s \o text \in Parser!Texts
    BY <1>4 DEF Parser!Texts
  <2>2. curr[label] \in Parser!Texts
    BY DEF ParserTyped
  <2> QED  BY <1>3, <2>1, <2>2 DEF ParserTyped
<1>6. parsed' \in Nat /\ piece <= parsed'
  BY <1>2 DEF ParserTyped
<1>7. ParserTyped'
  BY <1>2, <1>3, <1>5, <1>6 DEF ParserTyped
<1> QED  BY <1>2, <1>3, <1>7

\* ... and the others step over the end of a text.
LEMMA EndsText ==
    ASSUME NEW label, Parser!Ended(label), ParserTyped
    PROVE  /\ parsed' = parsed + 1 /\ parsed' \in Nat /\ piece' <= parsed' /\ parsed' <= come'
           /\ come' = come /\ piece' = piece /\ nameCut' = nameCut /\ http_bytes' = http_bytes
<1>1. /\ parsed' = parsed + 1 /\ come' = come /\ piece' = piece /\ nameCut' = nameCut
      /\ http_bytes' = http_bytes /\ parsed < come
  BY DEF Parser!Ended, Parser!Running
<1>2. parsed \in Nat /\ come \in Nat /\ piece \in Nat /\ piece <= parsed
  BY DEF ParserTyped
<1> QED  BY <1>1, <1>2

-----------------------------------------------------------------------------
(* The headers that are stored *)

\* The headers with a value, one by one.
LEMMA FilledIs ==
    ASSUME NEW msg, NEW i \in Nat
    PROVE  /\ Filled(msg, 0) = {} /\ Kept(msg, {}) = <<>>
           /\ Filled(msg, i) \subseteq Nat /\ \A j \in Filled(msg, i) : j < i + 1
           /\ Filled(msg, i + 1) = IF msg.headers[i + 1].value = <<>> THEN Filled(msg, i)
                                   ELSE Filled(msg, i) \cup {i + 1}
<1>1. Filled(msg, 0) = {}
  BY DEF Filled
<1>2. Kept(msg, {}) = <<>>
  <2>1. {msg.headers[j].name : j \in {}} = {}
    OBVIOUS
  <2>2. \A f, g : f = [x \in {} |-> g[x]] => f = <<>>
    OBVIOUS
  <2> DEFINE g == [x \in {} |-> msg.headers[Parser!Max({j \in {} : msg.headers[j].name = x})].value]
  <2>3. Kept(msg, {}) = g
    BY <2>1 DEF Kept
  <2>4. g = <<>>
    OBVIOUS
  <2> QED  BY <2>3, <2>4
<1>3. Filled(msg, i) \subseteq Nat /\ \A j \in Filled(msg, i) : j < i + 1
  BY DEF Filled
<1>4. Filled(msg, i + 1) = IF msg.headers[i + 1].value = <<>> THEN Filled(msg, i)
                           ELSE Filled(msg, i) \cup {i + 1}
  <2>1. \A j : j \in 1 .. i + 1 <=> j \in 1 .. i \/ j = i + 1
    OBVIOUS
  <2>2. i + 1 \notin 1 .. i
    OBVIOUS
  <2> QED  BY <2>1, <2>2 DEF Filled
<1> QED  BY <1>1, <1>2, <1>3, <1>4

\* Storing the next header keeps it with those before it.
LEMMA SetHeader ==
    ASSUME NEW msg, NEW i \in Nat, headers = Kept(msg, Filled(msg, i)),
           Parser!setHeader(msg.headers[i + 1].name, msg.headers[i + 1].value)
    PROVE  headers' = Kept(msg, Filled(msg, i) \cup {i + 1})
<1>1. PICK S \in SUBSET Nat, j \in Nat :
        S = Filled(msg, i) /\ j = i + 1 /\ \A k \in S : k < j
  <2>1. Filled(msg, i) \subseteq Nat /\ \A k \in Filled(msg, i) : k < i + 1
    BY FilledIs
  <2>2. i + 1 \in Nat
    OBVIOUS
  <2> QED  BY <2>1, <2>2
<1>2. Kept(msg, S \cup {j}) = KeptWith(msg, S, j)
  BY <1>1, KeptMore
<1>3. headers' = [name \in DOMAIN headers \cup {msg.headers[j].name} |->
                    IF name = msg.headers[j].name THEN msg.headers[j].value
                    ELSE headers[name]]
  BY <1>1, Zenon DEF Parser!setHeader
<1>4. headers = Kept(msg, S)
  BY <1>1
<1>5. headers' = Kept(msg, S \cup {j})
  BY <1>2, <1>3, <1>4, Zenon DEF KeptWith
<1> QED  BY <1>1, <1>5, Zenon

\* The headers of a message are those with a value and the last.
LEMMA HeadersAre ==
    ASSUME NEW msg \in Parser!Messages, NEW n \in Nat, n = Len(msg.headers)
    PROVE  /\ n = 0 => Parser!HeadersOf(msg) = <<>>
           /\ \A i \in Nat : n = i + 1 => Parser!HeadersOf(msg) = Kept(msg, Filled(msg, i) \cup {n})
<1> DEFINE kept == {i \in 1 .. n : msg.headers[i].value # <<>> \/ i = n}
<1>1. DOMAIN msg.headers = 1 .. n
  BY MessageTexts
<1>2. {i \in DOMAIN msg.headers : msg.headers[i].value # <<>> \/ i = Len(msg.headers)} = kept
  BY <1>1
<1>3. Parser!HeadersOf(msg) = Kept(msg, kept)
  BY <1>2 DEF Parser!HeadersOf, Kept
<1>4. ASSUME n = 0 PROVE kept = {}
  BY <1>4
<1>5. ASSUME NEW i \in Nat, n = i + 1 PROVE kept = Filled(msg, i) \cup {n}
  BY <1>5 DEF Filled
<1> HIDE DEF kept
<1> QED  BY <1>3, <1>4, <1>5, FilledIs

-----------------------------------------------------------------------------
(* From one place to the next *)

\* The lengths of the texts of a message, and their concatenation.
LEMMA TextLengths ==
    ASSUME NEW msg \in Parser!Messages
    PROVE  /\ Len(msg.start) \in Nat /\ Len(msg.body) \in Nat
           /\ \A j \in 1 .. Len(msg.headers) : /\ Len(msg.headers[j].name) \in Nat
                                              /\ Len(msg.headers[j].value) \in Nat
<1>1. \A text \in Parser!Texts : Len(text) \in Nat
  BY DEF Parser!Texts
<1> QED  BY <1>1, MessageTexts

LEMMA Associative ==
    ASSUME NEW a \in Parser!Texts, NEW b \in Parser!Texts, NEW c \in Parser!Texts
    PROVE  (a \o b) \o c = a \o (b \o c)
<1>1. a \in Seq(Chars) /\ b \in Seq(Chars) /\ c \in Seq(Chars)
  BY DEF Parser!Texts
<1> QED  BY <1>1

\* More of a text that is being collected has been reported.
Advances(label, q, k, word) ==
    /\ error' = FALSE /\ m_isFinish' = m_isFinish
    /\ come' = come /\ nameCut' = nameCut /\ http_bytes' = http_bytes
    /\ headers' = headers /\ http_body' = http_body
    /\ \A l \in {"start", "field", "value", "body"} \ {label} : curr'[l] = curr[l]
    /\ \E m \in Nat :
        /\ k < m /\ m <= Len(word) /\ parsed' = q + m
        /\ curr[label] = SubSeq(word, 1, k) => curr'[label] = SubSeq(word, 1, m)
        /\ \A first \in Parser!Texts :
            curr[label] = first \o SubSeq(word, 1, k) =>
                curr'[label] = first \o SubSeq(word, 1, m)

LEMMA MoreOf ==
    ASSUME Parser!Execute, ParserTyped, NEW label \in {"start", "value", "body"},
           NEW q \in Nat, NEW k \in Nat, NEW word \in Parser!Texts, NEW end,
           Lies(http_bytes, q, label, word, end), end # label, parsed = q + k, k < Len(word)
    PROVE  Advances(label, q, k, word) /\ ParserTyped'
<1>1. http_bytes[parsed + 1].part = label
  BY NextByte
<1>2. PICK text : Parser!Collect(label, text)
  BY <1>1, Dispatch
<1>3. /\ come' = come /\ nameCut' = nameCut /\ http_bytes' = http_bytes /\ ~error
  BY <1>1, Dispatch
<1>4. PICK m \in Nat :
        /\ k < m /\ m <= Len(word) /\ parsed' = q + m
        /\ curr' = [curr EXCEPT ![label] = @ \o SubSeq(word, k + 1, m)]
        /\ headers' = headers /\ http_body' = http_body
        /\ m_isFinish' = m_isFinish /\ error' = error
        /\ ParserTyped'
  BY <1>2, Collects
<1>5. \A l \in {"start", "field", "value", "body"} \ {label} : curr'[l] = curr[l]
  BY <1>4 DEF ParserTyped
<1>6. curr'[label] = curr[label] \o SubSeq(word, k + 1, m)
  BY <1>4 DEF ParserTyped
<1>7. PICK had, new \in Parser!Texts : /\ had = SubSeq(word, 1, k) /\ new = SubSeq(word, k + 1, m)
                                       /\ had \o new = SubSeq(word, 1, m)
  <2>1. k <= m
    BY <1>4
  <2>2. k <= k /\ k <= Len(word)
    BY <1>4 DEF Parser!Texts
  <2>3. SubSeq(word, 1, k) \in Parser!Texts
    BY <2>2, Beginnings
  <2>4. SubSeq(word, k + 1, m) \in Parser!Texts
        /\ SubSeq(word, 1, k) \o SubSeq(word, k + 1, m) = SubSeq(word, 1, m)
    BY <1>4, <2>1, Beginnings
  <2> QED  BY <2>3, <2>4
<1>8. ASSUME NEW first \in Parser!Texts, curr[label] = first \o SubSeq(word, 1, k)
      PROVE  curr'[label] = first \o SubSeq(word, 1, m)
  <2>1. curr'[label] = (first \o had) \o new
    BY <1>6, <1>7, <1>8, Zenon
  <2>2. (first \o had) \o new = first \o (had \o new)
    BY <1>7, Associative
  <2> QED  BY <1>7, <2>1, <2>2, Zenon
<1>9. curr[label] = SubSeq(word, 1, k) => curr'[label] = SubSeq(word, 1, m)
  BY <1>6, <1>7, Zenon
<1>10. \E i \in Nat :
        /\ k < i /\ i <= Len(word) /\ parsed' = q + i
        /\ curr[label] = SubSeq(word, 1, k) => curr'[label] = SubSeq(word, 1, i)
        /\ \A first \in Parser!Texts :
            curr[label] = first \o SubSeq(word, 1, k) =>
                curr'[label] = first \o SubSeq(word, 1, i)
  BY <1>4, <1>8, <1>9, Zenon
<1>11. error' = FALSE
  BY <1>3, <1>4 DEF ParserTyped
<1> QED  BY <1>3, <1>4, <1>5, <1>10, <1>11, Zenon DEF Advances

\* In the method or version.
LEMMA FromStart ==
    ASSUME Parser!Execute, ParserTyped, ~m_isFinish, NEW msg \in Parser!Messages, NEW pos,
           NEW more, Laid(msg, pos, more, http_bytes), NEW k \in Nat, InStart(msg, k)
    PROVE  ParserTyped' /\ Progress(msg, pos, more)'
<1>1. /\ msg.start \in Parser!Texts /\ Lies(http_bytes, 0, "start", msg.start, "startEnd")
      /\ pos[1] = Len(msg.start) + 1
  BY Layout, MessageTexts
<1>2. PICK w \in Nat : w = Len(msg.start)
  BY <1>1 DEF Parser!Texts
<1>3. k <= w /\ parsed = 0 + k /\ parsed = k
  BY <1>2 DEF InStart
<1>4. http_bytes[parsed + 1].part = IF k < w THEN "start" ELSE "startEnd"
  BY <1>1, <1>2, <1>3, NextByte
<1>5. CASE k < w
  <2>1. Advances("start", 0, k, msg.start) /\ ParserTyped'
    BY <1>1, <1>2, <1>3, <1>5, MoreOf
  <2>2. PICK m \in Nat : m <= w /\ parsed' = m /\ curr'.start = SubSeq(msg.start, 1, m)
    BY <1>2, <2>1 DEF InStart, Advances
  <2>3. InStart(msg, m)'
    BY <1>2, <2>1, <2>2 DEF InStart, Advances
  <2> QED  BY <2>1, <2>3 DEF Progress, Somewhere, Advances
<1>6. CASE k = w
  <2>1. Parser!StartEnd /\ ~error
    BY <1>4, <1>6, Dispatch
  <2>2. /\ Parser!Ended("startEnd") /\ error' = (curr.start \notin ValidStarts)
        /\ curr' = curr /\ headers' = headers /\ m_isFinish' = m_isFinish
    BY <2>1 DEF Parser!StartEnd
  <2>3. /\ parsed' = parsed + 1 /\ parsed' \in Nat /\ piece' <= parsed' /\ parsed' <= come'
        /\ come' = come /\ piece' = piece /\ nameCut' = nameCut /\ http_bytes' = http_bytes
    BY <2>2, EndsText
  <2>4. ParserTyped'
    BY <2>2, <2>3 DEF ParserTyped
  <2>5. curr.start = msg.start
    BY <1>1, <1>2, <1>6, Beginnings DEF InStart
  <2>6. CASE error'
    <3>1. Refused(msg)
      BY <2>2, <2>5, <2>6 DEF Refused
    <3> QED  BY <2>2, <2>4, <2>6, <3>1 DEF Progress, Refused, Fits
  <2>7. CASE ~error'
    <3>1. parsed' = pos[1]
      BY <1>1, <1>2, <1>3, <1>6, <2>3
    <3>2. 1 \in 1 .. Len(msg.headers) + 1
      BY MessageTexts
    <3>3. Begun(msg)'
      BY <2>2, <2>5, <2>7 DEF Begun, InStart
    <3>4. Len(curr'.field) <= 0 /\ headers' = <<>>
      BY <2>2 DEF InStart
    <3>5. BeforeHeader(msg, pos, 1)'
      BY <3>1, <3>2, <3>3, <3>4 DEF BeforeHeader
    <3> QED  BY <2>2, <2>4, <2>7, <3>5 DEF Progress, Somewhere
  <2> QED  BY <2>6, <2>7
<1> QED  BY <1>2, <1>3, <1>5, <1>6

\* What the parser does with the name of a header.
LEMMA NameTaken ==
    ASSUME ParserTyped, NEW text \in Parser!Texts, Parser!FieldName(text), ~error
    PROVE  /\ error' \in BOOLEAN /\ (error' <=> Len(curr.field) + Len(text) > MaxName)
           /\ curr' \in [start : Parser!Texts, field : Parser!Texts, value : Parser!Texts,
                         body : Parser!Texts]
           /\ ~error' =>
                /\ curr'.start = curr.start /\ curr'.body = curr.body
                /\ curr'.field = text /\ curr'.value = <<>>
                /\ IF curr.field # <<>> /\ curr.value # <<>>
                   THEN Parser!setHeader(curr.field, curr.value) ELSE headers' = headers
<1> DEFINE T == [start : Parser!Texts, field : Parser!Texts, value : Parser!Texts,
                 body : Parser!Texts]
           store == IF curr.field # <<>> /\ curr.value # <<>>
                    THEN Parser!setHeader(curr.field, curr.value) ELSE headers' = headers
           long == Len(curr.field) + Len(text) > MaxName
<1>1. curr \in T /\ error = FALSE
  BY DEF ParserTyped
<1>2. <<>> \in Parser!Texts
  BY DEF Parser!Texts
<1>3. /\ long => error' = TRUE /\ curr' = curr
      /\ ~long => error' = error /\ store /\ curr' = [curr EXCEPT !.field = text, !.value = <<>>]
  BY DEF Parser!FieldName
<1> HIDE DEF long, store
<1>4. CASE long
  <2>1. error' = TRUE /\ curr' \in T
    BY <1>1, <1>3, <1>4
  <2> QED  BY <1>4, <2>1 DEF long
<1>5. CASE ~long
  <2>1. /\ curr' \in T /\ curr'.start = curr.start /\ curr'.body = curr.body
        /\ curr'.field = text /\ curr'.value = <<>>
    BY <1>1, <1>2, <1>3, <1>5
  <2>2. store /\ error' = FALSE
    BY <1>1, <1>3, <1>5
  <2>3. error' \in BOOLEAN /\ (error' <=> long)
    BY <1>5, <2>2
  <2> QED  BY <2>1, <2>2, <2>3, Zenon DEF long, store
<1> QED  BY <1>4, <1>5

\* A name that was not cut, after the header before it.
LEMMA NextHeader ==
    ASSUME ParserTyped, ~error, ~error', NEW msg \in Parser!Messages,
           NEW i \in 1 .. Len(msg.headers),
           IF i = 1 THEN headers = <<>> /\ Len(curr.field) <= 0
                    ELSE Reading(msg, i - 1, msg.headers[i - 1].value),
           Parser!FieldName(msg.headers[i].name)
    PROVE  Reading(msg, i, <<>>)'
<1>1. PICK n \in Nat : n = Len(msg.headers)
  BY MessageTexts
<1>2. \A j \in 1 .. n : /\ msg.headers[j].name \in Parser!Texts /\ msg.headers[j].name # <<>>
                        /\ msg.headers[j].value \in Parser!Texts
  BY <1>1, MessageTexts
<1>3. /\ Len(curr.field) + Len(msg.headers[i].name) <= MaxName
      /\ curr'.field = msg.headers[i].name /\ curr'.value = <<>>
      /\ IF curr.field # <<>> /\ curr.value # <<>>
         THEN Parser!setHeader(curr.field, curr.value) ELSE headers' = headers
  <2>1. msg.headers[i].name \in Parser!Texts
    BY <1>1, <1>2
  <2>2. Len(curr.field) \in Nat /\ Len(msg.headers[i].name) \in Nat /\ MaxName \in Nat
    BY <2>1, ServicesAssumption DEF ParserTyped, Parser!Texts, Parser!ParserAssumption
  <2>3. ~(Len(curr.field) + Len(msg.headers[i].name) > MaxName)
    BY <2>1, NameTaken, Zenon
  <2>4. Len(curr.field) + Len(msg.headers[i].name) <= MaxName
    <3>1. \A a, b, c \in Nat : ~(a + b > c) => a + b <= c
      OBVIOUS
    <3> QED  BY <2>2, <2>3, <3>1, Zenon
  <2>5. /\ curr'.field = msg.headers[i].name /\ curr'.value = <<>>
        /\ IF curr.field # <<>> /\ curr.value # <<>>
           THEN Parser!setHeader(curr.field, curr.value) ELSE headers' = headers
    BY <2>1, NameTaken
  <2> QED  BY <2>4, <2>5
<1>4. CASE i = 1
  <2>1. curr.field = <<>>
    BY <1>4 DEF ParserTyped, Parser!Texts
  <2>2. headers' = Kept(msg, Filled(msg, i - 1))
    <3>1. headers' = <<>>
      BY <1>3, <1>4, <2>1
    <3>2. Kept(msg, Filled(msg, 0)) = <<>>
      <4>1. 0 \in Nat
        OBVIOUS
      <4> QED  BY <4>1, FilledIs
    <3> QED  BY <1>4, <3>1, <3>2
  <2>3. Fits(msg, i)
    <3>1. Len(msg.headers[1].name) <= MaxName
      BY <1>2, <1>3, <1>4, <2>1 DEF Parser!Texts
    <3>2. \A j \in 1 .. i : j = 1 /\ ~(j > 1)
      BY <1>4
    <3>3. Len(msg.headers[1].name) + 0 = Len(msg.headers[1].name)
      BY <1>1, <1>2, <1>4 DEF Parser!Texts
    <3> QED  BY <3>1, <3>2, <3>3 DEF Fits
  <2> QED  BY <1>3, <2>2, <2>3 DEF Reading, Fits
<1>5. CASE i # 1
  <2>1. PICK h \in Nat : i = h + 2 /\ i - 1 = h + 1 /\ h + 1 \in 1 .. n
    <3>1. i - 2 \in Nat /\ i = (i - 2) + 2 /\ i - 1 = (i - 2) + 1 /\ (i - 2) + 1 \in 1 .. n
      BY <1>1, <1>5
    <3> QED  BY <3>1
  <2>2. Reading(msg, h + 1, msg.headers[h + 1].value)
    BY <1>5, <2>1
  <2>3. /\ curr.field = msg.headers[h + 1].name /\ curr.value = msg.headers[h + 1].value
        /\ headers = Kept(msg, Filled(msg, h)) /\ Fits(msg, h + 1)
    <3>1. (h + 1) - 1 = h
      BY <2>1
    <3> QED  BY <2>2, <3>1 DEF Reading
  <2>4. headers' = Kept(msg, Filled(msg, h + 1))
    <3>1. Filled(msg, h + 1) = IF msg.headers[h + 1].value = <<>> THEN Filled(msg, h)
                               ELSE Filled(msg, h) \cup {h + 1}
      BY <2>1, FilledIs
    <3>2. msg.headers[h + 1].name # <<>>
      BY <1>2, <2>1
    <3>3. CASE msg.headers[h + 1].value = <<>>
      <4>1. headers' = headers
        BY <1>3, <2>3, <3>3
      <4> QED  BY <2>3, <3>1, <3>3, <4>1
    <3>4. CASE msg.headers[h + 1].value # <<>>
      <4>1. Parser!setHeader(msg.headers[h + 1].name, msg.headers[h + 1].value)
        BY <1>3, <2>3, <3>2, <3>4, Zenon
      <4>2. headers' = Kept(msg, Filled(msg, h) \cup {h + 1})
        BY <2>1, <2>3, <4>1, SetHeader
      <4> QED  BY <3>1, <3>4, <4>2
    <3> QED  BY <3>3, <3>4
  <2>5. Fits(msg, i)
    <3>1. \A j \in 1 .. i : j \in 1 .. h + 1 \/ j = i
      BY <2>1
    <3>2. Len(msg.headers[i].name) + (IF i > 1 THEN Len(msg.headers[i - 1].name) ELSE 0) <= MaxName
      <4>1. i \in 1 .. n /\ i - 1 \in 1 .. n /\ i > 1
        BY <1>1, <2>1
      <4>2. PICK a \in Nat : a = Len(msg.headers[i].name)
        BY <1>2, <4>1 DEF Parser!Texts
      <4>3. PICK b \in Nat : b = Len(msg.headers[i - 1].name)
        BY <1>2, <4>1 DEF Parser!Texts
      <4>4. curr.field = msg.headers[i - 1].name
        BY <2>1, <2>3
      <4>5. b + a <= MaxName /\ MaxName \in Nat
        BY <1>3, <4>2, <4>3, <4>4, ServicesAssumption DEF Parser!ParserAssumption
      <4>6. a + b <= MaxName
        BY <4>5
      <4> QED  BY <4>1, <4>2, <4>3, <4>6
    <3> QED  BY <2>3, <3>1, <3>2 DEF Fits
  <2> QED  BY <1>3, <2>1, <2>4, <2>5 DEF Reading, Fits
<1> QED  BY <1>4, <1>5

\* The bytes of a name, of which k have been reported.
LEMMA NameFrom ==
    ASSUME Parser!Execute, ParserTyped, ~m_isFinish, NEW msg \in Parser!Messages, NEW pos,
           NEW more, Laid(msg, pos, more, http_bytes),
           NEW i \in 1 .. Len(msg.headers), NEW k \in Nat, k < Len(msg.headers[i].name),
           parsed = pos[i] + k, Begun(msg),
           Len(curr.field) <= k + (IF i = 1 THEN 0 ELSE Len(msg.headers[i - 1].name)),
           ~nameCut => /\ k = 0
                       /\ IF i = 1 THEN headers = <<>>
                          ELSE Reading(msg, i - 1, msg.headers[i - 1].value)
    PROVE  ParserTyped' /\ Progress(msg, pos, more)'
<1>1. PICK n \in Nat : n = Len(msg.headers)
  BY MessageTexts
<1>2. i \in 1 .. n /\ i \in 1 .. n + 1 /\ (i # 1 => i - 1 \in 1 .. n)
  BY <1>1
<1>3. PICK name \in Parser!Texts : name = msg.headers[i].name
  BY <1>1, <1>2, MessageTexts
<1>4. PICK q \in Nat : q = pos[i] /\ Lies(http_bytes, q, "field", name, "fieldEnd")
  <2>1. pos[i] \in Nat /\ Lies(http_bytes, pos[i], "field", name, "fieldEnd")
    BY <1>1, <1>2, <1>3, Layout
  <2> QED  BY <2>1
<1>5. parsed = q + k /\ k < Len(name) /\ Len(name) \in Nat
  BY <1>3, <1>4 DEF Parser!Texts
<1>6. http_bytes[parsed + 1].part = "field"
  <2>1. k <= Len(name)
    BY <1>5
  <2>2. http_bytes[parsed + 1].part = IF k < Len(name) THEN "field" ELSE "fieldEnd"
    BY <1>4, <1>5, <2>1, NextByte
  <2> QED  BY <1>5, <2>2
<1>7. PICK text : Parser!_on_header_field(text)
  BY <1>6, Dispatch
<1>8. /\ ~error /\ http_bytes' = http_bytes /\ come' = come /\ piece' = piece
      /\ nameCut' = nameCut
  BY <1>6, Dispatch
<1>9. Parser!Span("field", text) /\ Parser!FieldName(text)
  BY <1>7 DEF Parser!_on_header_field
<1>10. PICK m \in Nat : /\ k < m /\ m <= Len(name) /\ parsed' = q + m /\ parsed' <= come
                        /\ m < Len(name) => parsed' = come
                        /\ text = SubSeq(name, k + 1, m)
  <2>1. "fieldEnd" # "field"
    OBVIOUS
  <2>2. Reports(q, k, name, text)
    BY <1>4, <1>5, <1>9, <2>1, SpanIs
  <2> QED  BY <2>2 DEF Reports
<1>11. text \in Parser!Texts /\ Len(text) = m - k
  <2>1. k <= m /\ m <= Len(name) /\ text = SubSeq(name, k + 1, m)
    BY <1>10
  <2> QED  BY <2>1, Beginnings
<1>12. m_isFinish' = FALSE
  BY <1>9 DEF Parser!Span, ParserTyped
<1>13. /\ error' \in BOOLEAN /\ (error' <=> Len(curr.field) + Len(text) > MaxName)
       /\ curr' \in [start : Parser!Texts, field : Parser!Texts, value : Parser!Texts,
                     body : Parser!Texts]
       /\ ~error' => /\ curr'.start = curr.start /\ curr'.body = curr.body
                     /\ curr'.field = text /\ curr'.value = <<>>
  BY <1>8, <1>9, <1>11, NameTaken
<1>14. ParserTyped'
  <2>1. parsed' \in Nat /\ piece <= parsed'
    <3>1. piece \in Nat /\ piece <= parsed
      BY DEF ParserTyped
    <3> QED  BY <1>5, <1>10, <3>1
  <2>2. nameCut' \in BOOLEAN /\ come' \in Nat /\ piece' \in Nat /\ come' <= Len(http_bytes')
    BY <1>8 DEF ParserTyped
  <2> QED  BY <1>8, <1>10, <1>12, <1>13, <2>1, <2>2 DEF ParserTyped
<1>15. PICK a \in Nat, b \in Nat :
        /\ a = Len(curr.field)
        /\ b = (IF i = 1 THEN 0 ELSE Len(msg.headers[i - 1].name))
  <2>1. Len(curr.field) \in Nat
    BY DEF ParserTyped, Parser!Texts
  <2>2. i # 1 => Len(msg.headers[i - 1].name) \in Nat
    BY <1>1, <1>2, MessageTexts DEF Parser!Texts
  <2> QED  BY <2>1, <2>2
<1>16. CASE error'
  <2>1. a + Len(text) > MaxName
    BY <1>13, <1>15, <1>16, Zenon
  <2>2. Len(name) + b > MaxName
    <3>1. a <= k + b
      BY <1>15
    <3>2. MaxName \in Nat
      BY ServicesAssumption DEF Parser!ParserAssumption
    <3> QED  BY <1>5, <1>10, <1>11, <2>1, <3>1, <3>2
  <2>3. ~Fits(msg, n)
    <3>1. b = IF i > 1 THEN Len(msg.headers[i - 1].name) ELSE 0
      BY <1>2, <1>15
    <3>2. ~(Len(name) + b <= MaxName)
      BY <1>5, <2>2, ServicesAssumption DEF Parser!ParserAssumption
    <3> QED  BY <1>2, <1>3, <3>1, <3>2, Zenon DEF Fits
  <2>4. Refused(msg)'
    BY <1>1, <2>3 DEF Refused, Fits
  <2> QED  BY <1>12, <1>14, <1>16, <2>4 DEF Progress
<1>17. CASE ~error'
  <2>1. Begun(msg)'
    BY <1>13, <1>17 DEF Begun
  <2>2. http_bytes'[parsed'].part = "field" /\ m \in 1 .. Len(name)
    <3>1. m \in 1 .. Len(name)
      BY <1>5, <1>10
    <3>2. http_bytes[q + m].part = "field"
      BY <1>4, <3>1 DEF Lies
    <3> QED  BY <1>8, <1>10, <3>1, <3>2
  <2>3. Len(curr'.field) <= m
    BY <1>10, <1>11, <1>13, <1>17
  <2>4. ASSUME ~nameCut'
        PROVE  /\ piece' < parsed' /\ (m < Len(name) => parsed' = come')
               /\ m = Len(name) => Reading(msg, i, <<>>)'
    <3>1. k = 0 /\ IF i = 1 THEN headers = <<>> ELSE Reading(msg, i - 1, msg.headers[i - 1].value)
      BY <1>8, <2>4
    <3>2. piece' < parsed'
      BY <1>5, <1>8, <1>10 DEF ParserTyped
    <3>3. ASSUME m = Len(name) PROVE Reading(msg, i, <<>>)'
      <4>1. text = name
        <5>1. text = SubSeq(name, 1, Len(name))
          BY <1>10, <3>1, <3>3
        <5>2. 0 \in Nat /\ 0 <= 0 /\ 0 <= Len(name)
          BY <1>5
        <5> QED  BY <5>1, <5>2, Beginnings
      <4>2. IF i = 1 THEN headers = <<>> /\ Len(curr.field) <= 0
            ELSE Reading(msg, i - 1, msg.headers[i - 1].value)
        BY <3>1
      <4>3. Parser!FieldName(msg.headers[i].name)
        BY <1>3, <1>9, <4>1
      <4> QED  BY <1>8, <1>17, <4>2, <4>3, NextHeader
    <3> QED  BY <1>8, <1>10, <3>2, <3>3
  <2>5. parsed' = pos[i] + m
    BY <1>4, <1>10
  <2>6. InName(msg, pos, i, m)'
    BY <1>3, <2>1, <2>2, <2>3, <2>4, <2>5 DEF InName
  <2>7. Somewhere(msg, pos)'
    BY <1>2, <2>6 DEF Somewhere
  <2> QED  BY <1>12, <1>14, <1>17, <2>7 DEF Progress
<1> QED  BY <1>16, <1>17

\* Where a header, or the end of the headers, is next: the header before it is stored
\* with the name of this one, and the last with the end.
LEMMA FromHeader ==
    ASSUME Parser!Execute, ParserTyped, ~m_isFinish, NEW msg \in Parser!Messages, NEW pos,
           NEW more, Laid(msg, pos, more, http_bytes), NEW i \in Nat, BeforeHeader(msg, pos, i)
    PROVE  ParserTyped' /\ Progress(msg, pos, more)'
<1>1. PICK n \in Nat : n = Len(msg.headers) /\ i \in 1 .. n + 1
  BY MessageTexts DEF BeforeHeader
<1>2. pos[i] \in Nat
  BY <1>1, Layout
<1>3. /\ parsed = pos[i] /\ Begun(msg)
      /\ Len(curr.field) <= IF i = 1 THEN 0 ELSE Len(msg.headers[i - 1].name)
      /\ ~nameCut => IF i = 1 THEN headers = <<>>
                     ELSE Reading(msg, i - 1, msg.headers[i - 1].value)
  BY DEF BeforeHeader
<1>4. CASE i # n + 1
  <2>1. i \in 1 .. Len(msg.headers) /\ i \in 1 .. n
    BY <1>1, <1>4
  <2>2. 0 \in Nat /\ 0 < Len(msg.headers[i].name) /\ parsed = pos[i] + 0
    <3>1. msg.headers[i].name \in Parser!Texts /\ msg.headers[i].name # <<>>
      BY <1>1, <2>1, MessageTexts
    <3> QED  BY <1>2, <1>3, <3>1 DEF Parser!Texts
  <2>3. Len(curr.field) <= 0 + (IF i = 1 THEN 0 ELSE Len(msg.headers[i - 1].name))
    <3>1. CASE i = 1
      BY <1>3, <3>1
    <3>2. CASE i # 1
      <4>1. i - 1 \in 1 .. n
        BY <2>1, <3>2
      <4>2. Len(msg.headers[i - 1].name) \in Nat
        BY <1>1, <4>1, MessageTexts DEF Parser!Texts
      <4> QED  BY <1>3, <3>2, <4>2
    <3> QED  BY <3>1, <3>2
  <2> QED  BY <1>3, <2>1, <2>2, <2>3, NameFrom
<1>5. CASE i = n + 1
  <2>1. http_bytes[parsed + 1].part = "headersEnd"
    BY <1>1, <1>3, <1>5, Layout
  <2>2. Parser!_on_Header_complate /\ ~error
    BY <2>1, Dispatch
  <2>3. /\ Parser!Ended("headersEnd")
        /\ IF curr.field # <<>> THEN Parser!setHeader(curr.field, curr.value)
           ELSE headers' = headers
        /\ curr' = curr /\ m_isFinish' = m_isFinish /\ error' = error
    BY <2>2 DEF Parser!_on_Header_complate
  <2>4. /\ parsed' = parsed + 1 /\ parsed' \in Nat /\ piece' <= parsed' /\ parsed' <= come'
        /\ come' = come /\ piece' = piece /\ nameCut' = nameCut /\ http_bytes' = http_bytes
    BY <2>3, EndsText
  <2>5. ParserTyped'
    BY <2>3, <2>4 DEF ParserTyped
  <2>6. ASSUME ~nameCut PROVE headers' = Parser!HeadersOf(msg) /\ Fits(msg, n)
    <3>1. CASE n = 0
      <4>1. i = 1
        BY <1>5, <3>1
      <4>2. curr.field = <<>>
        BY <1>3, <4>1 DEF ParserTyped, Parser!Texts
      <4>3. headers' = <<>>
        BY <1>3, <2>3, <2>6, <4>1, <4>2
      <4>4. Fits(msg, n)
        BY <3>1 DEF Fits
      <4> QED  BY <1>1, <3>1, <4>3, <4>4, HeadersAre
    <3>2. CASE n # 0
      <4>1. PICK h \in Nat : n = h + 1 /\ i - 1 = h + 1 /\ (h + 1) - 1 = h /\ h + 1 \in 1 .. n /\ i # 1
        <5>1. n - 1 \in Nat /\ n = (n - 1) + 1 /\ i - 1 = (n - 1) + 1 /\ i # 1
              /\ ((n - 1) + 1) - 1 = n - 1 /\ (n - 1) + 1 \in 1 .. n
          BY <1>5, <3>2
        <5> QED  BY <5>1
      <4>2. Reading(msg, h + 1, msg.headers[h + 1].value)
        BY <1>3, <2>6, <4>1
      <4>3. /\ curr.field = msg.headers[h + 1].name /\ curr.value = msg.headers[h + 1].value
            /\ headers = Kept(msg, Filled(msg, h)) /\ Fits(msg, h + 1)
        BY <4>1, <4>2 DEF Reading
      <4>4. msg.headers[h + 1].name # <<>>
        BY <1>1, <4>1, MessageTexts
      <4>5. Parser!setHeader(msg.headers[h + 1].name, msg.headers[h + 1].value)
        BY <2>3, <4>3, <4>4, Zenon
      <4>6. headers' = Kept(msg, Filled(msg, h) \cup {h + 1})
        BY <4>3, <4>5, SetHeader
      <4>7. Parser!HeadersOf(msg) = Kept(msg, Filled(msg, h) \cup {n})
        BY <1>1, <4>1, HeadersAre
      <4> QED  BY <4>1, <4>3, <4>6, <4>7
    <3> QED  BY <3>1, <3>2
  <2>7. InBody(msg, pos, 0)'
    <3>1. msg.body \in Parser!Texts /\ 0 \in 0 .. Len(msg.body) /\ SubSeq(msg.body, 1, 0) = <<>>
      <4>1. msg.body \in Parser!Texts
        BY MessageTexts
      <4>2. 0 \in 0 .. Len(msg.body) /\ 0 \in Nat /\ 0 <= 0 /\ 0 <= Len(msg.body)
        BY <4>1 DEF Parser!Texts
      <4> QED  BY <4>1, <4>2, Beginnings
    <3>2. parsed' = pos[Len(msg.headers) + 1] + 1 + 0
      BY <1>1, <1>2, <1>3, <1>5, <2>4
    <3>3. curr'.start = msg.start /\ msg.start \in ValidStarts /\ curr'.body = SubSeq(msg.body, 1, 0)
      BY <1>3, <2>3, <3>1 DEF Begun
    <3>4. ~nameCut' => Whole(msg)'
      BY <1>1, <2>4, <2>6 DEF Whole, Fits
    <3> QED  BY <3>1, <3>2, <3>3, <3>4 DEF InBody
  <2>8. Somewhere(msg, pos)'
    BY <2>7 DEF Somewhere
  <2> QED  BY <2>2, <2>3, <2>5, <2>8 DEF Progress
<1> QED  BY <1>4, <1>5

\* In a name, or just after it: a name that a read has cut is replaced by its rest.
LEMMA FromName ==
    ASSUME Parser!Execute, ParserTyped, ~m_isFinish, NEW msg \in Parser!Messages, NEW pos,
           NEW more, Laid(msg, pos, more, http_bytes), NEW i \in Nat, NEW k \in Nat,
           InName(msg, pos, i, k)
    PROVE  ParserTyped' /\ Progress(msg, pos, more)'
<1>1. PICK n \in Nat : n = Len(msg.headers) /\ i \in 1 .. n
  BY MessageTexts DEF InName
<1>2. PICK name \in Parser!Texts, value \in Parser!Texts :
        name = msg.headers[i].name /\ value = msg.headers[i].value
  BY <1>1, MessageTexts
<1>3. PICK q \in Nat : q = pos[i] /\ Lies(http_bytes, q, "field", name, "fieldEnd")
  <2>1. pos[i] \in Nat /\ Lies(http_bytes, pos[i], "field", name, "fieldEnd")
    BY <1>1, <1>2, Layout
  <2> QED  BY <2>1
<1>4. /\ k \in 1 .. Len(name) /\ parsed = q + k /\ Begun(msg) /\ Len(curr.field) <= k
      /\ ~nameCut => /\ piece < parsed
                     /\ k < Len(name) => parsed = come
                     /\ k = Len(name) => Reading(msg, i, <<>>)
  BY <1>2, <1>3 DEF InName
<1>5. parsed < come /\ Len(name) \in Nat /\ k <= Len(name)
  <2>1. Len(name) \in Nat
    BY DEF Parser!Texts
  <2>2. parsed < come
    BY Dispatch
  <2> QED  BY <1>4, <2>1, <2>2
<1>6. CASE k < Len(name)
  <2>1. nameCut
    BY <1>4, <1>5, <1>6 DEF ParserTyped
  <2>2. Len(curr.field) <= k + (IF i = 1 THEN 0 ELSE Len(msg.headers[i - 1].name))
    <3>1. Len(curr.field) \in Nat
      BY DEF ParserTyped, Parser!Texts
    <3>2. i # 1 => i - 1 \in 1 .. n
      BY <1>1
    <3>3. PICK b \in Nat : b = (IF i = 1 THEN 0 ELSE Len(msg.headers[i - 1].name))
      BY <1>1, <3>2, TextLengths
    <3>4. Len(curr.field) <= k + b
      BY <1>4, <3>1
    <3> QED  BY <3>3, <3>4
  <2>3. i \in 1 .. Len(msg.headers) /\ k < Len(msg.headers[i].name) /\ parsed = pos[i] + k
    BY <1>1, <1>2, <1>3, <1>4, <1>6
  <2> QED  BY <1>4, <2>1, <2>2, <2>3, NameFrom
<1>7. CASE k = Len(name)
  <2>1. http_bytes[parsed + 1].part = "fieldEnd"
    <3>1. http_bytes[parsed + 1].part = IF k < Len(name) THEN "field" ELSE "fieldEnd"
      BY <1>3, <1>4, <1>5, NextByte
    <3> QED  BY <1>5, <1>7, <3>1
  <2>2. Parser!FieldEnd /\ ~error
    BY <2>1, Dispatch
  <2>3. /\ Parser!Ended("fieldEnd") /\ m_isFinish' = m_isFinish
        /\ IF parsed = piece THEN Parser!FieldName(<<>>)
           ELSE curr' = curr /\ headers' = headers /\ error' = error
    BY <2>2 DEF Parser!FieldEnd
  <2>4. /\ parsed' = parsed + 1 /\ parsed' \in Nat /\ piece' <= parsed' /\ parsed' <= come'
        /\ come' = come /\ piece' = piece /\ nameCut' = nameCut /\ http_bytes' = http_bytes
    BY <2>3, EndsText
  <2>5. /\ 0 \in 0 .. Len(msg.headers[i].value) /\ SubSeq(msg.headers[i].value, 1, 0) = <<>>
        /\ parsed' = pos[i] + Len(msg.headers[i].name) + 1 + 0 /\ <<>> \in Parser!Texts
        /\ Len(<<>>) = 0
    <3>1. 0 \in Nat /\ 0 <= 0 /\ 0 <= Len(value)
      BY DEF Parser!Texts
    <3>2. SubSeq(value, 1, 0) = <<>>
      BY <3>1, Beginnings
    <3>3. parsed' = q + Len(name) + 1 + 0
      BY <1>4, <1>5, <1>7, <2>4
    <3>4. 0 \in 0 .. Len(value)
      BY DEF Parser!Texts
    <3> QED  BY <1>2, <1>3, <3>2, <3>3, <3>4 DEF Parser!Texts
  <2>6. CASE parsed = piece
    <3>1. nameCut
      BY <1>4, <2>6 DEF ParserTyped
    <3>2. /\ error' \in BOOLEAN /\ (error' <=> Len(curr.field) + Len(<<>>) > MaxName)
          /\ curr' \in [start : Parser!Texts, field : Parser!Texts, value : Parser!Texts,
                        body : Parser!Texts]
          /\ ~error' => /\ curr'.start = curr.start /\ curr'.body = curr.body
                        /\ curr'.field = <<>>
      BY <2>2, <2>3, <2>5, <2>6, NameTaken
    <3>3. ParserTyped'
      BY <2>3, <2>4, <3>2 DEF ParserTyped
    <3>4. CASE error'
      <4>1. Len(curr.field) + Len(<<>>) > MaxName
        BY <3>2, <3>4, Zenon
      <4>2. PICK b \in Nat : b = (IF i > 1 THEN Len(msg.headers[i - 1].name) ELSE 0)
        <5>1. i > 1 => i - 1 \in 1 .. n
          BY <1>1
        <5>2. i > 1 => Len(msg.headers[i - 1].name) \in Nat
          BY <1>1, <5>1, TextLengths
        <5> QED  BY <5>2
      <4>3. ~(Len(name) + b <= MaxName)
        <5>1. Len(curr.field) \in Nat /\ MaxName \in Nat
          BY ServicesAssumption DEF ParserTyped, Parser!Texts, Parser!ParserAssumption
        <5> QED  BY <1>4, <1>5, <1>7, <2>5, <4>1, <5>1
      <4>4. ~Fits(msg, n)
        BY <1>1, <1>2, <4>2, <4>3, Zenon DEF Fits
      <4>5. Refused(msg)'
        BY <1>1, <4>4 DEF Refused, Fits
      <4> QED  BY <2>3, <3>3, <3>4, <4>5 DEF Progress
    <3>5. CASE ~error'
      <4>1. Begun(msg)' /\ Len(curr'.field) <= Len(msg.headers[i].name) /\ nameCut'
        BY <1>2, <1>4, <1>5, <2>4, <2>5, <3>1, <3>2, <3>5 DEF Begun
      <4>2. InValue(msg, pos, i, 0)'
        BY <1>1, <2>5, <4>1 DEF InValue
      <4>3. Somewhere(msg, pos)'
        BY <4>2 DEF Somewhere
      <4> QED  BY <2>3, <3>3, <3>5, <4>3 DEF Progress
    <3> QED  BY <3>4, <3>5
  <2>7. CASE parsed # piece
    <3>1. curr' = curr /\ headers' = headers /\ error' = error
      BY <2>3, <2>7
    <3>2. ParserTyped'
      BY <2>3, <2>4, <3>1 DEF ParserTyped
    <3>3. Begun(msg)' /\ Len(curr'.field) <= Len(msg.headers[i].name)
      BY <1>2, <1>4, <1>7, <3>1 DEF Begun
    <3>4. ~nameCut' => Reading(msg, i, SubSeq(msg.headers[i].value, 1, 0))'
      BY <1>4, <1>7, <2>4, <2>5, <3>1 DEF Reading, Fits
    <3>5. InValue(msg, pos, i, 0)'
      BY <1>1, <2>5, <3>3, <3>4 DEF InValue
    <3>6. Somewhere(msg, pos)'
      BY <3>5 DEF Somewhere
    <3> QED  BY <2>2, <2>3, <3>1, <3>2, <3>6 DEF Progress
  <2> QED  BY <2>6, <2>7
<1> QED  BY <1>4, <1>5, <1>6, <1>7

\* In a value.
LEMMA FromValue ==
    ASSUME Parser!Execute, ParserTyped, ~m_isFinish, NEW msg \in Parser!Messages, NEW pos,
           NEW more, Laid(msg, pos, more, http_bytes), NEW i \in Nat, NEW k \in Nat,
           InValue(msg, pos, i, k)
    PROVE  ParserTyped' /\ Progress(msg, pos, more)'
<1>1. PICK n \in Nat : n = Len(msg.headers) /\ i \in 1 .. n
  BY MessageTexts DEF InValue
<1>2. PICK value \in Parser!Texts : value = msg.headers[i].value
  BY <1>1, MessageTexts
<1>3. PICK q \in Nat : /\ q = pos[i] + Len(msg.headers[i].name) + 1
                       /\ Lies(http_bytes, q, "value", value, "valueEnd")
                       /\ pos[i + 1] = q + Len(value) + 1
  <2>1. /\ pos[i] \in Nat
        /\ Lies(http_bytes, pos[i] + Len(msg.headers[i].name) + 1, "value", value, "valueEnd")
        /\ pos[i + 1] = pos[i] + Len(msg.headers[i].name) + Len(value) + 2
    <3>1. i \in 1 .. n + 1
      BY <1>1
    <3> QED  BY <1>1, <1>2, <3>1, Layout
  <2>2. Len(msg.headers[i].name) \in Nat /\ Len(value) \in Nat
    BY <1>1, <1>2, TextLengths
  <2>3. /\ pos[i] + Len(msg.headers[i].name) + 1 \in Nat
        /\ pos[i + 1] = (pos[i] + Len(msg.headers[i].name) + 1) + Len(value) + 1
    <3>1. PICK a \in Nat, b \in Nat, c \in Nat :
            a = pos[i] /\ b = Len(msg.headers[i].name) /\ c = Len(value)
      BY <2>1, <2>2
    <3>2. pos[i + 1] = a + b + c + 2
      BY <2>1, <3>1
    <3>3. a + b + 1 \in Nat /\ pos[i + 1] = (a + b + 1) + c + 1
      BY <3>2
    <3> QED  BY <3>1, <3>3
  <2> QED  BY <2>1, <2>3
<1>4. /\ k \in 0 .. Len(value) /\ parsed = q + k /\ Begun(msg)
      /\ Len(curr.field) <= Len(msg.headers[i].name)
      /\ ~nameCut => Reading(msg, i, SubSeq(value, 1, k))
  BY <1>2, <1>3 DEF InValue
<1>5. Len(value) \in Nat /\ k <= Len(value)
  <2>1. Len(value) \in Nat
    BY DEF Parser!Texts
  <2> QED  BY <1>4, <2>1
<1>6. CASE k < Len(value)
  <2>1. Advances("value", q, k, value) /\ ParserTyped'
    <3>1. "valueEnd" # "value" /\ "value" \in {"start", "value", "body"}
      OBVIOUS
    <3> QED  BY <1>3, <1>4, <1>6, <3>1, MoreOf
  <2>2. PICK m \in Nat :
          /\ k < m /\ m <= Len(value) /\ parsed' = q + m
          /\ curr.value = SubSeq(value, 1, k) => curr'.value = SubSeq(value, 1, m)
    BY <2>1 DEF Advances
  <2>3. /\ error' = FALSE /\ m_isFinish' = m_isFinish /\ nameCut' = nameCut /\ headers' = headers
        /\ curr'.start = curr.start /\ curr'.field = curr.field /\ curr'.body = curr.body
    BY <2>1 DEF Advances
  <2>4. Begun(msg)' /\ Len(curr'.field) <= Len(msg.headers[i].name)
    BY <1>4, <2>3 DEF Begun
  <2>5. ~nameCut' => Reading(msg, i, SubSeq(value, 1, m))'
    BY <1>4, <2>2, <2>3 DEF Reading, Fits
  <2>6. m \in 0 .. Len(value)
    BY <1>5, <2>2
  <2>7. InValue(msg, pos, i, m)'
    BY <1>1, <1>2, <1>3, <2>2, <2>4, <2>5, <2>6 DEF InValue
  <2>8. Somewhere(msg, pos)'
    BY <2>7 DEF Somewhere
  <2> QED  BY <2>1, <2>3, <2>8 DEF Progress
<1>7. CASE k = Len(value)
  <2>1. http_bytes[parsed + 1].part = "valueEnd"
    <3>1. http_bytes[parsed + 1].part = IF k < Len(value) THEN "value" ELSE "valueEnd"
      BY <1>3, <1>4, <1>5, NextByte
    <3> QED  BY <1>5, <1>7, <3>1
  <2>2. Parser!ValueEnd /\ ~error
    BY <2>1, Dispatch
  <2>3. /\ Parser!Ended("valueEnd") /\ m_isFinish' = m_isFinish
        /\ curr' = curr /\ headers' = headers /\ error' = error
    BY <2>2 DEF Parser!ValueEnd
  <2>4. /\ parsed' = parsed + 1 /\ parsed' \in Nat /\ piece' <= parsed' /\ parsed' <= come'
        /\ come' = come /\ piece' = piece /\ nameCut' = nameCut /\ http_bytes' = http_bytes
    BY <2>3, EndsText
  <2>5. ParserTyped'
    BY <2>3, <2>4 DEF ParserTyped
  <2>6. i + 1 \in 1 .. Len(msg.headers) + 1 /\ (i + 1) - 1 = i /\ i + 1 # 1
    BY <1>1
  <2>7. parsed' = pos[i + 1]
    BY <1>3, <1>4, <1>5, <1>7, <2>4
  <2>8. Begun(msg)' /\ Len(curr'.field) <= Len(msg.headers[i].name)
    BY <1>4, <2>3 DEF Begun
  <2>9. ~nameCut' => Reading(msg, i, value)'
    <3>1. 0 \in Nat /\ 0 <= 0 /\ 0 <= Len(value)
      BY <1>5
    <3>2. SubSeq(value, 1, k) = value
      BY <1>7, <3>1, Beginnings
    <3> QED  BY <1>4, <2>3, <2>4, <3>2 DEF Reading, Fits
  <2>10. BeforeHeader(msg, pos, i + 1)'
    BY <1>2, <2>6, <2>7, <2>8, <2>9 DEF BeforeHeader
  <2>11. i + 1 \in Nat
    OBVIOUS
  <2>12. Somewhere(msg, pos)'
    BY <2>10, <2>11 DEF Somewhere
  <2> QED  BY <2>2, <2>3, <2>5, <2>12 DEF Progress
<1> QED  BY <1>5, <1>6, <1>7

\* In the body, or at the end of the message.
LEMMA FromBody ==
    ASSUME Parser!Execute, ParserTyped, ~m_isFinish, NEW msg \in Parser!Messages, NEW pos,
           NEW more, Laid(msg, pos, more, http_bytes), NEW k \in Nat, InBody(msg, pos, k)
    PROVE  ParserTyped' /\ Progress(msg, pos, more)'
<1>1. PICK n \in Nat : n = Len(msg.headers)
  BY MessageTexts
<1>2. PICK word \in Parser!Texts : word = msg.body
  BY MessageTexts
<1>3. PICK q \in Nat : /\ q = pos[n + 1] + 1 /\ Lies(http_bytes, q, "body", word, "messageEnd")
                       /\ Ends(msg, pos) = q + Len(word) + 1
  <2>1. n + 1 \in 1 .. n + 1
    OBVIOUS
  <2>2. /\ pos[n + 1] \in Nat /\ Lies(http_bytes, pos[n + 1] + 1, "body", word, "messageEnd")
        /\ Ends(msg, pos) = pos[n + 1] + Len(word) + 2
    BY <1>1, <1>2, <2>1, Layout
  <2>3. pos[n + 1] + 1 \in Nat /\ Ends(msg, pos) = (pos[n + 1] + 1) + Len(word) + 1
    <3>1. \A a, b \in Nat : a + 1 \in Nat /\ a + b + 2 = (a + 1) + b + 1
      OBVIOUS
    <3>2. Len(word) \in Nat
      BY <1>2, TextLengths
    <3> QED  BY <2>2, <3>1, <3>2, Zenon
  <2> QED  BY <2>2, <2>3
<1>4. /\ k \in 0 .. Len(word) /\ parsed = q + k
      /\ curr.start = msg.start /\ msg.start \in ValidStarts /\ curr.body = SubSeq(word, 1, k)
      /\ ~nameCut => Whole(msg)
  BY <1>1, <1>2, <1>3 DEF InBody
<1>5. Len(word) \in Nat /\ k <= Len(word)
  <2>1. Len(word) \in Nat
    BY DEF Parser!Texts
  <2> QED  BY <1>4, <2>1
<1>6. CASE k < Len(word)
  <2>1. Advances("body", q, k, word) /\ ParserTyped'
    <3>1. "messageEnd" # "body" /\ "body" \in {"start", "value", "body"}
      OBVIOUS
    <3> QED  BY <1>3, <1>4, <1>6, <3>1, MoreOf
  <2>2. PICK m \in Nat : m <= Len(word) /\ parsed' = q + m /\ curr'.body = SubSeq(word, 1, m)
    BY <1>4, <2>1 DEF Advances
  <2>3. /\ error' = FALSE /\ m_isFinish' = m_isFinish /\ nameCut' = nameCut /\ headers' = headers
        /\ curr'.start = curr.start
    BY <2>1 DEF Advances
  <2>4. ~nameCut' => Whole(msg)'
    BY <1>4, <2>3 DEF Whole, Fits
  <2>5. m \in 0 .. Len(word)
    BY <1>5, <2>2
  <2>6. InBody(msg, pos, m)'
    BY <1>1, <1>2, <1>3, <1>4, <2>2, <2>3, <2>4, <2>5 DEF InBody
  <2>7. Somewhere(msg, pos)'
    BY <2>6 DEF Somewhere
  <2> QED  BY <2>1, <2>3, <2>7 DEF Progress
<1>7. CASE k = Len(word)
  <2>1. http_bytes[parsed + 1].part = "messageEnd"
    <3>1. http_bytes[parsed + 1].part = IF k < Len(word) THEN "body" ELSE "messageEnd"
      BY <1>3, <1>4, <1>5, NextByte
    <3> QED  BY <1>5, <1>7, <3>1
  <2>2. Parser!_on_Message_complate /\ ~error
    BY <2>1, Dispatch
  <2>3. /\ Parser!Ended("messageEnd") /\ http_body' = curr.body /\ m_isFinish' = TRUE
        /\ curr' = IF http.kind = "response" THEN [curr EXCEPT !.body = <<>>] ELSE curr
        /\ headers' = headers /\ error' = error
    BY <2>2 DEF Parser!_on_Message_complate
  <2>4. /\ parsed' = parsed + 1 /\ parsed' \in Nat /\ piece' <= parsed' /\ parsed' <= come'
        /\ come' = come /\ piece' = piece /\ nameCut' = nameCut /\ http_bytes' = http_bytes
    BY <2>3, EndsText
  <2>5. /\ curr' \in [start : Parser!Texts, field : Parser!Texts, value : Parser!Texts,
                      body : Parser!Texts]
        /\ curr'.start = curr.start
    <3>1. <<>> \in Parser!Texts
      BY DEF Parser!Texts
    <3> QED  BY <2>3, <3>1 DEF ParserTyped
  <2>6. ParserTyped'
    BY <2>3, <2>4, <2>5 DEF ParserTyped
  <2>7. parsed' = Ends(msg, pos) + 0 /\ Ends(msg, pos) <= parsed'
    <3>1. PICK l \in Nat : l = Len(word)
      BY <1>5
    <3>2. parsed = q + l /\ Ends(msg, pos) = q + l + 1
      BY <1>3, <1>4, <1>7, <3>1
    <3> QED  BY <2>4, <3>2
  <2>8. http_body' = msg.body
    <3>1. 0 \in Nat /\ 0 <= 0 /\ 0 <= Len(word)
      BY <1>5
    <3>2. SubSeq(word, 1, k) = word
      BY <1>7, <3>1, Beginnings
    <3> QED  BY <1>2, <1>4, <2>3, <3>2
  <2>9. ~nameCut' => Whole(msg)'
    BY <1>4, <2>3, <2>4 DEF Whole, Fits
  <2>10. 0 \in 0 .. Len(more) /\ curr'.start = msg.start \o SubSeq(more, 1, 0)
    <3>1. more \in Parser!Texts
      BY DEF Laid
    <3>2. 0 \in Nat /\ 0 <= 0 /\ 0 <= Len(more) /\ 0 \in 0 .. Len(more)
      BY <3>1 DEF Parser!Texts
    <3>3. SubSeq(more, 1, 0) = <<>>
      BY <3>1, <3>2, Beginnings
    <3>4. \A text \in Parser!Texts : text \o <<>> = text
      BY DEF Parser!Texts
    <3>5. msg.start \o <<>> = msg.start
      BY <3>4, MessageTexts
    <3> QED  BY <1>4, <2>5, <3>2, <3>3, <3>5, Zenon
  <2>11. Complete(msg, pos, more)'
    BY <1>4, <2>2, <2>3, <2>7, <2>8, <2>9, <2>10 DEF Complete
  <2> QED  BY <2>3, <2>6, <2>11 DEF Progress
<1> QED  BY <1>5, <1>6, <1>7

\* What follows the start of a message makes it another that is not known.
LEMMA StartsApart ==
    ASSUME NEW start \in ValidStarts, NEW more \in Parser!Texts, more # <<>>
    PROVE  start \o more \notin ValidStarts
<1>1. SUFFICES ASSUME start \o more \in ValidStarts PROVE FALSE
  OBVIOUS
<1>2. start \in Seq(Chars) /\ more \in Seq(Chars)
  BY ServicesAssumption DEF Parser!ParserAssumption, Parser!Texts
<1>3. PICK longer \in Seq(Chars) : longer = start \o more
  <2>1. start \o more \in Seq(Chars)
    BY <1>2
  <2> QED  BY <2>1
<1>4. /\ Len(start) <= Len(longer) /\ SubSeq(longer, 1, Len(start)) = start
      /\ SubSeq(start, 1, Len(start)) = start /\ Len(longer) > Len(start)
  <2>1. /\ Len(longer) = Len(start) + Len(more) /\ Len(start) \in Nat /\ Len(more) \in Nat \ {0}
        /\ \A j \in 1 .. Len(start) : longer[j] = start[j]
    BY <1>2, <1>3
  <2>2. SubSeq(longer, 1, Len(start)) = start
    BY <1>2, <2>1
  <2>3. SubSeq(start, 1, Len(start)) = start
    BY <1>2
  <2> QED  BY <2>1, <2>2, <2>3
<1>5. Parser!IsPrefix(start, longer)
  BY <1>4 DEF Parser!IsPrefix
<1>6. start = longer
  BY <1>1, <1>3, <1>5, ServicesAssumption DEF Parser!ParserAssumption
<1> QED  BY <1>2, <1>4, <1>6

\* Behind the message: what follows of a next one is an error as soon as its start
\* has come, for the parser has not forgotten the start of the first.
LEMMA FromComplete ==
    ASSUME Parser!Execute, ParserTyped, m_isFinish, NEW msg \in Parser!Messages, NEW pos,
           NEW more, Laid(msg, pos, more, http_bytes), Complete(msg, pos, more)
    PROVE  ParserTyped' /\ Progress(msg, pos, more)'
<1>1. /\ more \in Parser!Texts
      /\ more = <<>> => Len(http_bytes) = Ends(msg, pos)
      /\ more # <<>> => Lies(http_bytes, Ends(msg, pos), "start", more, "startEnd")
  BY DEF Laid
<1>2. parsed < come /\ ~error
  BY Dispatch
<1>3. PICK q \in Nat : q = Ends(msg, pos)
  <2>1. PICK n \in Nat : n = Len(msg.headers)
    BY MessageTexts
  <2>2. n + 1 \in 1 .. n + 1
    OBVIOUS
  <2>3. pos[n + 1] \in Nat /\ Ends(msg, pos) = pos[n + 1] + Len(msg.body) + 2
    BY <2>1, <2>2, Layout
  <2> QED  BY <2>3, TextLengths
<1>4. Len(more) \in Nat
  BY <1>1 DEF Parser!Texts
<1>5. PICK k \in Nat : /\ k <= Len(more) /\ parsed = q + k
                       /\ curr.start = msg.start \o SubSeq(more, 1, k)
  <2>1. \E k \in 0 .. Len(more) : /\ parsed = Ends(msg, pos) + k
                                  /\ curr.start = msg.start \o SubSeq(more, 1, k)
    BY <1>2 DEF Complete
  <2>2. \A k \in 0 .. Len(more) : k \in Nat /\ k <= Len(more)
    BY <1>4
  <2> QED  BY <1>3, <2>1, <2>2, Zenon
<1>6. /\ msg.start \in ValidStarts /\ http_body = msg.body
      /\ ~nameCut => Whole(msg)
  BY DEF Complete
<1>7. more # <<>>
  BY <1>1, <1>2, <1>3, <1>5 DEF ParserTyped
<1>8. Lies(http_bytes, q, "start", more, "startEnd")
  BY <1>1, <1>3, <1>7
<1>9. CASE k < Len(more)
  <2>1. Advances("start", q, k, more) /\ ParserTyped'
    <3>1. "startEnd" # "start" /\ "start" \in {"start", "value", "body"}
      OBVIOUS
    <3> QED  BY <1>1, <1>5, <1>8, <1>9, <3>1, MoreOf
  <2>2. msg.start \in Parser!Texts
    BY MessageTexts
  <2>3. PICK m \in Nat :
          /\ m <= Len(more) /\ parsed' = q + m
          /\ \A first \in Parser!Texts :
              curr.start = first \o SubSeq(more, 1, k) => curr'.start = first \o SubSeq(more, 1, m)
    BY <2>1 DEF Advances
  <2>4. curr'.start = msg.start \o SubSeq(more, 1, m)
    BY <1>5, <2>2, <2>3, Zenon
  <2>5. /\ error' = FALSE /\ m_isFinish' = m_isFinish /\ nameCut' = nameCut /\ headers' = headers
        /\ http_body' = http_body
    BY <2>1 DEF Advances
  <2>6. ~nameCut' => Whole(msg)'
    BY <1>6, <2>5 DEF Whole, Fits
  <2>7. /\ Ends(msg, pos) <= parsed' /\ m \in 0 .. Len(more) /\ parsed' = Ends(msg, pos) + m
    BY <1>3, <1>4, <2>3
  <2>8. Complete(msg, pos, more)'
    BY <1>6, <2>4, <2>5, <2>6, <2>7, Zenon DEF Complete
  <2> QED  BY <2>1, <2>5, <2>8 DEF Progress
<1>10. CASE k = Len(more)
  <2>1. http_bytes[parsed + 1].part = "startEnd"
    <3>1. http_bytes[parsed + 1].part = IF k < Len(more) THEN "start" ELSE "startEnd"
      BY <1>1, <1>5, <1>8, NextByte
    <3> QED  BY <1>4, <1>10, <3>1
  <2>2. Parser!StartEnd
    BY <2>1, Dispatch
  <2>3. /\ Parser!Ended("startEnd") /\ error' = (curr.start \notin ValidStarts)
        /\ curr' = curr /\ headers' = headers /\ m_isFinish' = m_isFinish /\ http_body' = http_body
    BY <2>2 DEF Parser!StartEnd
  <2>4. /\ parsed' = parsed + 1 /\ parsed' \in Nat /\ piece' <= parsed' /\ parsed' <= come'
        /\ come' = come /\ piece' = piece /\ nameCut' = nameCut /\ http_bytes' = http_bytes
    BY <2>3, EndsText
  <2>5. ParserTyped'
    BY <2>3, <2>4 DEF ParserTyped
  <2>6. error'
    <3>1. 0 \in Nat /\ 0 <= 0 /\ 0 <= Len(more)
      BY <1>4
    <3>2. SubSeq(more, 1, k) = more
      BY <1>1, <1>10, <3>1, Beginnings
    <3>3. msg.start \o more \notin ValidStarts
      BY <1>1, <1>6, <1>7, StartsApart
    <3>4. curr.start = msg.start \o more
      BY <1>5, <3>2, Zenon
    <3> QED  BY <2>3, <3>3, <3>4, Zenon
  <2>7. Ends(msg, pos) <= parsed' /\ Ends(msg, pos) < parsed'
    BY <1>3, <1>5, <2>4
  <2>8. ~nameCut' => Whole(msg)'
    BY <1>6, <2>3, <2>4 DEF Whole, Fits
  <2>9. Complete(msg, pos, more)'
    BY <1>6, <2>3, <2>6, <2>7, <2>8, Zenon DEF Complete
  <2> QED  BY <2>3, <2>5, <2>9 DEF Progress
<1> QED  BY <1>4, <1>5, <1>9, <1>10

\* An execution leaves the message at a place where it ends.
LEMMA ExecuteKeeps ==
    ASSUME Parser!Execute, ParserTyped, NEW msg \in Parser!Messages, NEW pos, NEW more,
           Laid(msg, pos, more, http_bytes), Progress(msg, pos, more)
    PROVE  ParserTyped' /\ Progress(msg, pos, more)'
<1>1. CASE m_isFinish
  BY <1>1, FromComplete DEF Progress
<1>2. CASE ~m_isFinish
  <2>1. Somewhere(msg, pos)
    <3>1. ~error
      BY Dispatch
    <3> QED  BY <1>2, <3>1 DEF Progress
  <2>2. ASSUME NEW k \in Nat, InStart(msg, k) PROVE ParserTyped' /\ Progress(msg, pos, more)'
    BY <1>2, <2>2, FromStart
  <2>3. ASSUME NEW k \in Nat, InBody(msg, pos, k) PROVE ParserTyped' /\ Progress(msg, pos, more)'
    BY <1>2, <2>3, FromBody
  <2>4. ASSUME NEW i \in Nat, BeforeHeader(msg, pos, i)
        PROVE  ParserTyped' /\ Progress(msg, pos, more)'
    BY <1>2, <2>4, FromHeader
  <2>5. ASSUME NEW i \in Nat, NEW k \in Nat, InName(msg, pos, i, k)
        PROVE  ParserTyped' /\ Progress(msg, pos, more)'
    BY <1>2, <2>5, FromName
  <2>6. ASSUME NEW i \in Nat, NEW k \in Nat, InValue(msg, pos, i, k)
        PROVE  ParserTyped' /\ Progress(msg, pos, more)'
    BY <1>2, <2>6, FromValue
  <2> QED  BY <2>1, <2>2, <2>3, <2>4, <2>5, <2>6 DEF Somewhere
<1> QED  BY <1>1, <1>2

\* The next read, or none: a read that cuts a name is remembered.
LEMMA PlaceStays ==
    ASSUME NEW msg \in Parser!Messages, NEW pos, NEW more, Laid(msg, pos, more, http_bytes),
           UNCHANGED <<http_bytes, parsed, curr, headers>>, nameCut => nameCut',
           \/ UNCHANGED <<come, piece, nameCut>>
           \/ parsed > 0 /\ http_bytes[parsed].part = "field" => nameCut',
           Somewhere(msg, pos)
    PROVE  Somewhere(msg, pos)'
<1>1. ASSUME NEW k \in Nat, InStart(msg, k) PROVE InStart(msg, k)'
  BY <1>1 DEF InStart
<1>2. ASSUME NEW k \in Nat, InBody(msg, pos, k) PROVE InBody(msg, pos, k)'
  <2>1. Whole(msg) => Whole(msg)'
    BY DEF Whole, Fits
  <2> QED  BY <1>2, <2>1 DEF InBody
<1>3. ASSUME NEW i, NEW word, Reading(msg, i, word) PROVE Reading(msg, i, word)'
  BY <1>3 DEF Reading, Fits
<1>4. Begun(msg) => Begun(msg)'
  BY DEF Begun
<1>5. ASSUME NEW i \in Nat, BeforeHeader(msg, pos, i) PROVE BeforeHeader(msg, pos, i)'
  BY <1>3, <1>4, <1>5 DEF BeforeHeader
<1>6. ASSUME NEW i \in Nat, NEW k \in Nat, InValue(msg, pos, i, k)
      PROVE  InValue(msg, pos, i, k)'
  BY <1>3, <1>4, <1>6 DEF InValue
<1>7. ASSUME NEW i \in Nat, NEW k \in Nat, InName(msg, pos, i, k)
      PROVE  InName(msg, pos, i, k)'
  <2>1. parsed > 0 /\ http_bytes[parsed].part = "field"
    <3>1. PICK n \in Nat : n = Len(msg.headers) /\ i \in 1 .. n
      BY <1>7, MessageTexts DEF InName
    <3>2. i \in 1 .. n + 1
      BY <3>1
    <3>3. pos[i] \in Nat
      BY <3>1, <3>2, Layout
    <3>4. parsed = pos[i] + k /\ k >= 1 /\ http_bytes[parsed].part = "field"
      BY <1>7 DEF InName
    <3> QED  BY <3>3, <3>4
  <2>2. CASE nameCut'
    BY <1>4, <1>7, <2>2 DEF InName
  <2>3. CASE UNCHANGED <<come, piece, nameCut>>
    BY <1>3, <1>4, <1>7, <2>3 DEF InName
  <2> QED  BY <2>1, <2>2, <2>3
<1> QED  BY <1>1, <1>2, <1>5, <1>6, <1>7 DEF Somewhere

\* A result that is returned leaves the parser where it is.
LEMMA ProgressStays ==
    ASSUME NEW msg \in Parser!Messages, NEW pos, NEW more, Laid(msg, pos, more, http_bytes),
           UNCHANGED <<http_bytes, come, parsed, piece, curr, headers, http_body, m_isFinish,
                       error, nameCut>>,
           Progress(msg, pos, more)
    PROVE  Progress(msg, pos, more)'
<1>1. Somewhere(msg, pos) => Somewhere(msg, pos)'
  BY PlaceStays
<1>2. Refused(msg) => Refused(msg)'
  BY DEF Refused, Fits
<1>3. Complete(msg, pos, more) => Complete(msg, pos, more)'
  <2>1. Whole(msg) => Whole(msg)'
    BY DEF Whole, Fits
  <2> QED  BY <2>1 DEF Complete
<1> QED  BY <1>1, <1>2, <1>3 DEF Progress

\* Every step of the parser keeps the invariant.
LEMMA NextParser ==
    ASSUME ParserInv, [Parser!Next]_parserVars
    PROVE  ParserInv'
<1>1. /\ ParserTyped /\ Returned /\ http_bytes \in Seq(AllBytes)
      /\ http.messages \in Seq(Parser!Messages) /\ http.messages # <<>>
  BY DEF ParserInv
<1>2. PICK pos, more : /\ Laid(Parser!First, pos, more, http_bytes)
                       /\ Progress(Parser!First, pos, more)
  BY DEF ParserInv
<1>3. PICK msg \in Parser!Messages : msg = Parser!First
  BY <1>1 DEF Parser!First
<1>4. ASSUME ParserTyped', Returned', http' = http, http_bytes' = http_bytes,
             Progress(msg, pos, more)'
      PROVE  ParserInv'
  <2>1. Parser!First' = msg
    BY <1>3, <1>4 DEF Parser!First
  <2>2. Laid(msg, pos, more, http_bytes)' /\ Progress(msg, pos, more)'
    BY <1>2, <1>3, <1>4
  <2>3. (Laid(Parser!First, pos, more, http_bytes) /\ Progress(Parser!First, pos, more))'
    BY <2>1, <2>2
  <2> QED  BY <1>1, <1>4, <2>3 DEF ParserInv
<1>5. CASE Parser!Execute
  <2>1. ParserTyped' /\ Progress(msg, pos, more)'
    BY <1>1, <1>2, <1>3, <1>5, ExecuteKeeps
  <2>2. http' = http /\ http_bytes' = http_bytes /\ outcome' = "none"
    BY <1>5, Dispatch
  <2>3. Returned'
    BY <2>2 DEF Returned
  <2> QED  BY <1>4, <2>1, <2>2, <2>3
<1>6. ASSUME NEW n \in 1 .. Len(http_bytes), Parser!Read(n) PROVE ParserInv'
  <2>1. /\ outcome = "none" /\ parsed = come /\ ~error /\ ~m_isFinish
        /\ come + n <= Len(http_bytes) /\ come' = come + n /\ piece' = come
        /\ nameCut' = (nameCut \/ (come > 0 /\ http_bytes[come].part = "field"))
        /\ UNCHANGED <<http, http_bytes, parsed, curr, headers, http_body, m_isFinish, error,
                       outcome>>
    BY <1>6 DEF Parser!Read, Parser!Executed, Parser!Part
  <2>2. ParserTyped'
    <3>1. n \in Nat /\ come \in Nat
      BY <1>1 DEF ParserTyped
    <3>2. come' \in Nat /\ piece' \in Nat /\ piece' <= parsed' /\ parsed' <= come'
          /\ come' <= Len(http_bytes') /\ nameCut' \in BOOLEAN
      BY <1>1, <2>1, <3>1 DEF ParserTyped
    <3> QED  BY <1>1, <2>1, <3>2 DEF ParserTyped
  <2>3. Returned'
    BY <2>1 DEF Returned
  <2>4. Somewhere(msg, pos)
    BY <1>2, <1>3, <2>1 DEF Progress
  <2>5. Somewhere(msg, pos)'
    <3>1. nameCut => nameCut'
      BY <2>1
    <3>2. parsed > 0 /\ http_bytes[parsed].part = "field" => nameCut'
      BY <2>1
    <3> QED  BY <1>2, <1>3, <2>1, <2>4, <3>1, <3>2, PlaceStays
  <2>6. Progress(msg, pos, more)'
    BY <2>1, <2>5 DEF Progress
  <2> QED  BY <1>4, <2>1, <2>2, <2>3, <2>6
<1>7. ASSUME UNCHANGED <<http, http_bytes, come, parsed, piece, curr, headers, http_body,
                         m_isFinish, error, nameCut>>,
             Returned'
      PROVE  ParserInv'
  <2>1. ParserTyped'
    BY <1>1, <1>7 DEF ParserTyped
  <2>2. Progress(msg, pos, more)'
    BY <1>2, <1>3, <1>7, ProgressStays
  <2> QED  BY <1>4, <1>7, <2>1, <2>2
<1>8. CASE Parser!Judge
  BY <1>7, <1>8 DEF Parser!Judge, Parser!Returns, Returned
<1>9. CASE Parser!Closed
  BY <1>7, <1>9 DEF Parser!Closed, Parser!Returns, Returned
<1>10. CASE UNCHANGED parserVars
  BY <1>1, <1>7, <1>10 DEF parserVars, Returned
<1> QED  BY <1>5, <1>6, <1>8, <1>9, <1>10 DEF Parser!Next

\* Nothing has come.
LEMMA InitParser == ASSUME Parser!Init PROVE ParserInv
<1>1. http \in [kind : {"request", "response"}, messages : Seq(Parser!Messages) \ {<<>>}]
  BY ServicesAssumption DEF Parser!Init, Parser!ParserAssumption
<1>2. PICK ms \in Seq(Parser!Messages) : ms = http.messages /\ ms # <<>>
  BY <1>1
<1>3. /\ http_bytes = Parser!FlattenSeq([i \in DOMAIN ms |-> Parser!Written(ms[i])])
      /\ come = 0 /\ parsed = 0 /\ piece = 0 /\ curr = Parser!NoText /\ headers = <<>>
      /\ m_isFinish = FALSE /\ error = FALSE /\ outcome = "none" /\ nameCut = FALSE
  BY <1>2 DEF Parser!Init
<1>4. http_bytes \in Seq(AllBytes) /\ \E pos, more : Laid(ms[1], pos, more, http_bytes)
  BY <1>2, <1>3, StreamLaid
<1>5. PICK pos, more : Laid(ms[1], pos, more, http_bytes)
  BY <1>4
<1>6. PICK msg \in Parser!Messages : msg = ms[1] /\ msg = Parser!First
  BY <1>2 DEF Parser!First
<1>7. ParserTyped
  <2>1. <<>> \in Parser!Texts
    BY DEF Parser!Texts
  <2>2. Len(http_bytes) \in Nat
    BY <1>4
  <2>3. Parser!NoText \in [start : Parser!Texts, field : Parser!Texts, value : Parser!Texts,
                           body : Parser!Texts]
    BY <2>1 DEF Parser!NoText
  <2>4. /\ parsed \in Nat /\ come \in Nat /\ piece \in Nat
        /\ piece <= parsed /\ parsed <= come /\ come <= Len(http_bytes)
    BY <1>3, <2>2
  <2> QED  BY <1>3, <2>3, <2>4, Zenon DEF ParserTyped
<1>8. InStart(msg, 0)
  <2>1. msg.start \in Parser!Texts
    BY MessageTexts
  <2>2. 0 \in Nat /\ 0 <= 0 /\ 0 <= Len(msg.start) /\ 0 \in 0 .. Len(msg.start)
    BY TextLengths
  <2>3. SubSeq(msg.start, 1, 0) = <<>>
    BY <2>1, <2>2, Beginnings
  <2> QED  BY <1>3, <2>2, <2>3 DEF InStart, Parser!NoText
<1>9. Progress(msg, pos, more)
  BY <1>3, <1>8 DEF Progress, Somewhere
<1>10. Returned
  BY <1>3 DEF Returned
<1> QED  BY <1>2, <1>4, <1>5, <1>6, <1>7, <1>9, <1>10 DEF ParserInv

\* What is taken for a message is the first that was sent, its method or version,
\* headers and body, however its bytes were cut into reads, unless a read ended
\* in the name of a header; and none is refused that is acceptable, unless bytes
\* of another request have come with it (httpParser.cpp:446-602, 781-900).
THEOREM MessagesAreWhole == ServicesSpec => []MessageWhole
<1>1. ServicesInit => ParserInv
  BY InitParser DEF ServicesInit
<1>2. ParserInv /\ [ServicesNext]_allVars => ParserInv'
  BY StepOfParts, NextParser
<1>3. ParserInv => MessageWhole
  <2> SUFFICES ASSUME ParserInv PROVE MessageWhole
    OBVIOUS
  <2>1. PICK msg \in Parser!Messages : msg = Parser!First
    BY DEF ParserInv, Parser!First
  <2>2. PICK pos, more : Laid(msg, pos, more, http_bytes) /\ Progress(msg, pos, more)
    BY <2>1 DEF ParserInv
  <2>3. PICK n \in Nat : n = Len(msg.headers) /\ DOMAIN msg.headers = 1 .. n
    BY MessageTexts
  <2>4. Parser!Acceptable <=> msg.start \in ValidStarts /\ Fits(msg, n)
    BY <2>1, <2>3 DEF Parser!Acceptable, Fits
  <2>5. ASSUME outcome = "OK", ~nameCut
        PROVE  /\ Parser!Acceptable /\ headers = Parser!HeadersOf(Parser!First)
               /\ http_body = Parser!First.body
    <3>1. Complete(msg, pos, more)
      BY <2>2, <2>5 DEF ParserInv, Returned, Progress
    <3>2. Whole(msg)
      BY <2>5, <3>1 DEF Complete
    <3> QED  BY <2>1, <2>3, <2>4, <3>1, <3>2 DEF Complete, Whole
  <2>6. ASSUME outcome = "ERROR", Parser!Acceptable
        PROVE  http.kind = "request" /\ come > Len(Parser!Written(Parser!First))
    <3>1. error /\ (http.kind = "request" \/ ~m_isFinish)
      BY <2>6 DEF ParserInv, Returned
    <3>2. m_isFinish
      BY <2>2, <2>3, <2>4, <2>6, <3>1 DEF Progress, Refused
    <3>3. Ends(msg, pos) < parsed
      BY <2>2, <3>1, <3>2 DEF Progress, Complete
    <3>4. PICK q \in Nat : q = Ends(msg, pos)
      <4>1. n + 1 \in 1 .. n + 1
        OBVIOUS
      <4>2. pos[n + 1] \in Nat /\ Ends(msg, pos) = pos[n + 1] + Len(msg.body) + 2
        BY <2>2, <2>3, <4>1, Layout
      <4> QED  BY <4>2, TextLengths
    <3>5. q = Len(Parser!Written(Parser!First))
      BY <2>1, <2>2, <3>4 DEF Laid
    <3>6. come > q
      BY <3>3, <3>4 DEF ParserInv, ParserTyped
    <3> QED  BY <3>1, <3>2, <3>5, <3>6
  <2> QED  BY <2>5, <2>6 DEF MessageWhole, Parser!MessageWhole
<1> QED  BY <1>1, <1>2, <1>3, PTL DEF ServicesSpec
=============================================================================
