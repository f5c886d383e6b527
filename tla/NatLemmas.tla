----------------------------- MODULE NatLemmas -----------------------------
(***************************************************************************)
(* Facts about natural numbers that the proofs of several components use:  *)
(* least and greatest members, induction over a set of numbers, quotients  *)
(* and powers.                                                             *)
(***************************************************************************)
EXTENDS Integers, WellFoundedInduction, TLAPS

\* Every set of naturals has a least member.
LEMMA Least ==
    ASSUME NEW T \in SUBSET Nat, T # {}
    PROVE  \E x \in T : \A y \in T : x <= y
<1>1. PICK x \in T : \A y \in T : ~(<<y, x>> \in OpToRel(<, Nat))
  BY WFMin, NatLessThanWellFounded, Zenon
<1>2. \A y \in T : x <= y
  <2> SUFFICES ASSUME NEW y \in T PROVE x <= y
    OBVIOUS
  <2>1. <<y, x>> \notin {ss \in Nat \X Nat : ss[1] < ss[2]}
    BY <1>1, Zenon DEF OpToRel
  <2>2. <<y, x>> \in Nat \X Nat /\ <<y, x>>[1] = y /\ <<y, x>>[2] = x
    OBVIOUS
  <2>3. ~(y < x)
    BY <2>1, <2>2
  <2> QED
    BY <2>3
<1> QED
  BY <1>2

\* Every set of positions has a greatest member.
LEMMA Greatest ==
    ASSUME NEW n \in Nat, NEW T \in SUBSET (1 .. n), T # {}
    PROVE  \E x \in T : \A y \in T : x >= y
<1> DEFINE U == {n - y : y \in T}
<1>1. U \in SUBSET Nat /\ U # {}
  <2>1. \A y \in T : n - y \in Nat
    OBVIOUS
  <2>2. U \in SUBSET Nat
    BY <2>1
  <2>3. U # {}
    OBVIOUS
  <2> QED
    BY <2>2, <2>3
<1>2. PICK u \in U : \A v \in U : u <= v
  BY <1>1, Least
<1>3. PICK x \in T : u = n - x
  OBVIOUS
<1>4. \A y \in T : n - x <= n - y
  BY <1>2, <1>3
<1>5. \A y \in T : x >= y
  BY <1>4
<1> QED
  BY <1>5

\* A set that has 0 and, up to n, the successor of every member has 0 .. n.
LEMMA Induction ==
    ASSUME NEW n \in Nat, NEW S, 0 \in S, \A l \in 0 .. n - 1 : l \in S => l + 1 \in S
    PROVE  0 .. n \subseteq S
<1> DEFINE T == {l \in 0 .. n : l \notin S}
<1> SUFFICES ASSUME T # {} PROVE FALSE
  OBVIOUS
<1>1. T \in SUBSET Nat
  OBVIOUS
<1>2. PICK l \in T : \A m \in T : l <= m
  BY <1>1, Least
<1>3. l \in 1 .. n
  BY <1>2
<1>4. l - 1 \in 0 .. n - 1 /\ l - 1 \notin T
  BY <1>2, <1>3
<1> QED
  BY <1>2, <1>3, <1>4

\* The powers f of a and g of c, when a >= c.
LEMMA Powers ==
    ASSUME NEW n \in Nat, NEW a \in Nat, NEW c \in Nat \ {0}, a >= c, NEW f, NEW g,
           f[0] = 1, \A l \in 0 .. n - 1 : f[l + 1] = a * f[l],
           g[0] = 1, \A l \in 0 .. n - 1 : g[l + 1] = c * g[l]
    PROVE  \A l \in 0 .. n : f[l] \in Nat /\ g[l] \in Nat \ {0} /\ f[l] >= g[l]
<1> DEFINE S == {l \in 0 .. n : f[l] \in Nat /\ g[l] \in Nat \ {0} /\ f[l] >= g[l]}
<1>1. 0 \in S
  OBVIOUS
<1>2. ASSUME NEW l \in 0 .. n - 1, l \in S
      PROVE  l + 1 \in S
  <2>1. f[l] \in Nat /\ g[l] \in Nat \ {0} /\ f[l] >= g[l]
    BY <1>2
  <2>2. a * f[l] \in Nat /\ c * g[l] \in Nat \ {0} /\ a * f[l] >= c * g[l]
    BY <2>1
  <2> QED
    BY <1>2, <2>2
<1> HIDE DEF S
<1>3. 0 .. n \subseteq S
  BY <1>1, <1>2, Induction
<1> QED
  BY <1>3 DEF S

\* An integer quotient of something at least as large as its divisor.
LEMMA QuotientPositive ==
    ASSUME NEW a \in Nat, NEW n \in Nat \ {0}, a >= n
    PROVE  a \div n \in Nat \ {0}
OBVIOUS

\* A quotient does not fall when the dividend grows at least as the divisor does.
LEMMA QuotientGrows ==
    ASSUME NEW x \in Nat, NEW y \in Nat \ {0}, NEW a \in Nat, NEW c \in Nat \ {0}, a >= c
    PROVE  x \div y <= (a * x) \div (c * y)
<1> DEFINE q == x \div y
           r == (a * x) \div (c * y)
<1>1. q \in Nat /\ y * q <= x
  OBVIOUS
<1>2. c * y \in Nat \ {0} /\ a * x \in Nat
  OBVIOUS
<1>3. (c * y) * q <= a * x
  <2> HIDE DEF q
  <2>1. c * (y * q) <= c * x
    BY <1>1
  <2>2. c * x <= a * x
    OBVIOUS
  <2>3. (c * y) * q = c * (y * q)
    BY <1>1
  <2> QED
    BY <1>1, <2>1, <2>2, <2>3
<1> DEFINE u == c * y
           v == a * x
<1>4. r = v \div u
  OBVIOUS
<1> HIDE DEF q, u, v, r
<1>5. u \in Nat \ {0} /\ v \in Nat /\ u * q <= v
  BY <1>2, <1>3 DEF u, v
<1>6. r \in Nat /\ v < u * (r + 1)
  BY <1>4, <1>5
<1>7. q < r + 1
  <2> SUFFICES ASSUME q >= r + 1 PROVE FALSE
    BY <1>1, <1>6
  <2>1. u * q >= u * (r + 1)
    BY <1>1, <1>5, <1>6
  <2> QED
    BY <1>1, <1>5, <1>6, <2>1
<1> QED
  BY <1>1, <1>6, <1>7 DEF q, r
=============================================================================
