---------------------------- MODULE NumberLemmas ----------------------------
(* Least and greatest numbers of sets, and division, for the other proofs. *)
EXTENDS Integers, FiniteSetsExt, WellFoundedInduction, TLAPS

-----------------------------------------------------------------------------
(* Order                                                                   *)

\* Induction on numbers is used by way of least elements.
LessThan == {p \in Nat \X Nat : p[1] < p[2]}

\* The order of the natural numbers is well founded.
LEMMA LessThanWellFounded == IsWellFoundedOn(LessThan, Nat)
<1>1. OpToRel(<, Nat) = LessThan  BY Zenon DEF OpToRel, LessThan
<1> QED  BY <1>1, NatLessThanWellFounded, Zenon

\* Every set of natural numbers that is not empty has a least element.
LEMMA LeastNat ==
  ASSUME NEW S \in SUBSET Nat, S # {}
  PROVE  \E m \in S : \A n \in S : m <= n
<1>1. PICK m \in S : \A n \in S : <<n, m>> \notin LessThan
  BY LessThanWellFounded, WFMin, Zenon
<1>2. \A n \in S : ~(n < m)  BY <1>1 DEF LessThan
<1> QED  BY <1>2

\* Min, of the library, of a set of natural numbers.
LEMMA MinIsLeast ==
  ASSUME NEW S \in SUBSET Nat, S # {}
  PROVE  Min(S) \in S /\ \A n \in S : Min(S) <= n
BY LeastNat DEF Min

\* Max of a bounded set of natural numbers.
LEMMA MaxIsGreatest ==
  ASSUME NEW B \in Nat, NEW S \in SUBSET (0 .. B), S # {}
  PROVE  Max(S) \in S /\ \A n \in S : n <= Max(S)
<1> DEFINE C == {n \in Nat : B - n \in S}
<1>1. PICK s \in S : TRUE  OBVIOUS
<1>2. B - s \in C  BY <1>1
<1>3. PICK c \in C : \A n \in C : c <= n  BY <1>2, LeastNat
<1>4. B - c \in S  BY <1>3
<1>5. ASSUME NEW n \in S PROVE n <= B - c
  <2>1. B - n \in C  OBVIOUS
  <2>2. c <= B - n  BY <2>1, <1>3
  <2> QED  BY <2>2
<1> QED  BY <1>4, <1>5 DEF Max

-----------------------------------------------------------------------------
(* Division                                                                *)

\* The quotient and the remainder of \div and %.
LEMMA Division ==
  ASSUME NEW a \in Nat, NEW b \in Nat \ {0}
  PROVE  /\ a \div b \in Nat /\ a % b \in 0 .. b - 1
         /\ a = b * (a \div b) + (a % b)
OBVIOUS

\* What a divisor divides is a multiple of it.
LEMMA Divisible ==
  ASSUME NEW a \in Nat, NEW b \in Nat \ {0}, a % b = 0
  PROVE  (a \div b) * b = a /\ a \div b \in Nat
BY Division

\* Quotients are unique.
LEMMA Quotient ==
  ASSUME NEW b \in Nat \ {0}, NEW q \in Nat, NEW p \in Nat, NEW r \in 0 .. b - 1,
         q * b = b * p + r
  PROVE  q = p
<1>1. CASE q > p
  <2>1. PICK k \in Nat : q = p + 1 + k
    <3>1. q - p - 1 \in Nat /\ q = p + 1 + (q - p - 1)  BY <1>1
    <3> QED  BY <3>1
  <2>2. b * k \in Nat  OBVIOUS
  <2>3. q * b = b * p + b + b * k  BY <2>1
  <2> QED  BY <2>2, <2>3
<1>2. CASE q < p
  <2>1. PICK k \in Nat : p = q + 1 + k
    <3>1. p - q - 1 \in Nat /\ p = q + 1 + (p - q - 1)  BY <1>2
    <3> QED  BY <3>1
  <2>2. b * k \in Nat  OBVIOUS
  <2>3. b * p = q * b + b + b * k  BY <2>1
  <2> QED  BY <2>2, <2>3
<1> QED  BY <1>1, <1>2

\* A multiple has no remainder.
LEMMA Multiple ==
  ASSUME NEW n \in Nat, NEW b \in Nat \ {0}
  PROVE  (n * b) \div b = n /\ (n * b) % b = 0
<1>1. n * b \in Nat  OBVIOUS
<1>2. /\ (n * b) \div b \in Nat /\ (n * b) % b \in 0 .. b - 1
      /\ n * b = b * ((n * b) \div b) + ((n * b) % b)
  BY <1>1, Division
<1>3. (n * b) \div b = n  BY <1>2, Quotient
<1> QED  BY <1>2, <1>3

\* The greater number has the greater quotient.
LEMMA DivisionMonotonic ==
  ASSUME NEW a \in Nat, NEW c \in Nat, NEW b \in Nat \ {0}, a <= c
  PROVE  a \div b <= c \div b
<1> DEFINE p == a \div b
           q == c \div b
<1>1. p \in Nat /\ a % b \in 0 .. b - 1 /\ a = b * p + (a % b)  BY Division
<1>2. q \in Nat /\ c % b \in 0 .. b - 1 /\ c = b * q + (c % b)  BY Division
<1> HIDE DEF p, q
<1>3. SUFFICES ASSUME p > q PROVE FALSE  BY <1>1, <1>2 DEF p, q
<1>4. PICK k \in Nat : p = q + 1 + k
  <2>1. p - q - 1 \in Nat /\ p = q + 1 + (p - q - 1)  BY <1>1, <1>2, <1>3
  <2> QED  BY <2>1
<1>5. b * k \in Nat  OBVIOUS
<1>6. b * p = b * q + b + b * k  BY <1>2, <1>4
<1> QED  BY <1>1, <1>2, <1>5, <1>6

\* Remainders are unique.
LEMMA RemainderIs ==
  ASSUME NEW b \in Nat \ {0}, NEW a \in Int, NEW q \in Int, NEW r \in 0 .. b - 1, a = b * q + r
  PROVE  a % b = r
<1> DEFINE p == a \div b
           s == a % b
<1>1. p \in Int /\ s \in 0 .. b - 1 /\ a = b * p + s  OBVIOUS
<1> HIDE DEF p, s
<1>2. \A x \in Int, y \in Int : x > y => b * x >= b * y + b
  <2> SUFFICES ASSUME NEW x \in Int, NEW y \in Int, x > y PROVE b * x >= b * y + b  OBVIOUS
  <2>1. PICK k \in Nat : x = y + 1 + k
    <3>1. x - y - 1 \in Nat /\ x = y + 1 + (x - y - 1)  OBVIOUS
    <3> QED  BY <3>1
  <2>2. b * k \in Nat /\ b * y \in Int  OBVIOUS
  <2>3. b * x = b * y + b + b * k  BY <2>1
  <2> QED  BY <2>2, <2>3
<1>3. b * p \in Int /\ b * q \in Int  BY <1>1
<1>4. ~(q > p)
  <2>1. SUFFICES ASSUME q > p PROVE FALSE  OBVIOUS
  <2>2. b * q >= b * p + b  BY <1>1, <1>2, <2>1
  <2> QED  BY <1>1, <1>3, <2>2
<1>5. ~(p > q)
  <2>1. SUFFICES ASSUME p > q PROVE FALSE  OBVIOUS
  <2>2. b * p >= b * q + b  BY <1>1, <1>2, <2>1
  <2> QED  BY <1>1, <1>3, <2>2
<1>6. p = q  BY <1>1, <1>4, <1>5
<1> QED  BY <1>1, <1>3, <1>6 DEF s

=============================================================================
