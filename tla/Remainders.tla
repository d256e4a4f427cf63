------------------------------ MODULE Remainders ------------------------------
(***************************************************************************)
(* Arithmetic of n % e, for the counters of which every e-th value counts. *)
(***************************************************************************)
EXTENDS Integers, TLAPS

(* A multiple of e that is not zero is at least e away from it.              *)
LEMMA Multiple ==
  ASSUME NEW e \in Nat \ {0}, NEW k \in Int
  PROVE  (k >= 1 => e * k >= e) /\ (k <= -1 => e * k <= -e)
<1>1. \A m \in Int : m >= 1 => e * m >= e
  OBVIOUS
<1>2. -k \in Int /\ e * (-k) = -(e * k)
  OBVIOUS
<1> QED
  BY <1>1, <1>2

(* The remainder of a division is unique.                                    *)
LEMMA Remainder ==
  ASSUME NEW e \in Nat \ {0}, NEW q \in Int, NEW p \in Int,
         NEW r \in 0..(e - 1), NEW s \in 0..(e - 1),
         e * q + r = e * p + s
  PROVE  r = s
<1>1. e * (p - q) = r - s /\ p - q \in Int
  OBVIOUS
<1>2. ~(p - q >= 1) /\ ~(p - q <= -1)
  BY <1>1, Multiple
<1>3. p - q = 0
  BY <1>1, <1>2
<1> QED
  BY <1>1, <1>3

(* A counter that steps to no multiple of e has a remainder greater by one.  *)
LEMMA NextRemainder ==
  ASSUME NEW e \in Nat \ {0}, NEW n \in Nat, (n + 1) % e # 0
  PROVE  (n + 1) % e = (n % e) + 1
<1> DEFINE q == n \div e
           r == n % e
           p == (n + 1) \div e
           s == (n + 1) % e
<1>1. n = e * q + r /\ q \in Int /\ r \in 0..(e - 1)
  OBVIOUS
<1>2. n + 1 = e * p + s /\ p \in Int /\ s \in 0..(e - 1)
  OBVIOUS
<1> HIDE DEF q, r, p, s
<1>3. CASE r + 1 < e
  <2>1. r + 1 \in 0..(e - 1) /\ e * q + (r + 1) = e * p + s
    BY <1>1, <1>2, <1>3
  <2>2. r + 1 = s
    BY <1>1, <1>2, <2>1, Remainder
  <2> QED
    BY <2>2 DEF r, s
<1>4. CASE ~(r + 1 < e)
  <2>1. r + 1 = e
    BY <1>1, <1>4
  <2>2. e * (q + 1) = e * q + e /\ q + 1 \in Int
    BY <1>1
  <2>3. e * (q + 1) + 0 = e * p + s /\ 0 \in 0..(e - 1)
    BY <1>1, <1>2, <2>1, <2>2
  <2>4. 0 = s
    BY <1>2, <2>2, <2>3, Remainder
  <2> QED
    BY <2>4 DEF s
<1> QED
  BY <1>3, <1>4

(* A multiple of e is a multiple of every divisor of e.                      *)
LEMMA DivisorRemainder ==
  ASSUME NEW e \in Nat \ {0}, NEW d \in Nat \ {0}, NEW n \in Nat, e % d = 0, n % e = 0
  PROVE  n % d = 0
<1> DEFINE k == e \div d
           m == n \div e
<1>1. e = d * k /\ k \in Int
  OBVIOUS
<1>2. n = e * m /\ m \in Int
  OBVIOUS
<1> HIDE DEF k, m
<1>3. n = d * (k * m) + 0 /\ k * m \in Int
  BY <1>1, <1>2
<1>4. n = d * (n \div d) + (n % d) /\ n \div d \in Int /\ n % d \in 0..(d - 1)
  OBVIOUS
<1> DEFINE p == k * m
           q == n \div d
           r == n % d
<1>5. d * p + 0 = d * q + r /\ p \in Int /\ q \in Int /\ r \in 0..(d - 1) /\ 0 \in 0..(d - 1)
  BY <1>3, <1>4
<1> HIDE DEF p, q, r
<1>6. 0 = r
  BY <1>5, Remainder
<1> QED
  BY <1>6 DEF r
===============================================================================
