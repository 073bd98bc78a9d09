----------------------------- MODULE BigintProofs -----------------------------
(***************************************************************************)
(* Proofs about the big natural numbers.                                   *)
(*                                                                         *)
(* In the middle of a loop the digits stand for no number of interest.     *)
(* Two expressions look ahead instead: Standing is the number that lhs     *)
(* will be once the loop is over, and After the operations still to be     *)
(* done then.  Each iteration leaves both alone (Continues); the first     *)
(* step of an operation changes Standing by its Effect, which has to be    *)
(* Legal (Begins).  What is left of a call is a Plan that leads from       *)
(* Standing to the Outcome of the call: a list of primitive operations     *)
(* that Runs to it, or a product with a power of ten, the reading of a     *)
(* string or a division that is still to be turned into such a list.       *)
(*                                                                         *)
(* The order: induction and recursive functions; powers; values of digits; *)
(* one iteration of each loop; primitive operations; lists of them; plans; *)
(* the invariant; the theorems.                                            *)
(***************************************************************************)
EXTENDS Bigint, SequenceTheorems, WellFoundedInduction, TLAPS

-----------------------------------------------------------------------------
(***************************************************************************)
(* Induction, and the functions that recursion defines.                    *)
(***************************************************************************)

(* A set that has zero, and the successor of each of its numbers, has all. *)
LEMMA Induction ==
  ASSUME NEW S, 0 \in S, \A n \in Nat : n \in S => n + 1 \in S
  PROVE  Nat \subseteq S
<1> SUFFICES ASSUME NEW z \in Nat, z \notin S PROVE FALSE
  OBVIOUS
<1> DEFINE T == Nat \ S
           R == {p \in Nat \X Nat : p[1] < p[2]}
<1>1. IsWellFoundedOn(R, Nat)
  BY NatLessThanWellFounded, Zenon DEF OpToRel
<1>2. T \in SUBSET Nat /\ T # {}
  OBVIOUS
<1>3. PICK n \in T : \A m \in T : <<m, n>> \notin R
  BY <1>1, <1>2, WFMin, Zenon
<1>4. n \in Nat /\ n # 0 /\ n - 1 \in Nat /\ (n - 1) + 1 = n
  BY <1>3
<1>5. <<n - 1, n>> \in R
  BY <1>4
<1>6. n - 1 \in S
  BY <1>3, <1>4, <1>5
<1> QED BY <1>3, <1>4, <1>6

(* The first values of a function that a recursion defines.                *)
Approximates(f, a, s, n) ==
  /\ f \in [Nat -> Int]
  /\ f[0] = a
  /\ \A k \in Nat : k < n => f[k + 1] = s[<<k, f[k]>>]

LEMMA ApproximationsAgree ==
  ASSUME NEW a \in Int, NEW s \in [Nat \X Int -> Int], NEW n \in Nat, NEW m \in Nat,
         NEW f, NEW g, Approximates(f, a, s, n), Approximates(g, a, s, m)
  PROVE  \A k \in Nat : k <= n /\ k <= m => f[k] = g[k]
<1> DEFINE S == {k \in Nat : k <= n /\ k <= m => f[k] = g[k]}
<1>1. 0 \in S
  BY DEF Approximates
<1>2. ASSUME NEW k \in Nat, k \in S PROVE k + 1 \in S
  <2> SUFFICES ASSUME k + 1 <= n, k + 1 <= m PROVE f[k + 1] = g[k + 1]
    OBVIOUS
  <2>1. k < n /\ k < m
    OBVIOUS
  <2>2. f[k] = g[k]
    BY <1>2, <2>1
  <2>3. f[k + 1] = s[<<k, f[k]>>] /\ g[k + 1] = s[<<k, g[k]>>]
    BY <2>1, Zenon DEF Approximates
  <2> QED BY <2>2, <2>3
<1>3. Nat \subseteq S
  <2> HIDE DEF S
  <2> QED BY <1>1, <1>2, Induction
<1> QED BY <1>3

(* A first value and a step define a function.                             *)
LEMMA Recursion ==
  ASSUME NEW a \in Int, NEW s \in [Nat \X Int -> Int]
  PROVE  \E f \in [Nat -> Int] : f[0] = a /\ \A k \in Nat : f[k + 1] = s[<<k, f[k]>>]
<1> DEFINE S == {n \in Nat : \E f : Approximates(f, a, s, n)}
<1>1. 0 \in S
  <2>1. Approximates([k \in Nat |-> a], a, s, 0)
    BY DEF Approximates
  <2> QED BY <2>1
<1>2. ASSUME NEW n \in Nat, n \in S PROVE n + 1 \in S
  <2>1. PICK f : Approximates(f, a, s, n)
    BY <1>2
  <2>2. f \in [Nat -> Int] /\ f[n] \in Int /\ <<n, f[n]>> \in Nat \X Int
    BY <2>1 DEF Approximates
  <2>3. s[<<n, f[n]>>] \in Int
    BY <2>2
  <2> DEFINE g == [f EXCEPT ![n + 1] = s[<<n, f[n]>>]]
  <2>4. g \in [Nat -> Int] /\ g[0] = f[0]
    BY <2>2, <2>3
  <2>5. ASSUME NEW k \in Nat, k < n + 1 PROVE g[k + 1] = s[<<k, g[k]>>]
    <3>1. g[k] = f[k]
      BY <2>2, <2>5
    <3>2. CASE k = n
      BY <2>2, <3>1, <3>2
    <3>3. CASE k < n
      <4>1. f[k + 1] = s[<<k, f[k]>>]
        BY <2>1, <3>3 DEF Approximates
      <4>2. g[k + 1] = f[k + 1]
        BY <2>2, <3>3
      <4> QED BY <3>1, <4>1, <4>2
    <3> QED BY <2>5, <3>2, <3>3
  <2>6. Approximates(g, a, s, n + 1)
    BY <2>1, <2>4, <2>5 DEF Approximates
  <2> QED BY <2>6
<1>3. \A n \in Nat : \E f : Approximates(f, a, s, n)
  <2>1. Nat \subseteq S
    <3> HIDE DEF S
    <3> QED BY <1>1, <1>2, Induction
  <2> QED BY <2>1
<1> DEFINE F(n) == CHOOSE f : Approximates(f, a, s, n)
           h == [n \in Nat |-> F(n)[n]]
<1>4. \A n \in Nat : Approximates(F(n), a, s, n)
  BY <1>3
<1> HIDE DEF F
<1>5. \A n \in Nat : F(n) \in [Nat -> Int]
  BY <1>4 DEF Approximates
<1>6. h \in [Nat -> Int]
  BY <1>5
<1>7. h[0] = a
  BY <1>4 DEF Approximates
<1>8. ASSUME NEW k \in Nat PROVE h[k + 1] = s[<<k, h[k]>>]
  <2>1. Approximates(F(k), a, s, k) /\ Approximates(F(k + 1), a, s, k + 1)
    BY <1>4
  <2>2. \A j \in Nat : j <= k /\ j <= k + 1 => F(k)[j] = F(k + 1)[j]
    BY <2>1, ApproximationsAgree
  <2>3. F(k + 1)[k + 1] = s[<<k, F(k + 1)[k]>>]
    BY <2>1 DEF Approximates
  <2> QED BY <2>2, <2>3
<1> HIDE DEF h
<1> QED BY <1>6, <1>7, <1>8

-----------------------------------------------------------------------------
(***************************************************************************)
(* Powers.                                                                 *)
(***************************************************************************)

(* What Power is defined by.                                               *)
LEMMA PowerIs ==
  ASSUME NEW b \in Nat
  PROVE  /\ Power(b, 0) = 1
         /\ \A n \in Nat : Power(b, n) \in Int /\ Power(b, n + 1) = b * Power(b, n)
<1> DEFINE IsPower(p) == p = [k \in Nat |-> IF k = 0 THEN 1 ELSE b * p[k - 1]]
           s == [q \in Nat \X Int |-> b * q[2]]
<1>1. s \in [Nat \X Int -> Int]
  OBVIOUS
<1>2. PICK f \in [Nat -> Int] : f[0] = 1 /\ \A k \in Nat : f[k + 1] = s[<<k, f[k]>>]
  <2> HIDE DEF s
  <2>1. 1 \in Int
    OBVIOUS
  <2> QED BY <1>1, <2>1, Recursion, Zenon
<1>3. \A k \in Nat : f[k + 1] = b * f[k]
  BY <1>2
<1>4. IsPower(f)
  <2>1. ASSUME NEW k \in Nat PROVE f[k] = IF k = 0 THEN 1 ELSE b * f[k - 1]
    <3>1. CASE k = 0
      BY <1>2, <3>1
    <3>2. CASE k # 0
      <4>1. k - 1 \in Nat /\ (k - 1) + 1 = k
        BY <3>2
      <4> QED BY <1>3, <3>2, <4>1
    <3> QED BY <3>1, <3>2
  <2> QED BY <2>1
<1> DEFINE q == CHOOSE p : IsPower(p)
<1>5. IsPower(q)
  BY <1>4
<1>6. \A n : Power(b, n) = q[n]
  BY Zenon DEF Power
<1> HIDE DEF q
<1>7. q[0] = 1 /\ \A n \in Nat : q[n + 1] = b * q[n]
  <2>1. q[0] = 1
    BY <1>5
  <2>2. ASSUME NEW n \in Nat PROVE q[n + 1] = b * q[n]
    <3>1. n + 1 \in Nat /\ n + 1 # 0 /\ (n + 1) - 1 = n
      OBVIOUS
    <3>2. q[n + 1] = b * q[(n + 1) - 1]
      BY <1>5, <3>1
    <3> QED BY <3>1, <3>2
  <2> QED BY <2>1, <2>2
<1>8. \A n \in Nat : q[n] \in Int
  <2> DEFINE S == {n \in Nat : q[n] \in Int}
  <2>1. 0 \in S
    BY <1>7
  <2>2. ASSUME NEW n \in Nat, n \in S PROVE n + 1 \in S
    BY <1>7, <2>2
  <2>3. Nat \subseteq S
    <3> HIDE DEF S
    <3> QED BY <2>1, <2>2, Induction
  <2> QED BY <2>3
<1> QED BY <1>6, <1>7, <1>8

LEMMA PowerPositive ==
  ASSUME NEW b \in Nat, b >= 1, NEW m \in Nat
  PROVE  Power(b, m) \in Nat /\ Power(b, m) >= 1
<1> DEFINE S == {n \in Nat : Power(b, n) \in Nat /\ Power(b, n) >= 1}
<1>1. 0 \in S
  BY PowerIs
<1>2. ASSUME NEW n \in Nat, n \in S PROVE n + 1 \in S
  <2>1. Power(b, n + 1) = b * Power(b, n)
    BY PowerIs
  <2>2. \A x, y \in Nat : x >= 1 /\ y >= 1 => x * y \in Nat /\ x * y >= 1
    OBVIOUS
  <2> QED BY <1>2, <2>1, <2>2
<1>3. Nat \subseteq S
  <2> HIDE DEF S
  <2> QED BY <1>1, <1>2, Induction
<1> QED BY <1>3

LEMMA PowerAdd ==
  ASSUME NEW b \in Nat, b >= 1, NEW m \in Nat
  PROVE  \A n \in Nat : Power(b, m + n) = Power(b, m) * Power(b, n)
<1> DEFINE S == {n \in Nat : Power(b, m + n) = Power(b, m) * Power(b, n)}
<1>1. 0 \in S
  <2>1. m + 0 = m /\ Power(b, 0) = 1 /\ Power(b, m) \in Nat
    BY PowerIs, PowerPositive
  <2> QED BY <2>1
<1>2. ASSUME NEW n \in Nat, n \in S PROVE n + 1 \in S
  <2>1. Power(b, n + 1) = b * Power(b, n) /\ Power(b, (m + n) + 1) = b * Power(b, m + n)
    BY PowerIs
  <2>2. m + (n + 1) = (m + n) + 1
    OBVIOUS
  <2>3. Power(b, m) \in Nat /\ Power(b, n) \in Nat /\ Power(b, m + n) \in Nat
    <3>1. \A k \in Nat : Power(b, k) \in Nat /\ Power(b, k) >= 1
      BY PowerPositive
    <3> QED BY <3>1
  <2>4. \A x, y \in Nat : b * (x * y) = x * (b * y)
    OBVIOUS
  <2>5. Power(b, m + n) = Power(b, m) * Power(b, n)
    BY <1>2
  <2>6. Power(b, m + (n + 1)) = b * (Power(b, m) * Power(b, n))
    BY <2>1, <2>2, <2>5
  <2>7. Power(b, m + (n + 1)) = Power(b, m) * Power(b, n + 1)
    BY <2>1, <2>3, <2>4, <2>6
  <2> QED BY <2>7
<1>3. Nat \subseteq S
  <2> HIDE DEF S
  <2> QED BY <1>1, <1>2, Induction
<1> QED BY <1>3

LEMMA PowerMonotone ==
  ASSUME NEW b \in Nat, b >= 2, NEW m \in Nat, NEW n \in Nat
  PROVE  /\ m <= n => Power(b, m) <= Power(b, n)
         /\ m < n => Power(b, m) < Power(b, n)
<1>1. ASSUME m <= n PROVE n - m \in Nat /\ Power(b, n) = Power(b, m) * Power(b, n - m)
  <2>1. n - m \in Nat /\ m + (n - m) = n
    BY <1>1
  <2> QED BY <2>1, PowerAdd
<1>2. Power(b, m) \in Nat /\ Power(b, n) \in Nat /\ Power(b, m) >= 1
  <2>1. \A k \in Nat : Power(b, k) \in Nat /\ Power(b, k) >= 1
    BY PowerPositive
  <2> QED BY <2>1
<1>3. \A x, y \in Nat : y >= 1 => x * y >= x
  OBVIOUS
<1>4. \A x, y \in Nat : x >= 1 /\ y >= 2 => x * y > x
  OBVIOUS
<1>5. ASSUME m <= n PROVE Power(b, m) <= Power(b, n)
  <2>1. Power(b, n - m) \in Nat /\ Power(b, n - m) >= 1
    BY <1>1, <1>5, PowerPositive
  <2> QED BY <1>1, <1>2, <1>3, <1>5, <2>1
<1>6. ASSUME m < n PROVE Power(b, m) < Power(b, n)
  <2>1. n - m \in Nat /\ n - m - 1 \in Nat /\ n - m = (n - m - 1) + 1
    BY <1>6
  <2>2. Power(b, n - m) = b * Power(b, n - m - 1)
    BY <2>1, PowerIs
  <2>3. Power(b, n - m - 1) \in Nat /\ Power(b, n - m - 1) >= 1
    BY <2>1, PowerPositive
  <2>4. \A x \in Nat : x >= 1 => b * x \in Nat /\ b * x >= 2
    OBVIOUS
  <2>5. Power(b, n - m) \in Nat /\ Power(b, n - m) >= 2
    BY <2>2, <2>3, <2>4
  <2> QED BY <1>1, <1>2, <1>4, <1>6, <2>5
<1> QED BY <1>5, <1>6

(* Of two powers, the smaller has the smaller exponent.                    *)
LEMMA PowerOrder ==
  ASSUME NEW b \in Nat, b >= 2, NEW m \in Nat, NEW n \in Nat
  PROVE  /\ Power(b, m) < Power(b, n) => m < n
         /\ Power(b, m) <= Power(b, n) => m <= n
<1>1. Power(b, m) \in Nat /\ Power(b, n) \in Nat
  <2>1. \A k \in Nat : Power(b, k) \in Nat /\ Power(b, k) >= 1
    BY PowerPositive
  <2> QED BY <2>1
<1>2. n <= m => Power(b, n) <= Power(b, m)
  BY PowerMonotone
<1>3. n < m => Power(b, n) < Power(b, m)
  BY PowerMonotone
<1> QED BY <1>1, <1>2, <1>3

LEMMA PowerTimes ==
  ASSUME NEW b \in Nat, NEW c \in Nat, b >= 1, c >= 1
  PROVE  \A n \in Nat : Power(b * c, n) = Power(b, n) * Power(c, n)
<1> DEFINE S == {n \in Nat : Power(b * c, n) = Power(b, n) * Power(c, n)}
<1>0. b * c \in Nat
  OBVIOUS
<1>1. 0 \in S
  BY <1>0, PowerIs
<1>2. ASSUME NEW n \in Nat, n \in S PROVE n + 1 \in S
  <2>1. /\ Power(b, n + 1) = b * Power(b, n) /\ Power(c, n + 1) = c * Power(c, n)
        /\ Power(b * c, n + 1) = (b * c) * Power(b * c, n)
    BY <1>0, PowerIs
  <2>2. Power(b, n) \in Nat /\ Power(c, n) \in Nat
    BY PowerPositive
  <2>3. \A x, y \in Nat : (b * c) * (x * y) = (b * x) * (c * y)
    OBVIOUS
  <2>4. Power(b * c, n + 1) = Power(b, n + 1) * Power(c, n + 1)
    BY <1>2, <2>1, <2>2, <2>3
  <2> QED BY <2>4
<1>3. Nat \subseteq S
  <2> HIDE DEF S
  <2> QED BY <1>1, <1>2, Induction
<1> QED BY <1>3

LEMMA PowerPower ==
  ASSUME NEW b \in Nat, b >= 1, NEW m \in Nat
  PROVE  \A n \in Nat : Power(Power(b, m), n) = Power(b, m * n)
<1> DEFINE S == {n \in Nat : Power(Power(b, m), n) = Power(b, m * n)}
<1>0. Power(b, m) \in Nat
  BY PowerPositive
<1>1. 0 \in S
  <2>1. m * 0 = 0
    OBVIOUS
  <2> QED BY <1>0, <2>1, PowerIs
<1>2. ASSUME NEW n \in Nat, n \in S PROVE n + 1 \in S
  <2>1. m * n \in Nat /\ m * (n + 1) = m + m * n
    OBVIOUS
  <2>2. Power(Power(b, m), n + 1) = Power(b, m) * Power(Power(b, m), n)
    BY <1>0, PowerIs
  <2>3. Power(b, m + m * n) = Power(b, m) * Power(b, m * n)
    BY <2>1, PowerAdd
  <2>4. Power(Power(b, m), n + 1) = Power(b, m * (n + 1))
    BY <1>2, <2>1, <2>2, <2>3
  <2> QED BY <2>4
<1>3. Nat \subseteq S
  <2> HIDE DEF S
  <2> QED BY <1>1, <1>2, Induction
<1> QED BY <1>3

(* Every number is less than some power.                                   *)
LEMMA PowerBeyond ==
  ASSUME NEW b \in Nat, b >= 2
  PROVE  \A n \in Nat : n < Power(b, n)
<1> DEFINE S == {n \in Nat : n < Power(b, n)}
<1>1. 0 \in S
  BY PowerIs
<1>2. ASSUME NEW n \in Nat, n \in S PROVE n + 1 \in S
  <2>1. Power(b, n + 1) = b * Power(b, n)
    BY PowerIs
  <2>2. \A x \in Nat : x > n => b * x >= x + 1 + n \/ n = 0
    OBVIOUS
  <2>3. Power(b, n) \in Nat /\ Power(b, n) > n
    BY <1>2, PowerPositive
  <2>4. \A x \in Nat : x > n => b * x > n + 1
    OBVIOUS
  <2> QED BY <2>1, <2>3, <2>4
<1>3. Nat \subseteq S
  <2> HIDE DEF S
  <2> QED BY <1>1, <1>2, Induction
<1> QED BY <1>3

(* Induction up to a bound.                                                *)
LEMMA InductionUpto ==
  ASSUME NEW m \in Nat, NEW S, 0 \in S, \A n \in 0..(m - 1) : n \in S => n + 1 \in S
  PROVE  0..m \subseteq S
<1> DEFINE T == {n \in Nat : n <= m => n \in S}
<1>1. 0 \in T
  OBVIOUS
<1>2. ASSUME NEW n \in Nat, n \in T PROVE n + 1 \in T
  <2> SUFFICES ASSUME n + 1 <= m PROVE n + 1 \in S
    OBVIOUS
  <2>1. n <= m /\ n \in 0..(m - 1)
    OBVIOUS
  <2>2. n \in S
    BY <1>2, <2>1
  <2> QED BY <2>1, <2>2
<1>3. Nat \subseteq T
  <2> HIDE DEF T
  <2> QED BY <1>1, <1>2, Induction
<1> QED BY <1>3

-----------------------------------------------------------------------------
(***************************************************************************)
(* Digits and the numbers they stand for.                                  *)
(***************************************************************************)

LEMMA BaseNat == Base \in Nat /\ Base >= 2
<1>1. BigitBits \in Nat /\ 1 <= BigitBits
  BY WidthAssumption
<1>2. Power(2, 1) <= Power(2, BigitBits)
  <2>1. \A n \in Nat : 1 <= n => Power(2, 1) <= Power(2, n)
    BY PowerMonotone
  <2> QED BY <1>1, <2>1
<1>3. Power(2, 0) = 1 /\ Power(2, 0 + 1) = 2 * Power(2, 0)
  BY PowerIs
<1>4. Power(2, 1) = 2
  BY <1>3
<1>5. \A k \in Nat : Power(2, k) \in Nat
  BY PowerPositive
<1> QED BY <1>1, <1>2, <1>4, <1>5 DEF Base

(* The place of a digit: what a one there stands for.                      *)
LEMMA Places ==
  /\ Power(Base, 0) = 1
  /\ \A k \in Nat : /\ Power(Base, k) \in Nat /\ Power(Base, k) >= 1
                    /\ Power(Base, k + 1) = Base * Power(Base, k)
<1>1. Base \in Nat /\ Base >= 1
  BY BaseNat
<1>2. \A k \in Nat : Power(Base, k) \in Nat /\ Power(Base, k) >= 1
  BY <1>1, PowerPositive
<1>3. Power(Base, 0) = 1 /\ \A k \in Nat : Power(Base, k + 1) = Base * Power(Base, k)
  BY <1>1, PowerIs
<1> QED BY <1>2, <1>3

LEMMA PlacesGrow ==
  \A j, k \in Nat : /\ j <= k => Power(Base, j) <= Power(Base, k)
                    /\ j < k => Power(Base, j) < Power(Base, k)
BY BaseNat, PowerMonotone

LEMMA DigitsAre ==
  ASSUME NEW x \in Numbers
  PROVE  /\ x.n \in 0..MaxBigits /\ x.n \in Nat
         /\ \A j \in 0..(MaxBigits - 1) : /\ x.bigits[j] \in 0..(Base - 1)
                                          /\ x.bigits[j] \in Nat /\ x.bigits[j] < Base
<1>1. x.n \in 0..MaxBigits /\ x.bigits \in [0..(MaxBigits - 1) -> 0..(Base - 1)]
  BY DEF Numbers, Indices, Bigits
<1>2. x.n \in Nat
  BY <1>1, WidthAssumption
<1>3. \A j \in 0..(MaxBigits - 1) : x.bigits[j] \in 0..(Base - 1)
  BY <1>1
<1> QED BY <1>1, <1>2, <1>3, BaseNat

(* What Upto is defined by.                                                *)
LEMMA UptoIs ==
  ASSUME NEW x \in Numbers
  PROVE  /\ Upto(x, 0) = 0
         /\ \A j \in 0..MaxBigits : Upto(x, j) \in Int
         /\ \A j \in 0..(MaxBigits - 1) :
              Upto(x, j + 1) = Upto(x, j) + x.bigits[j] * Power(Base, j)
<1> DEFINE IsUpto(v) == v = [j \in 0..MaxBigits |->
                               IF j = 0 THEN 0
                               ELSE v[j - 1] + x.bigits[j - 1] * Power(Base, j - 1)]
           Term(j) == IF j < MaxBigits THEN x.bigits[j] * Power(Base, j) ELSE 0
           s == [q \in Nat \X Int |-> q[2] + Term(q[1])]
<1>0. MaxBigits \in Nat
  BY WidthAssumption
<1>1. \A j \in Nat : Term(j) \in Int
  <2> SUFFICES ASSUME NEW j \in Nat, j < MaxBigits PROVE x.bigits[j] * Power(Base, j) \in Int
    OBVIOUS
  <2>1. j \in 0..(MaxBigits - 1)
    BY <1>0
  <2>2. x.bigits[j] \in Nat /\ Power(Base, j) \in Nat
    BY <2>1, DigitsAre, Places
  <2> QED BY <2>2
<1>2. s \in [Nat \X Int -> Int]
  <2> HIDE DEF Term
  <2> QED BY <1>1
<1>3. PICK f \in [Nat -> Int] : f[0] = 0 /\ \A k \in Nat : f[k + 1] = s[<<k, f[k]>>]
  <2>1. 0 \in Int
    OBVIOUS
  <2> HIDE DEF s
  <2> QED BY <1>2, <2>1, Recursion, Zenon
<1>4. \A k \in Nat : f[k + 1] = f[k] + Term(k)
  <2> HIDE DEF Term
  <2> QED BY <1>3
<1> DEFINE w == [j \in 0..MaxBigits |-> f[j]]
<1>5. IsUpto(w)
  <2>1. ASSUME NEW j \in 0..MaxBigits
        PROVE  w[j] = IF j = 0 THEN 0
                      ELSE w[j - 1] + x.bigits[j - 1] * Power(Base, j - 1)
    <3>1. CASE j = 0
      BY <1>3, <3>1
    <3>2. CASE j # 0
      <4>1. /\ j - 1 \in Nat /\ (j - 1) + 1 = j /\ j - 1 < MaxBigits
            /\ j - 1 \in 0..MaxBigits
        BY <1>0, <3>2
      <4>2. f[j] = f[j - 1] + Term(j - 1)
        <5> HIDE DEF Term
        <5> QED BY <1>4, <4>1
      <4> QED BY <3>2, <4>1, <4>2
    <3> QED BY <3>1, <3>2
  <2> QED BY <2>1
<1> DEFINE q == CHOOSE v : IsUpto(v)
<1>6. IsUpto(q)
  BY <1>5
<1>7. \A j : Upto(x, j) = q[j]
  BY Zenon DEF Upto
<1> HIDE DEF q, s, w, Term
<1>8. q[0] = 0
  BY <1>0, <1>6
<1>9. ASSUME NEW j \in 0..(MaxBigits - 1)
      PROVE  q[j + 1] = q[j] + x.bigits[j] * Power(Base, j)
  <2>1. j + 1 \in 0..MaxBigits /\ j + 1 # 0 /\ (j + 1) - 1 = j
    BY <1>0
  <2>2. q[j + 1] = q[(j + 1) - 1] + x.bigits[(j + 1) - 1] * Power(Base, (j + 1) - 1)
    BY <1>6, <2>1
  <2> QED BY <2>1, <2>2
<1>10. \A j \in 0..MaxBigits : q[j] \in Int
  <2> DEFINE S == {j \in Nat : q[j] \in Int}
  <2>1. 0 \in S
    BY <1>8
  <2>2. ASSUME NEW j \in 0..(MaxBigits - 1), j \in S PROVE j + 1 \in S
    <3>1. x.bigits[j] \in Nat /\ Power(Base, j) \in Nat /\ j \in Nat
      BY DigitsAre, Places
    <3> QED BY <1>9, <2>2, <3>1
  <2>3. 0..MaxBigits \subseteq S
    <3> HIDE DEF S
    <3> QED BY <1>0, <2>1, <2>2, InductionUpto
  <2> QED BY <2>3
<1> QED BY <1>7, <1>8, <1>9, <1>10

LEMMA UptoBound ==
  ASSUME NEW x \in Numbers
  PROVE  \A j \in 0..MaxBigits : Upto(x, j) \in Nat /\ Upto(x, j) < Power(Base, j)
<1> DEFINE S == {j \in Nat : Upto(x, j) \in Nat /\ Upto(x, j) < Power(Base, j)}
<1>0. MaxBigits \in Nat
  BY WidthAssumption
<1>1. 0 \in S
  BY UptoIs, Places
<1>2. ASSUME NEW j \in 0..(MaxBigits - 1), j \in S PROVE j + 1 \in S
  <2>1. /\ j \in Nat /\ x.bigits[j] \in Nat /\ x.bigits[j] < Base
        /\ Upto(x, j) \in Nat /\ Upto(x, j) < Power(Base, j)
    BY <1>2, DigitsAre
  <2>2. Power(Base, j) \in Nat /\ Power(Base, j + 1) = Base * Power(Base, j)
    BY <2>1, Places
  <2>3. \A u, d, p, b \in Nat : u < p /\ d < b => u + d * p \in Nat /\ u + d * p < b * p
    <3> SUFFICES ASSUME NEW u \in Nat, NEW d \in Nat, NEW p \in Nat, NEW b \in Nat,
                        u < p, d < b
                 PROVE  u + d * p \in Nat /\ u + d * p < b * p
      OBVIOUS
    <3>1. d * p \in Nat /\ (d + 1) * p = d * p + p
      OBVIOUS
    <3>2. (d + 1) * p <= b * p
      OBVIOUS
    <3> QED BY <3>1, <3>2
  <2>4. Upto(x, j + 1) = Upto(x, j) + x.bigits[j] * Power(Base, j)
    BY UptoIs
  <2>5. /\ Upto(x, j) + x.bigits[j] * Power(Base, j) \in Nat
        /\ Upto(x, j) + x.bigits[j] * Power(Base, j) < Base * Power(Base, j)
    BY <2>1, <2>2, <2>3, BaseNat, Zenon
  <2>6. j + 1 \in Nat
    BY <2>1
  <2> HIDE DEF S
  <2>7. Upto(x, j + 1) \in Nat /\ Upto(x, j + 1) < Power(Base, j + 1)
    BY <2>2, <2>4, <2>5, Zenon
  <2> QED BY <2>6, <2>7 DEF S
<1>3. 0..MaxBigits \subseteq S
  <2> HIDE DEF S
  <2> QED BY <1>0, <1>1, <1>2, InductionUpto
<1> QED BY <1>3

(* What the digits from j to k add.                                        *)
LEMMA UptoGrows ==
  ASSUME NEW x \in Numbers, NEW j \in 0..MaxBigits
  PROVE  \A k \in 0..MaxBigits : j <= k => Upto(x, j) <= Upto(x, k)
<1> DEFINE S == {k \in Nat : j <= k => Upto(x, j) <= Upto(x, k)}
<1>0. MaxBigits \in Nat /\ j \in Nat
  BY WidthAssumption
<1>1. 0 \in S
  BY <1>0, UptoBound
<1>2. ASSUME NEW k \in 0..(MaxBigits - 1), k \in S PROVE k + 1 \in S
  <2>1. Upto(x, k + 1) = Upto(x, k) + x.bigits[k] * Power(Base, k)
    BY UptoIs
  <2>2. k \in Nat /\ x.bigits[k] \in Nat /\ Power(Base, k) \in Nat
    BY DigitsAre, Places
  <2>3. Upto(x, j) \in Nat /\ Upto(x, k) \in Nat
    BY <1>0, UptoBound
  <2>4. \A a, b \in Nat : a * b \in Nat
    OBVIOUS
  <2>5. x.bigits[k] * Power(Base, k) \in Nat
    BY <2>2, <2>4
  <2>6. j = k + 1 \/ (j <= k + 1 => j <= k)
    BY <1>0
  <2>7. CASE j = k + 1
    BY <2>1, <2>2, <2>3, <2>5, <2>7
  <2>8. CASE j # k + 1
    BY <1>2, <2>1, <2>2, <2>3, <2>5, <2>6, <2>8
  <2> QED BY <2>7, <2>8
<1>3. 0..MaxBigits \subseteq S
  <2> HIDE DEF S
  <2> QED BY <1>0, <1>1, <1>2, InductionUpto
<1> QED BY <1>3

LEMMA UptoDigit ==
  ASSUME NEW x \in Numbers, NEW k \in 0..MaxBigits, NEW j \in 0..(k - 1), x.bigits[j] > 0
  PROVE  Upto(x, k) >= Power(Base, j)
<1>0. MaxBigits \in Nat /\ j \in 0..(MaxBigits - 1) /\ j + 1 \in 0..MaxBigits /\ j \in Nat
  BY WidthAssumption
<1>1. Upto(x, j + 1) = Upto(x, j) + x.bigits[j] * Power(Base, j)
  BY <1>0, UptoIs
<1>2. x.bigits[j] \in Nat /\ Power(Base, j) \in Nat
  BY <1>0, DigitsAre, Places
<1>3. Upto(x, j) \in Nat /\ Upto(x, j + 1) \in Nat /\ Upto(x, k) \in Nat
  BY <1>0, UptoBound
<1>4. \A d, p \in Nat : d > 0 => d * p >= p /\ d * p \in Nat
  OBVIOUS
<1>5. Upto(x, j + 1) <= Upto(x, k)
  BY <1>0, UptoGrows
<1>6. x.bigits[j] * Power(Base, j) >= Power(Base, j) /\ x.bigits[j] * Power(Base, j) \in Nat
  BY <1>2, <1>4
<1> QED BY <1>1, <1>2, <1>3, <1>5, <1>6

(* Numbers with the same digits stand for the same.                        *)
LEMMA UptoSame ==
  ASSUME NEW x \in Numbers, NEW y \in Numbers, NEW k \in 0..MaxBigits,
         \A j \in 0..(k - 1) : x.bigits[j] = y.bigits[j]
  PROVE  Upto(x, k) = Upto(y, k)
<1> DEFINE S == {j \in Nat : Upto(x, j) = Upto(y, j)}
<1>0. MaxBigits \in Nat /\ k \in Nat
  BY WidthAssumption
<1>1. 0 \in S
  BY UptoIs
<1>2. ASSUME NEW j \in 0..(k - 1), j \in S PROVE j + 1 \in S
  <2>1. j \in 0..(MaxBigits - 1) /\ j + 1 \in Nat
    BY <1>0
  <2>2. /\ Upto(x, j + 1) = Upto(x, j) + x.bigits[j] * Power(Base, j)
        /\ Upto(y, j + 1) = Upto(y, j) + y.bigits[j] * Power(Base, j)
    BY <2>1, UptoIs
  <2> QED BY <1>2, <2>1, <2>2
<1>3. 0..k \subseteq S
  <2> HIDE DEF S
  <2> QED BY <1>0, <1>1, <1>2, InductionUpto
<1>4. k \in 0..k
  BY <1>0
<1> QED BY <1>3, <1>4

(* Zeros add nothing.                                                      *)
LEMMA UptoZeros ==
  ASSUME NEW x \in Numbers, NEW j \in 0..MaxBigits,
         \A k \in 0..(MaxBigits - 1) : k >= j => x.bigits[k] = 0
  PROVE  \A k \in 0..MaxBigits : k >= j => Upto(x, k) = Upto(x, j)
<1> DEFINE S == {k \in Nat : k >= j => Upto(x, k) = Upto(x, j)}
<1>0. MaxBigits \in Nat /\ j \in Nat
  BY WidthAssumption
<1>1. 0 \in S
  BY <1>0
<1>2. ASSUME NEW k \in 0..(MaxBigits - 1), k \in S PROVE k + 1 \in S
  <2>1. CASE k >= j
    <3>1. x.bigits[k] = 0 /\ Power(Base, k) \in Nat /\ Upto(x, k) \in Int
      BY <1>0, <2>1, Places, UptoIs
    <3>2. Upto(x, k + 1) = Upto(x, k) + x.bigits[k] * Power(Base, k)
      BY UptoIs
    <3> QED BY <1>2, <2>1, <3>1, <3>2
  <2>2. CASE ~(k >= j)
    BY <1>0, <2>2
  <2> QED BY <2>1, <2>2
<1>3. 0..MaxBigits \subseteq S
  <2> HIDE DEF S
  <2> QED BY <1>0, <1>1, <1>2, InductionUpto
<1> QED BY <1>3

(* What another digit at one place adds.                                   *)
LEMMA UptoChanged ==
  ASSUME NEW x \in Numbers, NEW y \in Numbers, NEW p \in 0..(MaxBigits - 1),
         \A j \in 0..(MaxBigits - 1) : j # p => y.bigits[j] = x.bigits[j]
  PROVE  /\ \A k \in 0..p : Upto(y, k) = Upto(x, k)
         /\ \A k \in 0..MaxBigits :
              k > p => Upto(y, k) = Upto(x, k) + (y.bigits[p] - x.bigits[p]) * Power(Base, p)
<1> DEFINE More == (y.bigits[p] - x.bigits[p]) * Power(Base, p)
           S == {k \in Nat : k > p => Upto(y, k) = Upto(x, k) + More}
<1>0. MaxBigits \in Nat /\ p \in Nat /\ p + 1 \in 0..MaxBigits
  BY WidthAssumption
<1>1. \A k \in 0..p : Upto(y, k) = Upto(x, k)
  <2> SUFFICES ASSUME NEW k \in 0..p PROVE Upto(y, k) = Upto(x, k)
    OBVIOUS
  <2>1. k \in 0..MaxBigits /\ \A j \in 0..(k - 1) : x.bigits[j] = y.bigits[j]
    BY <1>0
  <2> QED BY <2>1, UptoSame
<1>2. 0 \in S
  BY <1>0
<1>3. x.bigits[p] \in Nat /\ y.bigits[p] \in Nat /\ Power(Base, p) \in Nat
  BY <1>0, DigitsAre, Places
<1>4. More \in Int
  BY <1>3
<1>5. ASSUME NEW k \in 0..(MaxBigits - 1), k \in S PROVE k + 1 \in S
  <2>1. /\ Upto(x, k + 1) = Upto(x, k) + x.bigits[k] * Power(Base, k)
        /\ Upto(y, k + 1) = Upto(y, k) + y.bigits[k] * Power(Base, k)
    BY UptoIs
  <2>2. /\ Upto(x, k) \in Int /\ x.bigits[k] \in Nat /\ Power(Base, k) \in Nat
        /\ k + 1 \in Nat /\ Upto(y, k) \in Int /\ y.bigits[k] \in Nat
    BY <1>0, UptoIs, DigitsAre, Places
  <2>3. CASE k > p
    <3>1. y.bigits[k] = x.bigits[k] /\ Upto(y, k) = Upto(x, k) + More
      BY <1>5, <2>3
    <3>2. x.bigits[k] * Power(Base, k) \in Int
      BY <2>2
    <3> HIDE DEF More
    <3> QED BY <1>4, <2>1, <2>2, <3>1, <3>2
  <2>4. CASE k = p
    <3>1. Upto(y, p) = Upto(x, p)
      BY <1>0, <1>1
    <3>2. y.bigits[p] * Power(Base, p) = x.bigits[p] * Power(Base, p) + More
      BY <1>3
    <3>3. x.bigits[p] * Power(Base, p) \in Int
      BY <1>3
    <3> HIDE DEF More
    <3> QED BY <1>4, <2>1, <2>2, <2>4, <3>1, <3>2, <3>3
  <2>5. CASE k < p
    BY <1>0, <2>5
  <2> QED BY <1>0, <2>3, <2>4, <2>5
<1>6. 0..MaxBigits \subseteq S
  <2> HIDE DEF S
  <2> QED BY <1>0, <1>2, <1>5, InductionUpto
<1> QED BY <1>1, <1>6

(* All the digits of the array.                                            *)
Full(x) == Upto(x, MaxBigits)

LEMMA ValueIs ==
  ASSUME NEW x \in Numbers
  PROVE  /\ Value(x) \in Nat /\ Value(x) < Power(Base, x.n)
         /\ Full(x) \in Nat /\ Full(x) < Power(Base, MaxBigits)
         /\ ZeroAbove(x) => Value(x) = Full(x)
         /\ Clamped(x) /\ x.n > 0 => Value(x) >= Power(Base, x.n - 1)
<1>0. MaxBigits \in Nat /\ MaxBigits \in 0..MaxBigits /\ x.n \in 0..MaxBigits
  BY WidthAssumption, DigitsAre
<1>1. Value(x) \in Nat /\ Value(x) < Power(Base, x.n)
  BY <1>0, UptoBound DEF Value
<1>2. Full(x) \in Nat /\ Full(x) < Power(Base, MaxBigits)
  BY <1>0, UptoBound DEF Full
<1>3. ASSUME ZeroAbove(x) PROVE Value(x) = Full(x)
  <2>1. \A k \in 0..(MaxBigits - 1) : k >= x.n => x.bigits[k] = 0
    BY <1>3 DEF ZeroAbove, Indices
  <2>2. \A k \in 0..MaxBigits : k >= x.n => Upto(x, k) = Upto(x, x.n)
    BY <1>0, <2>1, UptoZeros
  <2> QED BY <1>0, <2>2 DEF Value, Full
<1>4. ASSUME Clamped(x), x.n > 0 PROVE Value(x) >= Power(Base, x.n - 1)
  <2>1. x.n - 1 \in 0..(x.n - 1) /\ x.bigits[x.n - 1] > 0
    BY <1>0, <1>4 DEF Clamped
  <2> QED BY <1>0, <2>1, UptoDigit DEF Value
<1> QED BY <1>1, <1>2, <1>3, <1>4

(* A number less than a place has no digit there or above.                 *)
LEMMA SmallHasZeros ==
  ASSUME NEW x \in Numbers, NEW n \in 0..MaxBigits, Full(x) < Power(Base, n)
  PROVE  \A j \in 0..(MaxBigits - 1) : j >= n => x.bigits[j] = 0
<1>1. SUFFICES ASSUME NEW j \in 0..(MaxBigits - 1), j >= n, x.bigits[j] # 0
               PROVE  FALSE
  OBVIOUS
<1>2. MaxBigits \in Nat /\ MaxBigits \in 0..MaxBigits /\ j \in Nat /\ n \in Nat
  BY WidthAssumption
<1>3. x.bigits[j] > 0
  BY <1>1, DigitsAre
<1>4. Full(x) >= Power(Base, j)
  BY <1>2, <1>3, UptoDigit DEF Full
<1>5. Power(Base, n) <= Power(Base, j)
  BY <1>1, <1>2, PlacesGrow
<1>6. Full(x) \in Nat /\ Power(Base, n) \in Nat /\ Power(Base, j) \in Nat
  BY <1>2, ValueIs, Places
<1> QED BY <1>4, <1>5, <1>6

(* A number as large as a place has a digit there or above.                *)
LEMMA LargeHasTop ==
  ASSUME NEW x \in Numbers, NEW n \in 1..MaxBigits, Upto(x, n) >= Power(Base, n - 1)
  PROVE  x.bigits[n - 1] > 0
<1>1. MaxBigits \in Nat /\ n - 1 \in 0..(MaxBigits - 1) /\ n - 1 \in 0..MaxBigits
      /\ n \in 0..MaxBigits /\ n - 1 \in Nat /\ (n - 1) + 1 = n
  BY WidthAssumption
<1>2. SUFFICES ASSUME x.bigits[n - 1] = 0 PROVE FALSE
  BY <1>1, DigitsAre
<1>3. Upto(x, n) = Upto(x, n - 1) + x.bigits[n - 1] * Power(Base, n - 1)
  BY <1>1, UptoIs
<1>4. Power(Base, n - 1) \in Nat /\ Upto(x, n - 1) \in Nat /\ Upto(x, n - 1) < Power(Base, n - 1)
  BY <1>1, Places, UptoBound
<1> QED BY <1>2, <1>3, <1>4

(* The longer of two numbers is the greater.                               *)
LEMMA LongerIsGreater ==
  ASSUME NEW x \in Numbers, NEW y \in Numbers, Clamped(y), x.n < y.n
  PROVE  Value(x) < Value(y)
<1>1. x.n \in Nat /\ y.n \in Nat /\ y.n > 0 /\ y.n - 1 \in Nat /\ x.n <= y.n - 1
  BY DigitsAre
<1>2. Power(Base, x.n) <= Power(Base, y.n - 1)
  BY <1>1, PlacesGrow
<1>3. Value(x) \in Nat /\ Value(x) < Power(Base, x.n)
  BY ValueIs
<1>4. Value(y) \in Nat /\ Value(y) >= Power(Base, y.n - 1)
  BY <1>1, ValueIs
<1>5. Power(Base, x.n) \in Nat /\ Power(Base, y.n - 1) \in Nat
  BY <1>1, Places
<1> QED BY <1>2, <1>3, <1>4, <1>5

LEMMA SameLength ==
  ASSUME NEW x \in Numbers, NEW y \in Numbers, Clamped(x), Clamped(y), Value(x) = Value(y)
  PROVE  x.n = y.n
<1>1. x.n \in Nat /\ y.n \in Nat /\ Value(x) \in Nat
  BY DigitsAre, ValueIs
<1>2. ~(x.n < y.n)
  BY <1>1, LongerIsGreater
<1>3. ~(y.n < x.n)
  BY <1>1, LongerIsGreater
<1> QED BY <1>1, <1>2, <1>3

(* A number less than a place is as short.                                 *)
LEMMA SmallIsShort ==
  ASSUME NEW x \in Numbers, Clamped(x), NEW n \in Nat, Value(x) < Power(Base, n)
  PROVE  x.n <= n
<1>1. x.n \in Nat
  BY DigitsAre
<1>2. SUFFICES ASSUME x.n > n PROVE FALSE
  BY <1>1
<1>3. x.n - 1 \in Nat /\ n <= x.n - 1 /\ x.n > 0
  BY <1>1, <1>2
<1>4. Value(x) >= Power(Base, x.n - 1) /\ Value(x) \in Nat
  BY <1>3, ValueIs
<1>5. Power(Base, n) <= Power(Base, x.n - 1)
  BY <1>3, PlacesGrow
<1>6. Power(Base, n) \in Nat /\ Power(Base, x.n - 1) \in Nat
  BY <1>3, Places
<1> QED BY <1>4, <1>5, <1>6

-----------------------------------------------------------------------------
(***************************************************************************)
(* Arithmetic of one digit.                                                *)
(***************************************************************************)

LEMMA Division ==
  ASSUME NEW a \in Int, NEW b \in Nat, b >= 1
  PROVE  /\ a \div b \in Int /\ a % b \in Int /\ a % b >= 0 /\ a % b < b
         /\ a = (a \div b) * b + (a % b)
         /\ a >= 0 => a \div b >= 0 /\ a \div b <= a
         /\ a >= 0 /\ a < b => a \div b = 0 /\ a % b = a
<1>1. a \div b \in Int /\ a % b \in Int /\ a % b >= 0 /\ a % b < b
  OBVIOUS
<1>2. a = b * (a \div b) + (a % b)
  OBVIOUS
<1>3. b * (a \div b) = (a \div b) * b
  BY <1>1
<1>4. ASSUME a >= 0 PROVE a \div b >= 0 /\ a \div b <= a
  <2>1. \A q \in Int : q < 0 => q * b <= -b
    OBVIOUS
  <2>2. a \div b >= 0
    BY <1>1, <1>2, <1>3, <1>4, <2>1
  <2>3. \A q \in Nat : q * b >= q
    OBVIOUS
  <2> QED BY <1>1, <1>2, <1>3, <2>2, <2>3
<1>5. ASSUME a >= 0, a < b PROVE a \div b = 0 /\ a % b = a
  <2>1. \A q \in Int : q >= 1 => q * b >= b
    OBVIOUS
  <2>2. a \div b = 0
    BY <1>1, <1>2, <1>3, <1>4, <1>5, <2>1
  <2> QED BY <1>1, <1>2, <2>2
<1> QED BY <1>1, <1>2, <1>3, <1>4, <1>5

(* A quotient and a remainder are the only ones.                           *)
LEMMA DivisionUnique ==
  ASSUME NEW a \in Int, NEW b \in Nat, b >= 1, NEW q \in Int, NEW r \in Int,
         0 <= r, r < b, a = q * b + r
  PROVE  a \div b = q /\ a % b = r
<1> DEFINE p == a \div b
           s == a % b
<1>1. p \in Int /\ s \in Int /\ 0 <= s /\ s < b /\ a = p * b + s
  BY Division
<1> HIDE DEF p, s
<1>2. (p - q) * b = r - s
  BY <1>1
<1>3. \A d \in Int : (d >= 1 => d * b >= b) /\ (d <= -1 => d * b <= -b)
  OBVIOUS
<1>4. p - q = 0
  BY <1>1, <1>2, <1>3
<1>5. p = q /\ s = r
  BY <1>1, <1>4
<1> QED BY <1>5 DEF p, s

(* The quotient of less than b times c by b is less than c.                *)
LEMMA QuotientBound ==
  ASSUME NEW a \in Int, NEW b \in Nat, b >= 1, NEW c \in Int, a < c * b
  PROVE  a \div b < c
<1> DEFINE p == a \div b
           s == a % b
<1>1. p \in Int /\ s \in Int /\ 0 <= s /\ s < b /\ a = p * b + s
  BY Division
<1> HIDE DEF p, s
<1>2. \A d \in Int : d >= 0 => d * b >= 0
  OBVIOUS
<1>3. (p - c) * b = p * b - c * b /\ p - c \in Int /\ p * b \in Int /\ c * b \in Int
  BY <1>1
<1>4. ~(p - c >= 0)
  BY <1>1, <1>2, <1>3
<1> QED BY <1>1, <1>4 DEF p

LEMMA BaseSquare ==
  /\ Power(Base, 2) = Base * Base
  /\ Power(Base, 2) \in Nat /\ Power(Base, 2) >= 1
<1>1. Power(Base, 0) = 1 /\ Power(Base, 0 + 1) = Base * Power(Base, 0)
      /\ Power(Base, 1 + 1) = Base * Power(Base, 1)
  BY Places
<1>2. Power(Base, 1) = Base
  BY <1>1, BaseNat
<1>3. Power(Base, 2) = Base * Base
  BY <1>1, <1>2
<1>4. Base * Base \in Nat /\ Base * Base >= 1
  BY BaseNat
<1> QED BY <1>3, <1>4

(* One step of a product: the carry fits in two digits, and nothing is     *)
(* lost.                                                                   *)
LEMMA MultiplyExact ==
  ASSUME NEW a \in Nat, a < Power(Base, 2), NEW d \in 0..(Base - 1),
         NEW c \in 0..(Power(Base, 2) - 1)
  PROVE  LET low  == (a % Base) * d + (c % Base)
             high == (a \div Base) * d
         IN  /\ low \in Nat /\ low % Base \in 0..(Base - 1)
             /\ MultiplyCarry(low, high, c) \in 0..(Power(Base, 2) - 1)
             /\ (low % Base) + MultiplyCarry(low, high, c) * Base = a * d + c
<1> DEFINE low  == (a % Base) * d + (c % Base)
           high == (a \div Base) * d
<1>0. PICK b \in Nat : b = Base /\ b >= 2
  BY BaseNat
<1>1. Power(Base, 2) = b * b /\ b * b \in Nat /\ a < b * b /\ c \in Nat /\ c < b * b
      /\ d \in Nat /\ d <= b - 1
  BY <1>0, BaseSquare
<1>2. PICK a1 \in Nat, a0 \in Nat : a1 = a \div b /\ a0 = a % b /\ a0 < b /\ a = a1 * b + a0
  BY <1>0, Division
<1>3. PICK c1 \in Nat, c0 \in Nat : c1 = c \div b /\ c0 = c % b /\ c0 < b /\ c = c1 * b + c0
  <2>1. /\ c \div b \in Int /\ c % b \in Int /\ c % b >= 0 /\ c % b < b
        /\ c = (c \div b) * b + (c % b) /\ c \div b >= 0
    BY <1>0, <1>1, Division
  <2>2. c \div b \in Nat /\ c % b \in Nat
    BY <2>1
  <2> QED BY <2>1, <2>2, Zenon
<1>4. a1 < b /\ c1 < b
  BY <1>0, <1>1, <1>2, <1>3, QuotientBound
<1>5. low = a0 * d + c0 /\ high = a1 * d /\ low \in Nat /\ high \in Nat
  BY <1>0, <1>1, <1>2, <1>3
<1>6. PICK l1 \in Nat, l0 \in Nat : /\ l1 = low \div b /\ l0 = low % b /\ l0 < b
                                    /\ low = l1 * b + l0
  <2> HIDE DEF low
  <2>1. /\ low \div b \in Int /\ low % b \in Int /\ low % b >= 0 /\ low % b < b
        /\ low = (low \div b) * b + (low % b) /\ low \div b >= 0
    BY <1>0, <1>5, Division
  <2>2. low \div b \in Nat /\ low % b \in Nat
    BY <2>1
  <2> QED BY <2>1, <2>2, Zenon
<1> HIDE DEF low, high
<1>7. a0 * d <= (b - 1) * (b - 1) /\ a1 * d <= (b - 1) * (b - 1)
  <2>1. \A x, y, m \in Nat : x <= m /\ y <= m => x * y <= m * m
    <3> SUFFICES ASSUME NEW x \in Nat, NEW y \in Nat, NEW m \in Nat, x <= m, y <= m
                 PROVE  x * y <= m * m
      OBVIOUS
    <3>1. x * y <= m * y
      OBVIOUS
    <3>2. m * y <= m * m
      OBVIOUS
    <3> QED BY <3>1, <3>2
  <2>2. b - 1 \in Nat /\ a0 <= b - 1 /\ a1 <= b - 1 /\ d <= b - 1
    BY <1>0, <1>1, <1>2, <1>4
  <2> QED BY <1>1, <2>1, <2>2
<1>8. (b - 1) * (b - 1) = b * b - 2 * b + 1
  BY <1>0
<1>9. l1 < b
  <2>1. low < b * b
    BY <1>0, <1>1, <1>3, <1>5, <1>7, <1>8
  <2> QED BY <1>0, <1>5, <1>6, <2>1, QuotientBound
<1> DEFINE carried == high + l1 + c1
<1>10. carried \in Nat /\ carried < b * b
  BY <1>0, <1>1, <1>4, <1>5, <1>7, <1>8, <1>9
<1>11. MultiplyCarry(low, high, c) = carried
  <2>1. MultiplyCarry(low, high, c) = carried % (b * b)
    BY <1>0, <1>1, <1>3, <1>6 DEF MultiplyCarry
  <2>2. b * b >= 1
    BY <1>0, <1>1, <1>10
  <2> HIDE DEF carried
  <2> QED BY <1>1, <1>10, <2>1, <2>2, Division
<1>12. l0 + carried * b = a * d + c
  <2>1. carried * b = high * b + l1 * b + c1 * b
    BY <1>5
  <2>2. high * b = (a1 * b) * d
    BY <1>5
  <2>3. a * d = (a1 * b) * d + a0 * d
    BY <1>1, <1>2
  <2>4. l1 * b + l0 = a0 * d + c0
    BY <1>5, <1>6
  <2> HIDE DEF carried
  <2>5. /\ l1 * b \in Int /\ c1 * b \in Int /\ (a1 * b) * d \in Int /\ a0 * d \in Int
        /\ high * b \in Int /\ carried * b \in Int
    BY <1>1, <1>5, <1>10
  <2> QED BY <1>1, <1>3, <2>1, <2>2, <2>3, <2>4, <2>5
<1>13. low % Base \in 0..(Base - 1) /\ low % Base = l0
  BY <1>0, <1>6
<1>14. (low % Base) + MultiplyCarry(low, high, c) * Base = a * d + c
  BY <1>0, <1>11, <1>12, <1>13
<1>15. MultiplyCarry(low, high, c) \in 0..(Power(Base, 2) - 1)
  <2> HIDE DEF carried
  <2> QED BY <1>1, <1>10, <1>11
<1> QED BY <1>5, <1>13, <1>14, <1>15 DEF low, high

(* One step of a sum.                                                      *)
LEMMA AddExact ==
  ASSUME NEW s \in Nat, s < 2 * Base
  PROVE  /\ s % Base \in 0..(Base - 1) /\ s \div Base \in 0..1
         /\ (s % Base) + (s \div Base) * Base = s
<1>0. PICK b \in Nat : b = Base /\ b >= 2
  BY BaseNat
<1>1. /\ s \div b \in Int /\ s % b \in Int /\ s % b >= 0 /\ s % b < b
      /\ s = (s \div b) * b + (s % b) /\ s \div b >= 0
  BY <1>0, Division
<1>2. s \div b < 2
  BY <1>0, QuotientBound
<1> QED BY <1>0, <1>1, <1>2

(* One step of a difference.                                               *)
LEMMA SubtractExact ==
  ASSUME NEW l \in 0..(Base - 1), NEW r \in 0..(Base - 1), NEW c \in 0..1
  PROVE  /\ (l - r - c) % Base \in 0..(Base - 1)
         /\ (l - r - c) % Base
              = l - r - c + (IF l < r \/ (l = r /\ c > 0) THEN Base ELSE 0)
<1>0. PICK b \in Nat : b = Base /\ b >= 2
  BY BaseNat
<1>1. l \in Int /\ 0 <= l /\ l < b /\ r \in Int /\ 0 <= r /\ r < b /\ c \in Int /\ 0 <= c /\ c <= 1
  BY <1>0
<1> DEFINE d == l - r - c
<1>2. CASE l < r \/ (l = r /\ c > 0)
  <2>1. d \in Int /\ d + b \in Int /\ 0 <= d + b /\ d + b < b /\ d = (-1) * b + (d + b)
    BY <1>0, <1>1, <1>2
  <2>2. -1 \in Int /\ b >= 1
    BY <1>0
  <2> HIDE DEF d
  <2>3. d % b = d + b
    BY <2>1, <2>2, DivisionUnique, Zenon
  <2>4. d % Base = d + Base /\ d % Base \in 0..(Base - 1)
    BY <1>0, <2>1, <2>3
  <2> QED BY <1>2, <2>4 DEF d
<1>3. CASE ~(l < r \/ (l = r /\ c > 0))
  <2>1. d \in Int /\ 0 <= d /\ d < b /\ b >= 1
    BY <1>0, <1>1, <1>3
  <2> HIDE DEF d
  <2>2. d % b = d
    BY <2>1, Division
  <2>3. d % Base = d + 0 /\ d % Base \in 0..(Base - 1)
    BY <1>0, <2>1, <2>2
  <2> QED BY <1>3, <2>3 DEF d
<1> QED BY <1>2, <1>3

(* A digit shifted by less than its width: the bits that leave it.         *)
LEMMA ShiftedBits ==
  ASSUME NEW u \in Nat, NEW v \in Nat, u >= 1, v >= 1, Base = u * v, NEW d \in 0..(Base - 1)
  PROVE  /\ (d * u) \div Base \in 0..(u - 1)
         /\ (d * u) % Base \in 0..(Base - u)
         /\ d * u = ((d * u) \div Base) * Base + ((d * u) % Base)
<1>0. PICK b \in Nat : b = Base /\ b >= 2 /\ b = u * v
  BY BaseNat
<1>1. d \in Nat /\ d < u * v
  BY <1>0
<1>2. /\ d \div v \in Int /\ d % v \in Int /\ d % v >= 0 /\ d % v < v
      /\ d = (d \div v) * v + (d % v) /\ d \div v >= 0
  BY <1>1, Division
<1>3. d \div v < u
  BY <1>1, QuotientBound
<1>4. PICK q \in Nat, t \in Nat : q < u /\ t < v /\ d = q * v + t
  <2>1. d \div v \in Nat /\ d % v \in Nat
    BY <1>2
  <2> QED BY <1>2, <1>3, <2>1, Zenon
<1>5. d * u = q * b + t * u
  <2>1. (q * v + t) * u = q * (u * v) + t * u
    OBVIOUS
  <2> QED BY <1>0, <1>4, <2>1
<1>6. t * u \in Nat /\ t * u <= b - u
  <2>1. t + 1 <= v
    BY <1>4
  <2>2. \A x, y \in Nat : x <= y => x * u <= y * u
    OBVIOUS
  <2>3. (t + 1) * u <= v * u
    BY <2>1, <2>2
  <2>4. (t + 1) * u = t * u + u /\ v * u = u * v /\ t * u \in Nat
    OBVIOUS
  <2> QED BY <1>0, <2>3, <2>4
<1>7. (d * u) \div b = q /\ (d * u) % b = t * u
  <2>1. d * u \in Int /\ b >= 1 /\ q \in Int /\ t * u \in Int /\ 0 <= t * u /\ t * u < b
    BY <1>0, <1>1, <1>6
  <2> QED BY <1>5, <2>1, DivisionUnique, Zenon
<1>8. q \in 0..(u - 1) /\ t * u \in 0..(b - u)
  BY <1>0, <1>4, <1>6
<1> QED BY <1>0, <1>5, <1>7, <1>8, Zenon

LEMMA UnitDividesBase ==
  ASSUME NEW r \in 0..(BigitBits - 1)
  PROVE  LET u == Power(2, r)
             v == Power(2, BigitBits - r)
         IN  u \in Nat /\ u >= 1 /\ v \in Nat /\ v >= 1 /\ Base = u * v
<1>1. r \in Nat /\ BigitBits - r \in Nat /\ r + (BigitBits - r) = BigitBits
  BY WidthAssumption
<1>2. \A n \in Nat : Power(2, n) \in Nat /\ Power(2, n) >= 1
  <2>1. PICK t \in Nat : t = 2 /\ t >= 1
    OBVIOUS
  <2>2. \A n \in Nat : Power(t, n) \in Nat /\ Power(t, n) >= 1
    BY <2>1, PowerPositive, Zenon
  <2> QED BY <2>1, <2>2, Zenon
<1>3. Power(2, r + (BigitBits - r)) = Power(2, r) * Power(2, BigitBits - r)
  BY <1>1, PowerAdd
<1> QED BY <1>1, <1>2, <1>3 DEF Base

-----------------------------------------------------------------------------
(***************************************************************************)
(* Shifts.                                                                 *)
(***************************************************************************)

(* A power of two as whole digits and the rest.                            *)
LEMMA ShiftParts ==
  ASSUME NEW a \in Nat
  PROVE  /\ a \div BigitBits \in Nat /\ a % BigitBits \in 0..(BigitBits - 1)
         /\ Power(2, a) = Power(Base, a \div BigitBits) * Power(2, a % BigitBits)
<1>1. BigitBits \in Nat /\ BigitBits >= 1
  BY WidthAssumption
<1>2. /\ a \div BigitBits \in Nat /\ a % BigitBits \in Nat
      /\ a % BigitBits \in 0..(BigitBits - 1)
      /\ a = (a \div BigitBits) * BigitBits + (a % BigitBits)
  BY <1>1, Division
<1>3. PICK q \in Nat, r \in Nat : q = a \div BigitBits /\ r = a % BigitBits
  BY <1>2
<1>4. BigitBits * q \in Nat /\ a = BigitBits * q + r
  BY <1>1, <1>2, <1>3
<1>5. Power(2, BigitBits * q + r) = Power(2, BigitBits * q) * Power(2, r)
  BY <1>4, PowerAdd
<1>6. Power(Power(2, BigitBits), q) = Power(2, BigitBits * q)
  BY <1>1, PowerPower
<1> QED BY <1>2, <1>3, <1>4, <1>5, <1>6 DEF Base

(* The bits that the digit below a shifted one loses to it.                *)
LostBits(x, a, j) ==
  IF j > a \div BigitBits
  THEN (x.bigits[j - a \div BigitBits - 1] * Power(2, a % BigitBits)) \div Base
  ELSE 0

LEMMA ShiftedDigit ==
  ASSUME NEW x \in Numbers, NEW a \in Nat, NEW j \in 0..(MaxBigits - 1)
  PROVE  LET q == a \div BigitBits
             u == Power(2, a % BigitBits)
         IN  /\ LeftShiftedBigit(x, a, j) \in 0..(Base - 1)
             /\ LostBits(x, a, j) \in 0..(u - 1)
             /\ j < q => LeftShiftedBigit(x, a, j) = 0
             /\ j >= q => LeftShiftedBigit(x, a, j)
                            = ((x.bigits[j - q] * u) % Base) + LostBits(x, a, j)
<1>0. a \div BigitBits \in Nat /\ a % BigitBits \in 0..(BigitBits - 1) /\ MaxBigits \in Nat
  BY ShiftParts, WidthAssumption
<1>1. PICK q \in Nat : q = a \div BigitBits
  BY <1>0
<1>2. PICK u \in Nat, v \in Nat : u = Power(2, a % BigitBits) /\ u >= 1 /\ v >= 1 /\ Base = u * v
  BY <1>0, UnitDividesBase
<1>3. PICK b \in Nat : b = Base /\ b >= 2 /\ b = u * v
  BY <1>2, BaseNat
<1>4. u <= b
  <2>1. \A k, m \in Nat : m >= 1 => k <= k * m
    OBVIOUS
  <2> QED BY <1>2, <1>3, <2>1
<1>5. \A d \in 0..(Base - 1) : (d * u) \div Base \in 0..(u - 1) /\ (d * u) % Base \in 0..(Base - u)
  BY <1>2, ShiftedBits
<1>6. \A k \in 0..(MaxBigits - 1) : x.bigits[k] \in 0..(Base - 1)
  BY DigitsAre
<1>7. LostBits(x, a, j) \in 0..(u - 1)
  <2>1. CASE j > q
    <3>1. j - q - 1 \in 0..(MaxBigits - 1)
      BY <1>0, <1>1, <2>1
    <3> QED BY <1>1, <1>2, <1>5, <1>6, <2>1, <3>1, Zenon DEF LostBits
  <2>2. CASE ~(j > q)
    <3>1. LostBits(x, a, j) = 0
      BY <1>1, <2>2, Zenon DEF LostBits
    <3> QED BY <1>2, <3>1
  <2> QED BY <2>1, <2>2
<1>8. LeftShiftedBigit(x, a, j)
        = (IF j - q >= 0 THEN (x.bigits[j - q] * u) % Base ELSE 0)
            + (IF j - q >= 1 THEN (x.bigits[j - q - 1] * u) \div Base ELSE 0)
  BY <1>1, <1>2, Zenon DEF LeftShiftedBigit
<1>9. LostBits(x, a, j) = IF j - q >= 1 THEN (x.bigits[j - q - 1] * u) \div Base ELSE 0
  <2>1. LostBits(x, a, j) = IF j > q THEN (x.bigits[j - q - 1] * u) \div Base ELSE 0
    BY <1>1, <1>2, Zenon DEF LostBits
  <2>2. j > q <=> j - q >= 1
    BY <1>0, <1>1
  <2> QED BY <2>1, <2>2, Zenon
<1>10. CASE j < q
  <2>1. ~(j - q >= 0) /\ ~(j - q >= 1) /\ ~(j >= q)
    BY <1>0, <1>10
  <2>2. LeftShiftedBigit(x, a, j) = 0 + 0
    BY <1>8, <2>1, Zenon
  <2>3. LeftShiftedBigit(x, a, j) = 0 /\ LeftShiftedBigit(x, a, j) \in 0..(Base - 1)
    BY <1>3, <2>2
  <2> QED BY <1>1, <1>2, <1>7, <2>1, <2>3, Zenon
<1>11. CASE j >= q
  <2>1. j - q >= 0 /\ j - q \in 0..(MaxBigits - 1) /\ ~(j < q)
    BY <1>0, <1>11
  <2>2. LeftShiftedBigit(x, a, j) = ((x.bigits[j - q] * u) % Base) + LostBits(x, a, j)
    BY <1>8, <1>9, <2>1, Zenon
  <2>3. (x.bigits[j - q] * u) % Base \in 0..(b - u)
    BY <1>3, <1>5, <1>6, <2>1, Zenon
  <2>4. \A m \in 0..(b - u), k \in 0..(u - 1) : m + k \in 0..(b - 1)
    BY <1>3, <1>4
  <2>5. LeftShiftedBigit(x, a, j) \in 0..(Base - 1)
    BY <1>3, <1>7, <2>2, <2>3, <2>4, Zenon
  <2> QED BY <1>1, <1>2, <1>7, <2>1, <2>2, <2>5, Zenon
<1> QED BY <1>0, <1>1, <1>10, <1>11

(* The shifted digits below the j-th and the bits that these lose to it.   *)
ShiftedSumAt(x, y, a, j) ==
  /\ j <= a \div BigitBits => Upto(y, j) = 0
  /\ j >= a \div BigitBits =>
       Upto(y, j) + LostBits(x, a, j) * Power(Base, j)
         = Upto(x, j - a \div BigitBits) * Power(2, a)

LEMMA ShiftedSum ==
  ASSUME NEW x \in Numbers, NEW y \in Numbers, NEW a \in Nat, NEW l \in 0..MaxBigits,
         \A j \in 0..(l - 1) : y.bigits[j] = LeftShiftedBigit(x, a, j)
  PROVE  \A j \in 0..l : ShiftedSumAt(x, y, a, j)
<1>0. a \div BigitBits \in Nat /\ a % BigitBits \in 0..(BigitBits - 1) /\ MaxBigits \in Nat
  BY ShiftParts, WidthAssumption
<1>1. PICK q \in Nat : q = a \div BigitBits
  BY <1>0
<1>2. PICK u \in Nat, v \in Nat : u = Power(2, a % BigitBits) /\ u >= 1 /\ v >= 1 /\ Base = u * v
  BY <1>0, UnitDividesBase
<1>3. PICK b \in Nat : b = Base /\ b >= 2 /\ b = u * v
  BY <1>2, BaseNat
<1>4. PICK t \in Nat : t = Power(2, a) /\ t = Power(Base, q) * u
  <2>1. Power(Base, q) * u \in Nat
    <3>1. Power(Base, q) \in Nat
      BY <1>1, Places
    <3> QED BY <1>2, <3>1
  <2> QED BY <1>1, <1>2, <2>1, ShiftParts
<1> DEFINE Sum(j) == Upto(y, j) + LostBits(x, a, j) * Power(Base, j)
           Good(j) == /\ j <= q => Upto(y, j) = 0
                      /\ j >= q => Sum(j) = Upto(x, j - q) * t
           S == {j \in Nat : Good(j)}
<1>5. 0 \in S
  <2>1. Upto(y, 0) = 0
    BY UptoIs
  <2>2. 0 >= q => 0 - q = 0 /\ LostBits(x, a, 0) = 0
    <3>1. ~(0 > q)
      OBVIOUS
    <3> QED BY <1>1, <3>1 DEF LostBits
  <2>3. Upto(x, 0) = 0 /\ Power(Base, 0) = 1
    BY UptoIs, Places
  <2> QED BY <1>4, <2>1, <2>2, <2>3
<1>6. ASSUME NEW j \in 0..(l - 1), j \in S PROVE j + 1 \in S
  <2>1. /\ j \in 0..(MaxBigits - 1) /\ j + 1 \in 0..MaxBigits /\ j \in Nat /\ j + 1 \in Nat
        /\ j \in 0..MaxBigits
    BY <1>0
  <2>2. Upto(y, j + 1) = Upto(y, j) + LeftShiftedBigit(x, a, j) * Power(Base, j)
    BY <2>1, UptoIs
  <2>3. Upto(y, j) \in Nat /\ Upto(y, j + 1) \in Nat
    BY <2>1, UptoBound
  <2>4. Power(Base, j) \in Nat /\ Power(Base, j + 1) = b * Power(Base, j)
    BY <1>3, <2>1, Places
  <2>5. ASSUME j + 1 <= q PROVE Upto(y, j + 1) = 0
    <3>1. LeftShiftedBigit(x, a, j) = 0
      <4>1. j < q
        BY <2>1, <2>5
      <4> QED BY <1>1, <2>1, <4>1, ShiftedDigit
    <3>2. Upto(y, j) = 0
      BY <1>6, <2>1, <2>5
    <3> QED BY <2>2, <2>4, <3>1, <3>2
  <2>6. ASSUME j >= q PROVE Sum(j + 1) = Upto(x, (j + 1) - q) * t
    <3>1. j - q \in 0..(MaxBigits - 1) /\ (j + 1) - q = (j - q) + 1 /\ j - q \in Nat
          /\ j - q \in 0..MaxBigits /\ (j + 1) - q - 1 = j - q /\ j + 1 > q
      BY <1>0, <2>1, <2>6
    <3>2. PICK d \in Nat : d = x.bigits[j - q] /\ d \in 0..(Base - 1)
      BY <3>1, DigitsAre
    <3>3. PICK m \in Nat : m = LostBits(x, a, j) /\ m < u
      <4>1. LostBits(x, a, j) \in 0..(u - 1)
        BY <1>2, <2>1, ShiftedDigit, Zenon
      <4> QED BY <1>2, <4>1
    <3>4. LeftShiftedBigit(x, a, j) = ((d * u) % b) + m
      <4>1. j >= a \div BigitBits =>
              LeftShiftedBigit(x, a, j)
                = ((x.bigits[j - a \div BigitBits] * Power(2, a % BigitBits)) % Base)
                    + LostBits(x, a, j)
        BY <2>1, ShiftedDigit, Zenon
      <4> QED BY <1>1, <1>2, <1>3, <2>6, <3>2, <3>3, <4>1, Zenon
    <3>5. LostBits(x, a, j + 1) = (d * u) \div b
      BY <1>1, <1>2, <1>3, <3>1, <3>2, Zenon DEF LostBits
    <3>6. /\ (d * u) \div b \in Int /\ (d * u) % b \in Int
          /\ d * u = ((d * u) \div b) * b + ((d * u) % b)
      <4>1. d * u \in Int /\ b >= 1
        BY <1>3
      <4> QED BY <4>1, Division
    <3>7. PICK h \in Int, e \in Int : h = (d * u) \div b /\ e = (d * u) % b /\ d * u = h * b + e
      BY <3>6, Zenon
    <3>8. PICK p \in Nat, o \in Nat : p = Power(Base, j) /\ o = Power(Base, j - q) /\ p = o * Power(Base, q)
      <4>1. Power(Base, q + (j - q)) = Power(Base, q) * Power(Base, j - q) /\ q + (j - q) = j
        BY <1>3, <3>1, PowerAdd
      <4>2. Power(Base, q) \in Nat /\ Power(Base, j - q) \in Nat
        BY <3>1, Places
      <4>3. \A f, g \in Nat : f * g = g * f
        OBVIOUS
      <4> QED BY <2>4, <4>1, <4>2, <4>3
    <3>9. Upto(x, (j - q) + 1) = Upto(x, j - q) + d * o
      BY <3>1, <3>2, <3>8, UptoIs
    <3>10. PICK w \in Nat : w = Upto(x, j - q)
      BY <3>1, UptoBound
    <3>11. Upto(y, j) + m * p = w * t
      BY <1>6, <2>6, <3>3, <3>8, <3>10
    <3>12. Sum(j + 1) = (Upto(y, j) + (e + m) * p) + h * (b * p)
      BY <2>2, <2>4, <3>4, <3>5, <3>7, <3>8
    <3>13. (e + m) * p + h * (b * p) = m * p + (d * u) * p
      <4>1. (e + m) * p + h * (b * p) = m * p + (h * b + e) * p
        OBVIOUS
      <4> QED BY <3>7, <4>1
    <3>14. (d * u) * p = (d * o) * t
      <4>1. PICK z \in Nat : z = Power(Base, q)
        BY Places
      <4>2. (d * u) * (o * z) = (d * o) * (z * u)
        OBVIOUS
      <4> QED BY <1>4, <3>8, <4>1, <4>2
    <3>15. (w + d * o) * t = w * t + (d * o) * t
      OBVIOUS
    <3>16. PICK k \in Nat : k = Upto(y, j)
      BY <2>3
    <3>17. /\ (e + m) * p \in Int /\ h * (b * p) \in Int /\ m * p \in Int /\ (d * u) * p \in Int
           /\ w * t \in Int /\ (d * o) * t \in Int
      OBVIOUS
    <3>18. (k + (e + m) * p) + h * (b * p) = w * t + (d * o) * t
      BY <3>11, <3>13, <3>14, <3>16, <3>17
    <3> QED BY <3>1, <3>9, <3>10, <3>12, <3>15, <3>16, <3>18
  <2>7. ASSUME j + 1 >= q, ~(j >= q) PROVE Sum(j + 1) = Upto(x, (j + 1) - q) * t
    <3>1. j + 1 = q /\ (j + 1) - q = 0 /\ ~(j + 1 > q) /\ j + 1 <= q
      BY <2>1, <2>7
    <3>2. LostBits(x, a, j + 1) = 0
      BY <1>1, <3>1, Zenon DEF LostBits
    <3>3. Upto(x, 0) = 0 /\ Upto(y, j + 1) = 0
      BY <2>5, <3>1, UptoIs
    <3> QED BY <1>4, <2>4, <3>1, <3>2, <3>3, <1>3
  <2> HIDE DEF Sum
  <2>8. Good(j + 1)
    BY <2>1, <2>5, <2>6, <2>7
  <2> HIDE DEF Good
  <2> QED BY <2>1, <2>8
<1>7. 0..l \subseteq S
  <2>1. l \in Nat
    BY <1>0
  <2> HIDE DEF S
  <2> QED BY <1>5, <1>6, <2>1, InductionUpto
<1> HIDE DEF Sum
<1>8. \A j \in 0..l : Good(j)
  <2> HIDE DEF Good
  <2> QED BY <1>7
<1> QED BY <1>1, <1>4, <1>8, Zenon DEF Sum, ShiftedSumAt

LEMMA ShiftedLengthIs ==
  ASSUME NEW x \in Numbers, NEW a \in Nat
  PROVE  /\ ShiftedLength(x, a) \in Nat
         /\ a % BigitBits > 0 => ShiftedLength(x, a) = x.n + a \div BigitBits + 1
         /\ a % BigitBits = 0 => ShiftedLength(x, a) = x.n + a \div BigitBits
         /\ Shiftable(x, a) /\ a # 0 /\ x.n # 0 => ShiftedLength(x, a) <= MaxBigits
<1>1. /\ a \div BigitBits \in Nat /\ a % BigitBits \in 0..(BigitBits - 1)
      /\ x.n \in Nat /\ MaxBigits \in Nat /\ BigitBits \in Nat
  BY ShiftParts, DigitsAre, WidthAssumption
<1>2. PICK q \in Nat, r \in Nat : q = a \div BigitBits /\ r = a % BigitBits
  BY <1>1
<1>3. ShiftedLength(x, a) = x.n + q + (IF r > 0 THEN 1 ELSE 0)
  BY <1>2, Zenon DEF ShiftedLength
<1>4. Shiftable(x, a) /\ a # 0 /\ x.n # 0 => x.n + q < MaxBigits
  BY <1>2, Zenon DEF Shiftable
<1> QED BY <1>1, <1>2, <1>3, <1>4

(* The shifted digits stand for the shifted number.                        *)
LEMMA ShiftedFull ==
  ASSUME NEW x \in Numbers, ZeroAbove(x), NEW a \in Nat, ShiftedLength(x, a) <= MaxBigits,
         NEW y \in Numbers,
         \A j \in 0..(ShiftedLength(x, a) - 1) : y.bigits[j] = LeftShiftedBigit(x, a, j)
  PROVE  Upto(y, ShiftedLength(x, a)) = Value(x) * Power(2, a)
<1>1. /\ a \div BigitBits \in Nat /\ a % BigitBits \in 0..(BigitBits - 1)
      /\ x.n \in Nat /\ x.n \in 0..MaxBigits /\ MaxBigits \in Nat /\ BigitBits \in Nat
  BY ShiftParts, DigitsAre, WidthAssumption
<1>2. PICK q \in Nat, r \in Nat : q = a \div BigitBits /\ r = a % BigitBits
  BY <1>1
<1>3. PICK l \in 0..MaxBigits : l = ShiftedLength(x, a)
  BY <1>1, ShiftedLengthIs
<1>4. (r > 0 => l = x.n + q + 1) /\ (r = 0 => l = x.n + q)
  BY <1>2, <1>3, ShiftedLengthIs
<1>5. l >= q /\ l - q \in 0..MaxBigits /\ l - q >= x.n
  BY <1>1, <1>2, <1>3, <1>4
<1>6. \A k \in 0..(MaxBigits - 1) : k >= x.n => x.bigits[k] = 0
  BY DEF ZeroAbove, Indices
<1>7. Upto(x, l - q) = Value(x)
  <2>1. \A k \in 0..MaxBigits : k >= x.n => Upto(x, k) = Upto(x, x.n)
    BY <1>1, <1>6, UptoZeros
  <2> QED BY <1>5, <2>1 DEF Value
<1>8. LostBits(x, a, l) = 0
  <2>1. CASE r > 0 /\ l > q
    <3>1. l - q - 1 = x.n /\ x.n \in 0..(MaxBigits - 1)
      BY <1>1, <1>3, <1>4, <1>5, <2>1
    <3>2. x.bigits[l - q - 1] = 0
      BY <1>1, <1>6, <3>1
    <3>3. LostBits(x, a, l) = (0 * Power(2, r)) \div Base
      BY <1>2, <2>1, <3>2, Zenon DEF LostBits
    <3>4. Power(2, r) \in Nat
      <4>1. r \in 0..(BigitBits - 1)
        BY <1>1, <1>2
      <4> QED BY <4>1, UnitDividesBase
    <3>5. 0 * Power(2, r) = 0
      BY <3>4
    <3>6. 0 \div Base = 0
      <4>1. Base \in Nat /\ Base >= 1 /\ 0 \in Int /\ 0 >= 0 /\ 0 < Base
        BY BaseNat
      <4> QED BY <4>1, Division
    <3> QED BY <3>3, <3>5, <3>6
  <2>2. CASE r = 0 /\ l > q
    <3>1. l - q - 1 \in 0..(MaxBigits - 1)
      BY <1>1, <1>3, <1>5, <2>2
    <3>2. PICK d \in Nat : d = x.bigits[l - q - 1] /\ d < Base
      BY <3>1, DigitsAre
    <3>3. LostBits(x, a, l) = (d * Power(2, 0)) \div Base
      BY <1>2, <2>2, <3>2, Zenon DEF LostBits
    <3>4. Power(2, 0) = 1
      BY PowerIs
    <3>5. d * Power(2, 0) = d
      BY <3>4
    <3>6. d \div Base = 0
      <4>1. Base \in Nat /\ Base >= 1 /\ d \in Int /\ d >= 0 /\ d < Base
        BY <3>2, BaseNat
      <4> QED BY <4>1, Division
    <3> QED BY <3>3, <3>5, <3>6
  <2>3. CASE ~(l > q)
    BY <1>2, <2>3, Zenon DEF LostBits
  <2> QED BY <1>2, <2>1, <2>2, <2>3
<1>9. Upto(y, l) + LostBits(x, a, l) * Power(Base, l) = Upto(x, l - q) * Power(2, a)
  <2>1. \A j \in 0..(l - 1) : y.bigits[j] = LeftShiftedBigit(x, a, j)
    BY <1>3
  <2>2. \A j \in 0..l : ShiftedSumAt(x, y, a, j)
    BY <1>3, <2>1, ShiftedSum, Zenon
  <2>3. l \in 0..l
    BY <1>3, <1>1
  <2>4. ShiftedSumAt(x, y, a, l)
    BY <2>2, <2>3, Zenon
  <2> QED BY <1>2, <1>5, <2>4, Zenon DEF ShiftedSumAt
<1>10. Upto(y, l) \in Nat /\ Power(Base, l) \in Nat
  BY <1>1, <1>3, UptoBound, Places
<1> QED BY <1>3, <1>7, <1>8, <1>9, <1>10

LEMMA ShiftLeftExact ==
  ASSUME NEW x \in Numbers, WellFormed(x), NEW a \in Nat, Shiftable(x, a)
  PROVE  /\ ShiftLeft(x, a) \in Numbers
         /\ ZeroAbove(ShiftLeft(x, a))
         /\ Full(ShiftLeft(x, a)) = Value(x) * Power(2, a)
<1> DEFINE y == ShiftLeft(x, a)
<1>0. ZeroAbove(x) /\ Value(x) \in Nat /\ Value(x) = Full(x) /\ Power(2, 0) = 1
  BY ValueIs, PowerIs DEF WellFormed
<1>1. CASE a = 0
  BY <1>0, <1>1 DEF ShiftLeft
<1>2. CASE x.n = 0
  <2>1. Value(x) = 0
    BY <1>2, ValueIs, Places
  <2>2. Power(2, a) \in Nat
    <3>1. \A k \in Nat : Power(2, k) \in Int
      BY PowerIs
    <3>2. PICK t \in Nat : t = 2 /\ t >= 1
      OBVIOUS
    <3>3. Power(t, a) \in Nat
      BY <3>2, PowerPositive, Zenon
    <3> QED BY <3>2, <3>3
  <2>3. y = x
    BY <1>2 DEF ShiftLeft
  <2>4. Value(x) * Power(2, a) = 0
    BY <2>1, <2>2
  <2>5. Full(x) = 0
    BY <1>0, <2>1
  <2> QED BY <1>0, <2>3, <2>4, <2>5, Zenon
<1>3. CASE a # 0 /\ x.n # 0
  <2> DEFINE l == ShiftedLength(x, a)
  <2>1. /\ l \in Nat /\ l <= MaxBigits /\ l >= x.n /\ x.n \in Nat /\ MaxBigits \in Nat
    <3>1. a \div BigitBits \in Nat /\ a % BigitBits \in Nat
      BY ShiftParts, WidthAssumption
    <3>2. x.n \in Nat /\ MaxBigits \in Nat
      BY DigitsAre, WidthAssumption
    <3>3. a % BigitBits > 0 \/ a % BigitBits = 0
      BY <3>1
    <3>4. l \in Nat /\ l <= MaxBigits
      BY <1>3, ShiftedLengthIs
    <3>5. l >= x.n
      BY <3>1, <3>2, <3>3, ShiftedLengthIs
    <3> QED BY <3>2, <3>4, <3>5
  <2>2. y = [bigits |-> [j \in Indices |-> IF j < l THEN LeftShiftedBigit(x, a, j)
                                          ELSE x.bigits[j]],
             n |-> l]
    BY <1>3, Zenon DEF ShiftLeft
  <2> HIDE DEF l
  <2>3. \A j \in 0..(MaxBigits - 1) :
          LeftShiftedBigit(x, a, j) \in 0..(Base - 1) /\ x.bigits[j] \in 0..(Base - 1)
    BY ShiftedDigit, DigitsAre
  <2>4. y \in Numbers /\ y.n = l
    BY <2>1, <2>2, <2>3 DEF Numbers, Indices, Bigits
  <2>5. \A j \in 0..(MaxBigits - 1) :
          y.bigits[j] = IF j < l THEN LeftShiftedBigit(x, a, j) ELSE x.bigits[j]
    BY <2>2 DEF Indices
  <2>6. \A j \in 0..(l - 1) : y.bigits[j] = LeftShiftedBigit(x, a, j)
    BY <2>1, <2>5
  <2>7. ZeroAbove(y)
    <3>1. \A k \in 0..(MaxBigits - 1) : k >= x.n => x.bigits[k] = 0
      BY <1>0 DEF ZeroAbove, Indices
    <3>2. ASSUME NEW j \in 0..(MaxBigits - 1), j >= l PROVE y.bigits[j] = 0
      <4>1. ~(j < l) /\ j >= x.n
        BY <2>1, <3>2
      <4> QED BY <2>5, <3>1, <4>1
    <3> QED BY <2>4, <3>2 DEF ZeroAbove, Indices
  <2>8. Upto(y, l) = Value(x) * Power(2, a)
    BY <1>0, <2>1, <2>4, <2>6, ShiftedFull DEF l
  <2>9. Value(y) = Full(y) /\ Value(y) = Upto(y, l)
    BY <2>4, <2>7, ValueIs DEF Value
  <2> QED BY <2>4, <2>7, <2>8, <2>9
<1> QED BY <1>1, <1>2, <1>3

-----------------------------------------------------------------------------
(***************************************************************************)
(* The loops.  What a loop is about to leave in a number, its standing, is *)
(* the number that the digits and the carry stand for together with what   *)
(* is still to be done to the digits that the loop has not reached.        *)
(***************************************************************************)

MultiplyStanding(x, k, c, a) ==
  Upto(x, k) + c * Power(Base, k) + a * (Full(x) - Upto(x, k))

CarryStanding(x, k, c) == Full(x) + c * Power(Base, k)

AddStanding(x, k, c, r) == CarryStanding(x, k, c) + (Value(r) - Upto(r, k))

BorrowStanding(x, k, c) == Full(x) - c * Power(Base, k)

(* The digits that subtract_left_shifted takes.                            *)
Taken(r, a) == [bigits |-> [j \in Indices |-> LeftShiftedBigit(r, a, j)], n |-> 0]

SubtractStanding(x, k, c, r, a) ==
  BorrowStanding(x, k, c) - (Value(r) * Power(2, a) - Upto(Taken(r, a), k))

(* All digits from the n-th and the k-th on are zero.                      *)
ZerosFrom(x, k) == \A j \in 0..(MaxBigits - 1) : j >= x.n /\ j >= k => x.bigits[j] = 0

LEMMA ZeroAboveIs ==
  ASSUME NEW x, NEW k \in Nat
  PROVE  /\ ZeroAbove(x) <=> \A j \in 0..(MaxBigits - 1) : j >= x.n => x.bigits[j] = 0
         /\ ZeroAbove(x) => ZerosFrom(x, k)
BY DEF ZeroAbove, Indices, ZerosFrom

(* A number with another digit.                                            *)
LEMMA DigitSet ==
  ASSUME NEW x \in Numbers, NEW p \in 0..(MaxBigits - 1), NEW d \in 0..(Base - 1),
         NEW y, y = [x EXCEPT !.bigits[p] = d]
  PROVE  /\ y \in Numbers /\ y.n = x.n /\ y.bigits[p] = d
         /\ \A j \in 0..(MaxBigits - 1) : j # p => y.bigits[j] = x.bigits[j]
         /\ \A k \in 0..p : Upto(y, k) = Upto(x, k)
         /\ \A k \in 0..MaxBigits :
              k > p => Upto(y, k) = Upto(x, k) + (d - x.bigits[p]) * Power(Base, p)
         /\ Full(y) = Full(x) + (d - x.bigits[p]) * Power(Base, p)
         /\ Upto(y, p + 1) = Upto(x, p) + d * Power(Base, p)
<1>1. y \in Numbers /\ y.n = x.n /\ y.bigits[p] = d
      /\ \A j \in 0..(MaxBigits - 1) : j # p => y.bigits[j] = x.bigits[j]
  BY DEF Numbers, Indices, Bigits
<1>2. /\ \A k \in 0..p : Upto(y, k) = Upto(x, k)
      /\ \A k \in 0..MaxBigits :
           k > p => Upto(y, k) = Upto(x, k) + (y.bigits[p] - x.bigits[p]) * Power(Base, p)
  BY <1>1, UptoChanged
<1>3. MaxBigits \in 0..MaxBigits /\ MaxBigits > p /\ p \in 0..p
  BY WidthAssumption
<1>4. Full(y) = Full(x) + (d - x.bigits[p]) * Power(Base, p)
  BY <1>1, <1>2, <1>3 DEF Full
<1>5. Upto(y, p + 1) = Upto(y, p) + d * Power(Base, p)
  BY <1>1, UptoIs
<1> QED BY <1>1, <1>2, <1>3, <1>4, <1>5

LEMMA MultiplyStep ==
  ASSUME NEW x \in Numbers, ZeroAbove(x), NEW k \in Nat, k < x.n,
         NEW c \in 0..(Power(Base, 2) - 1), NEW a \in Nat, a < Power(Base, 2)
  PROVE  LET low  == (a % Base) * x.bigits[k] + (c % Base)
             high == (a \div Base) * x.bigits[k]
             d    == MultiplyCarry(low, high, c)
             y    == [x EXCEPT !.bigits[k] = low % Base]
         IN  /\ y \in Numbers /\ y.n = x.n /\ ZeroAbove(y)
             /\ d \in 0..(Power(Base, 2) - 1)
             /\ MultiplyStanding(y, k + 1, d, a) = MultiplyStanding(x, k, c, a)
<1> DEFINE low  == (a % Base) * x.bigits[k] + (c % Base)
           high == (a \div Base) * x.bigits[k]
           d    == MultiplyCarry(low, high, c)
           y    == [x EXCEPT !.bigits[k] = low % Base]
<1>1. k \in 0..(MaxBigits - 1) /\ k \in 0..MaxBigits
  BY DigitsAre, WidthAssumption
<1>2. PICK g \in Nat : g = x.bigits[k] /\ g \in 0..(Base - 1)
  BY <1>1, DigitsAre
<1>3. /\ low % Base \in 0..(Base - 1) /\ d \in 0..(Power(Base, 2) - 1)
      /\ (low % Base) + d * Base = a * g + c
  BY <1>2, MultiplyExact, Zenon
<1>4. PICK e \in Nat, f \in Nat : e = low % Base /\ f = d
  <2>1. low % Base \in Nat /\ d \in Nat
    <3> HIDE DEF low, d
    <3> QED BY <1>3, BaseNat, BaseSquare
  <2> QED BY <2>1, Zenon
<1> HIDE DEF low, high, d
<1>5. /\ y \in Numbers /\ y.n = x.n
      /\ \A j \in 0..(MaxBigits - 1) : j # k => y.bigits[j] = x.bigits[j]
      /\ Full(y) = Full(x) + (e - g) * Power(Base, k)
      /\ Upto(y, k + 1) = Upto(x, k) + e * Power(Base, k)
  BY <1>1, <1>2, <1>3, <1>4, DigitSet
<1> HIDE DEF y
<1>6. ZeroAbove(y)
  <2>1. \A j \in 0..(MaxBigits - 1) : j >= x.n => x.bigits[j] = 0
    BY ZeroAboveIs
  <2>2. \A j \in 0..(MaxBigits - 1) : j >= y.n => y.bigits[j] = 0
    BY <1>1, <1>5, <2>1, DigitsAre
  <2> QED BY <2>2, ZeroAboveIs, Zenon
<1>7. PICK p \in Nat, b \in Nat : /\ p = Power(Base, k) /\ b = Base
                                  /\ Power(Base, k + 1) = b * p
  BY Places, BaseNat
<1>8. PICK u \in Nat, w \in Nat : u = Upto(x, k) /\ w = Full(x)
  BY <1>1, UptoBound, ValueIs
<1>9. MultiplyStanding(y, k + 1, d, a)
        = (u + e * p) + f * (b * p) + a * ((w + (e - g) * p) - (u + e * p))
  BY <1>2, <1>4, <1>5, <1>7, <1>8, Zenon DEF MultiplyStanding
<1>10. MultiplyStanding(x, k, c, a) = u + c * p + a * (w - u)
  BY <1>7, <1>8, Zenon DEF MultiplyStanding
<1>11. c \in Int /\ e + f * b = a * g + c
  BY <1>3, <1>4, <1>7, BaseSquare
<1>12. e * p + f * (b * p) = (a * g) * p + c * p
  <2>1. (e + f * b) * p = e * p + f * (b * p)
    OBVIOUS
  <2>2. (a * g + c) * p = (a * g) * p + c * p
    BY <1>11
  <2> QED BY <1>11, <2>1, <2>2
<1>13. a * ((w + (e - g) * p) - (u + e * p)) = a * (w - u) - (a * g) * p
  <2>1. (w + (e - g) * p) - (u + e * p) = (w - u) - g * p
    OBVIOUS
  <2>2. a * ((w - u) - g * p) = a * (w - u) - a * (g * p)
    OBVIOUS
  <2>3. a * (g * p) = (a * g) * p
    OBVIOUS
  <2> QED BY <2>1, <2>2, <2>3
<1>14. /\ e * p \in Int /\ f * (b * p) \in Int /\ (a * g) * p \in Int /\ c * p \in Int
       /\ a * (w - u) \in Int
  BY <1>11
<1>15. MultiplyStanding(y, k + 1, d, a) = MultiplyStanding(x, k, c, a)
  BY <1>9, <1>10, <1>12, <1>13, <1>14
<1> QED BY <1>3, <1>5, <1>6, <1>15 DEF low, high, d, y

LEMMA MultiplyEnds ==
  ASSUME NEW x \in Numbers, ZeroAbove(x), NEW c \in Nat, NEW a \in Nat
  PROVE  MultiplyStanding(x, x.n, c, a) = CarryStanding(x, x.n, c)
<1>1. Upto(x, x.n) = Full(x) /\ Full(x) \in Nat
  BY ValueIs DEF Value
<1>2. Power(Base, x.n) \in Nat
  BY DigitsAre, Places
<1>3. a * (Full(x) - Full(x)) = 0 /\ c * Power(Base, x.n) \in Nat
  BY <1>1, <1>2
<1> QED BY <1>1, <1>3 DEF MultiplyStanding, CarryStanding

LEMMA MultiplyStarts ==
  ASSUME NEW x \in Numbers, NEW a \in Nat
  PROVE  MultiplyStanding(x, 0, 0, a) = Full(x) * a
<1>1. Upto(x, 0) = 0 /\ Power(Base, 0) = 1 /\ Full(x) \in Nat
  BY UptoIs, Places, ValueIs
<1> QED BY <1>1 DEF MultiplyStanding

(* A carry that is left stands for no more than what fits.                 *)
LEMMA CarryFits ==
  ASSUME NEW x \in Numbers, NEW k \in Nat, NEW c \in Nat, c > 0,
         CarryStanding(x, k, c) < Power(Base, MaxBigits)
  PROVE  k < MaxBigits /\ CarryStanding(x, k, c) >= Power(Base, k)
<1>1. Full(x) \in Nat /\ Power(Base, k) \in Nat /\ Power(Base, MaxBigits) \in Nat
      /\ MaxBigits \in Nat
  BY ValueIs, Places, WidthAssumption
<1>2. c * Power(Base, k) >= Power(Base, k) /\ c * Power(Base, k) \in Nat
  BY <1>1
<1>3. CarryStanding(x, k, c) >= Power(Base, k)
  BY <1>1, <1>2 DEF CarryStanding
<1>4. MaxBigits <= k => Power(Base, MaxBigits) <= Power(Base, k)
  BY <1>1, PlacesGrow
<1>5. CarryStanding(x, k, c) \in Nat
  BY <1>1, <1>2 DEF CarryStanding
<1> QED BY <1>1, <1>3, <1>4, <1>5

LEMMA PushStep ==
  ASSUME NEW x \in Numbers, ZeroAbove(x), NEW c \in Nat, c > 0,
         CarryStanding(x, x.n, c) < Power(Base, MaxBigits)
  PROVE  LET y == [bigits |-> [x.bigits EXCEPT ![x.n] = c % Base], n |-> x.n + 1]
         IN  /\ y \in Numbers /\ y.n = x.n + 1 /\ ZeroAbove(y)
             /\ c \div Base \in Nat /\ c \div Base <= c
             /\ CarryStanding(y, y.n, c \div Base) = CarryStanding(x, x.n, c)
<1>1. x.n \in Nat /\ x.n < MaxBigits /\ x.n \in 0..(MaxBigits - 1)
  BY CarryFits, DigitsAre, WidthAssumption
<1>2. /\ c % Base \in 0..(Base - 1) /\ c \div Base \in Nat /\ c \div Base <= c
      /\ c = (c \div Base) * Base + (c % Base)
  <2>1. Base \in Nat /\ Base >= 1
    BY BaseNat
  <2> QED BY <2>1, Division
<1>3. PICK d \in Nat, e \in Nat : d = c % Base /\ e = c \div Base /\ c = e * Base + d
                                  /\ d \in 0..(Base - 1)
  BY <1>2, BaseNat
<1> DEFINE z == [x EXCEPT !.bigits[x.n] = d]
           y == [bigits |-> [x.bigits EXCEPT ![x.n] = d], n |-> x.n + 1]
<1>4. /\ z \in Numbers /\ z.n = x.n
      /\ \A j \in 0..(MaxBigits - 1) : j # x.n => z.bigits[j] = x.bigits[j]
      /\ Full(z) = Full(x) + (d - x.bigits[x.n]) * Power(Base, x.n)
  BY <1>1, <1>3, DigitSet
<1>5. y \in Numbers /\ y.n = x.n + 1 /\ y.bigits = z.bigits
  <2>1. y.n = x.n + 1 /\ y.bigits = [x.bigits EXCEPT ![x.n] = d]
    OBVIOUS
  <2>2. z.bigits = [x.bigits EXCEPT ![x.n] = d]
    BY DEF Numbers
  <2>3. z.bigits \in [Indices -> Bigits]
    BY <1>4 DEF Numbers
  <2>4. x.n + 1 \in 0..MaxBigits
    BY <1>1, WidthAssumption
  <2> QED BY <2>1, <2>2, <2>3, <2>4 DEF Numbers
<1> HIDE DEF y, z
<1>6. Full(y) = Full(z)
  <2>1. MaxBigits \in 0..MaxBigits
    BY WidthAssumption
  <2> QED BY <1>4, <1>5, <2>1, UptoSame DEF Full
<1>7. \A j \in 0..(MaxBigits - 1) : j >= x.n => x.bigits[j] = 0
  BY ZeroAboveIs
<1>8. ZeroAbove(y)
  <2>1. \A j \in 0..(MaxBigits - 1) : j >= y.n => y.bigits[j] = 0
    BY <1>1, <1>4, <1>5, <1>7
  <2> QED BY <2>1, ZeroAboveIs, Zenon
<1>9. PICK p \in Nat, b \in Nat : /\ p = Power(Base, x.n) /\ b = Base
                                  /\ Power(Base, x.n + 1) = b * p
  BY <1>1, Places, BaseNat
<1>10. Full(y) = Full(x) + d * p /\ Full(x) \in Nat
  BY <1>1, <1>4, <1>6, <1>7, <1>9, ValueIs
<1>11. CarryStanding(y, y.n, e) = (Full(x) + d * p) + e * (b * p)
  BY <1>5, <1>9, <1>10, Zenon DEF CarryStanding
<1>12. CarryStanding(x, x.n, c) = Full(x) + (e * b + d) * p
  BY <1>3, <1>9 DEF CarryStanding
<1>13. (e * b + d) * p = d * p + e * (b * p) /\ d * p \in Int /\ e * (b * p) \in Int
  OBVIOUS
<1>14. CarryStanding(y, y.n, e) = CarryStanding(x, x.n, c)
  BY <1>10, <1>11, <1>12, <1>13
<1> QED BY <1>2, <1>3, <1>5, <1>8, <1>14, Zenon DEF y

(* A number that stands as tall as its length is clamped.                  *)
LEMMA TallIsClamped ==
  ASSUME NEW x \in Numbers, ZeroAbove(x), x.n > 0 => Full(x) >= Power(Base, x.n - 1)
  PROVE  WellFormed(x)
<1>1. ASSUME x.n > 0 PROVE x.bigits[x.n - 1] > 0
  <2>1. x.n \in 1..MaxBigits
    BY <1>1, DigitsAre
  <2>2. Upto(x, x.n) >= Power(Base, x.n - 1)
    BY <1>1, ValueIs DEF Value
  <2> QED BY <2>1, <2>2, LargeHasTop
<1> QED BY <1>1 DEF WellFormed, Clamped

LEMMA CarryEnds ==
  ASSUME NEW x \in Numbers, NEW k \in Nat
  PROVE  CarryStanding(x, k, 0) = Full(x) /\ BorrowStanding(x, k, 0) = Full(x)
<1>1. Full(x) \in Nat /\ Power(Base, k) \in Nat
  BY ValueIs, Places
<1> QED BY <1>1 DEF CarryStanding, BorrowStanding

LEMMA AddStep ==
  ASSUME NEW x \in Numbers, NEW r \in Numbers, NEW k \in Nat, k < r.n, NEW c \in 0..1
  PROVE  LET sum == x.bigits[k] + r.bigits[k] + c
             y   == [x EXCEPT !.bigits[k] = sum % Base]
         IN  /\ y \in Numbers /\ y.n = x.n
             /\ ZerosFrom(x, k) => ZerosFrom(y, k + 1)
             /\ sum \div Base \in 0..1
             /\ AddStanding(y, k + 1, sum \div Base, r) = AddStanding(x, k, c, r)
<1> DEFINE sum == x.bigits[k] + r.bigits[k] + c
           y   == [x EXCEPT !.bigits[k] = sum % Base]
<1>1. k \in 0..(MaxBigits - 1) /\ k \in 0..MaxBigits
  BY DigitsAre, WidthAssumption
<1>2. PICK g \in Nat, h \in Nat : g = x.bigits[k] /\ h = r.bigits[k] /\ g < Base /\ h < Base
  BY <1>1, DigitsAre
<1>3. sum \in Nat /\ sum < 2 * Base /\ sum = g + h + c
  BY <1>2, BaseNat
<1> HIDE DEF sum
<1>4. /\ sum % Base \in 0..(Base - 1) /\ sum \div Base \in 0..1
      /\ (sum % Base) + (sum \div Base) * Base = sum
  BY <1>3, AddExact
<1>5. PICK e \in Nat, f \in Nat : e = sum % Base /\ f = sum \div Base /\ e + f * Base = sum
  BY <1>4, BaseNat
<1>6. /\ y \in Numbers /\ y.n = x.n
      /\ \A j \in 0..(MaxBigits - 1) : j # k => y.bigits[j] = x.bigits[j]
      /\ Full(y) = Full(x) + (e - g) * Power(Base, k)
  BY <1>1, <1>2, <1>4, <1>5, DigitSet
<1> HIDE DEF y
<1>7. ZerosFrom(x, k) => ZerosFrom(y, k + 1)
  BY <1>1, <1>6 DEF ZerosFrom
<1>8. PICK p \in Nat, b \in Nat : /\ p = Power(Base, k) /\ b = Base
                                  /\ Power(Base, k + 1) = b * p
  BY Places, BaseNat
<1>9. PICK u \in Nat, w \in Nat, v \in Nat : u = Upto(r, k) /\ w = Full(x) /\ v = Value(r)
  BY <1>1, UptoBound, ValueIs
<1>10. Upto(r, k + 1) = u + h * p
  BY <1>1, <1>2, <1>8, <1>9, UptoIs
<1>11. AddStanding(y, k + 1, f, r) = ((w + (e - g) * p) + f * (b * p)) + (v - (u + h * p))
  BY <1>6, <1>8, <1>9, <1>10, Zenon DEF AddStanding, CarryStanding
<1>12. AddStanding(x, k, c, r) = (w + c * p) + (v - u)
  BY <1>8, <1>9, Zenon DEF AddStanding, CarryStanding
<1>13. (e - g) * p + f * (b * p) = h * p + c * p
  <2>1. (e - g) * p + f * (b * p) = ((e + f * b) - g) * p
    OBVIOUS
  <2>2. (e + f * b) - g = h + c
    BY <1>3, <1>5, <1>8
  <2>3. (h + c) * p = h * p + c * p
    OBVIOUS
  <2> QED BY <2>1, <2>2, <2>3
<1>14. (e - g) * p \in Int /\ f * (b * p) \in Int /\ h * p \in Int /\ c * p \in Int
  OBVIOUS
<1>15. AddStanding(y, k + 1, f, r) = AddStanding(x, k, c, r)
  BY <1>11, <1>12, <1>13, <1>14
<1> QED BY <1>4, <1>5, <1>6, <1>7, <1>15, Zenon DEF sum, y

LEMMA AddEnds ==
  ASSUME NEW x \in Numbers, NEW r \in Numbers, NEW c \in Nat
  PROVE  /\ AddStanding(x, r.n, c, r) = CarryStanding(x, r.n, c)
         /\ AddStanding(x, 0, 0, r) = Full(x) + Value(r)
<1>1. /\ Value(r) = Upto(r, r.n) /\ Upto(r, 0) = 0 /\ Power(Base, 0) = 1
      /\ Power(Base, r.n) \in Nat /\ Full(x) \in Nat /\ Value(r) \in Nat
  BY ValueIs, UptoIs, Places, DigitsAre DEF Value
<1>2. c * Power(Base, r.n) \in Nat
  BY <1>1
<1> QED BY <1>1, <1>2 DEF AddStanding, CarryStanding

LEMMA CarryStep ==
  ASSUME NEW x \in Numbers, NEW k \in Nat, NEW c \in 0..1, c > 0,
         CarryStanding(x, k, c) < Power(Base, MaxBigits)
  PROVE  LET sum == x.bigits[k] + c
             y   == [x EXCEPT !.bigits[k] = sum % Base]
         IN  /\ y \in Numbers /\ y.n = x.n
             /\ ZerosFrom(x, k) => ZerosFrom(y, k + 1)
             /\ sum \div Base \in 0..1
             /\ CarryStanding(y, k + 1, sum \div Base) = CarryStanding(x, k, c)
<1> DEFINE sum == x.bigits[k] + c
           y   == [x EXCEPT !.bigits[k] = sum % Base]
<1>0. k < MaxBigits
  BY CarryFits
<1>1. k \in 0..(MaxBigits - 1) /\ k \in 0..MaxBigits
  BY <1>0, WidthAssumption
<1>2. PICK g \in Nat : g = x.bigits[k] /\ g < Base
  BY <1>1, DigitsAre
<1>3. sum \in Nat /\ sum < 2 * Base /\ sum = g + c
  BY <1>2, BaseNat
<1> HIDE DEF sum
<1>4. /\ sum % Base \in 0..(Base - 1) /\ sum \div Base \in 0..1
      /\ (sum % Base) + (sum \div Base) * Base = sum
  BY <1>3, AddExact
<1>5. PICK e \in Nat, f \in Nat : e = sum % Base /\ f = sum \div Base /\ e + f * Base = sum
  BY <1>4, BaseNat
<1>6. /\ y \in Numbers /\ y.n = x.n
      /\ \A j \in 0..(MaxBigits - 1) : j # k => y.bigits[j] = x.bigits[j]
      /\ Full(y) = Full(x) + (e - g) * Power(Base, k)
  BY <1>1, <1>2, <1>4, <1>5, DigitSet
<1> HIDE DEF y
<1>7. ZerosFrom(x, k) => ZerosFrom(y, k + 1)
  BY <1>1, <1>6 DEF ZerosFrom
<1>8. PICK p \in Nat, b \in Nat : /\ p = Power(Base, k) /\ b = Base
                                  /\ Power(Base, k + 1) = b * p
  BY Places, BaseNat
<1>9. PICK w \in Nat : w = Full(x)
  BY <1>1, UptoBound, ValueIs
<1>10. CarryStanding(y, k + 1, f) = (w + (e - g) * p) + f * (b * p)
  BY <1>6, <1>8, <1>9, Zenon DEF CarryStanding
<1>11. CarryStanding(x, k, c) = w + c * p
  BY <1>8, <1>9, Zenon DEF CarryStanding
<1>12. (e - g) * p + f * (b * p) = c * p
  <2>1. (e - g) * p + f * (b * p) = ((e + f * b) - g) * p
    OBVIOUS
  <2>2. (e + f * b) - g = c
    BY <1>3, <1>5, <1>8
  <2> QED BY <2>1, <2>2
<1>13. (e - g) * p \in Int /\ f * (b * p) \in Int /\ c * p \in Int
  OBVIOUS
<1>14. CarryStanding(y, k + 1, f) = CarryStanding(x, k, c)
  BY <1>10, <1>11, <1>12, <1>13
<1> QED BY <1>4, <1>5, <1>6, <1>7, <1>14, Zenon DEF sum, y

(* A sum, once there is no carry, is a number of the larger length.        *)
LEMMA SumEnds ==
  ASSUME NEW x \in Numbers, NEW k \in Nat, k <= MaxBigits, ZerosFrom(x, k),
         x.n > 0 => Full(x) >= Power(Base, x.n - 1),
         k > x.n => Full(x) >= Power(Base, k - 1)
  PROVE  LET y == Longer(x, k)
         IN  y \in Numbers /\ WellFormed(y) /\ Full(y) = Full(x)
<1> DEFINE y == Longer(x, k)
<1>1. y \in Numbers /\ y.bigits = x.bigits /\ y.n = IF k > x.n THEN k ELSE x.n
  <2>1. (IF k > x.n THEN k ELSE x.n) \in 0..MaxBigits
    BY DigitsAre, WidthAssumption
  <2> QED BY <2>1 DEF Longer, Numbers
<1> HIDE DEF y
<1>2. Full(y) = Full(x)
  <2>1. MaxBigits \in 0..MaxBigits
    BY WidthAssumption
  <2> QED BY <1>1, <2>1, UptoSame DEF Full
<1>3. ZeroAbove(y)
  <2>1. \A j \in 0..(MaxBigits - 1) : j >= y.n => j >= x.n /\ j >= k
    BY <1>1, DigitsAre
  <2>2. \A j \in 0..(MaxBigits - 1) : j >= y.n => y.bigits[j] = 0
    BY <1>1, <2>1 DEF ZerosFrom
  <2> QED BY <2>2, ZeroAboveIs, Zenon
<1>4. y.n > 0 => Full(y) >= Power(Base, y.n - 1)
  BY <1>1, <1>2, DigitsAre
<1>5. WellFormed(y)
  BY <1>1, <1>3, <1>4, TallIsClamped
<1> QED BY <1>1, <1>2, <1>5 DEF y

-----------------------------------------------------------------------------
(***************************************************************************)
(* Differences.                                                            *)
(***************************************************************************)

LEMMA TakenIs ==
  ASSUME NEW r \in Numbers, NEW a \in Nat
  PROVE  /\ Taken(r, a) \in Numbers
         /\ \A j \in 0..(MaxBigits - 1) :
              /\ Taken(r, a).bigits[j] = LeftShiftedBigit(r, a, j)
              /\ LeftShiftedBigit(r, a, j) \in 0..(Base - 1)
<1>1. \A j \in 0..(MaxBigits - 1) : LeftShiftedBigit(r, a, j) \in 0..(Base - 1)
  BY ShiftedDigit
<1>2. 0 \in 0..MaxBigits
  BY WidthAssumption
<1> QED BY <1>1, <1>2 DEF Taken, Numbers, Indices, Bigits

BorrowOut(l, t, c) == IF l < t \/ (l = t /\ c > 0) THEN 1 ELSE 0

(* A digit is taken away exactly.                                          *)
TakesExactly(x, r, a, k, c) ==
  LET l == x.bigits[k]
      t == LeftShiftedBigit(r, a, k)
      y == [x EXCEPT !.bigits[k] = (l - t - c) % Base]
      d == BorrowOut(l, t, c)
  IN  /\ y \in Numbers /\ y.n = x.n /\ d \in 0..1
      /\ SubtractStanding(y, k + 1, d, r, a) = SubtractStanding(x, k, c, r, a)

LEMMA SubtractStep ==
  ASSUME NEW x \in Numbers, NEW r \in Numbers, NEW a \in Nat, NEW k \in 0..(MaxBigits - 1),
         NEW c \in 0..1
  PROVE  TakesExactly(x, r, a, k, c)
<1> DEFINE y == [x EXCEPT !.bigits[k]
                   = (x.bigits[k] - LeftShiftedBigit(r, a, k) - c) % Base]
<1>1. k \in Nat /\ k \in 0..MaxBigits
  BY WidthAssumption
<1>2. PICK l \in 0..(Base - 1) : l = x.bigits[k]
  BY DigitsAre
<1>3. PICK t \in 0..(Base - 1) : t = LeftShiftedBigit(r, a, k) /\ t = Taken(r, a).bigits[k]
  BY TakenIs
<1> DEFINE borrows == l < t \/ (l = t /\ c > 0)
           d == IF borrows THEN 1 ELSE 0
<1>4. /\ (l - t - c) % Base \in 0..(Base - 1)
      /\ (l - t - c) % Base = l - t - c + (IF borrows THEN Base ELSE 0)
  BY SubtractExact
<1>5. PICK e \in Nat : e = (l - t - c) % Base /\ e \in 0..(Base - 1)
  BY <1>4, BaseNat
<1>6. d \in 0..1 /\ e = l - t - c + d * Base
  BY <1>4, <1>5, BaseNat
<1>7. /\ y \in Numbers /\ y.n = x.n
      /\ Full(y) = Full(x) + (e - l) * Power(Base, k)
  <2>1. y = [x EXCEPT !.bigits[k] = e]
    BY <1>2, <1>3, <1>5, Zenon
  <2> HIDE DEF y
  <2>2. Full(y) = Full(x) + (e - x.bigits[k]) * Power(Base, k) /\ y \in Numbers /\ y.n = x.n
    BY <1>5, <2>1, DigitSet
  <2> QED BY <1>2, <2>2
<1> HIDE DEF y
<1>8. PICK p \in Nat, b \in Nat : /\ p = Power(Base, k) /\ b = Base
                                  /\ Power(Base, k + 1) = b * p
  BY <1>1, Places, BaseNat
<1>9. PICK u \in Nat, w \in Nat, v \in Int :
        u = Upto(Taken(r, a), k) /\ w = Full(x) /\ v = Value(r) * Power(2, a)
  <2>1. Upto(Taken(r, a), k) \in Nat
    BY <1>1, TakenIs, UptoBound
  <2>2. Power(2, a) \in Int
    BY PowerIs
  <2>3. Value(r) \in Nat /\ Full(x) \in Nat
    BY ValueIs
  <2>4. Value(r) * Power(2, a) \in Int
    BY <2>2, <2>3
  <2> QED BY <2>1, <2>3, <2>4, Zenon
<1>10. Upto(Taken(r, a), k + 1) = u + t * p
  <2>1. Taken(r, a) \in Numbers
    BY TakenIs
  <2> HIDE DEF Taken
  <2> QED BY <1>3, <1>8, <1>9, <2>1, UptoIs
<1> DEFINE f == d
<1>11. PICK g \in Nat : g = d
  BY <1>6
<1> HIDE DEF d
<1>12. SubtractStanding(y, k + 1, d, r, a) = ((w + (e - l) * p) - g * (b * p)) - (v - (u + t * p))
  BY <1>7, <1>8, <1>9, <1>10, <1>11, Zenon DEF SubtractStanding, BorrowStanding
<1>13. SubtractStanding(x, k, c, r, a) = (w - c * p) - (v - u)
  BY <1>8, <1>9, Zenon DEF SubtractStanding, BorrowStanding
<1>14. l \in Int /\ t \in Int /\ c \in Int
  BY BaseNat
<1>15. (e - l) * p - g * (b * p) = -(t * p) - c * p
  <2>1. (e - l) * p - g * (b * p) = ((e - g * b) - l) * p
    BY <1>14
  <2>2. (e - g * b) - l = -t - c
    BY <1>6, <1>8, <1>11, <1>14
  <2>3. (-t - c) * p = -(t * p) - c * p
    BY <1>14
  <2> QED BY <2>1, <2>2, <2>3
<1>16. (e - l) * p \in Int /\ g * (b * p) \in Int /\ t * p \in Int /\ c * p \in Int
  BY <1>14
<1>17. SubtractStanding(y, k + 1, d, r, a) = SubtractStanding(x, k, c, r, a)
  BY <1>12, <1>13, <1>15, <1>16
<1>18. d = BorrowOut(x.bigits[k], LeftShiftedBigit(r, a, k), c)
  BY <1>2, <1>3 DEF d, BorrowOut
<1> QED BY <1>6, <1>7, <1>17, <1>18, Zenon DEF y, TakesExactly

LEMMA SubtractEnds ==
  ASSUME NEW x \in Numbers, NEW r \in Numbers, ZeroAbove(r), NEW a \in Nat,
         ShiftedLength(r, a) <= MaxBigits, NEW c \in Nat
  PROVE  /\ SubtractStanding(x, ShiftedLength(r, a), c, r, a)
              = BorrowStanding(x, ShiftedLength(r, a), c)
         /\ SubtractStanding(x, 0, 0, r, a) = Full(x) - Value(r) * Power(2, a)
<1>1. ShiftedLength(r, a) \in Nat /\ Taken(r, a) \in Numbers /\ MaxBigits \in Nat
  BY ShiftedLengthIs, TakenIs, WidthAssumption
<1>2. Upto(Taken(r, a), ShiftedLength(r, a)) = Value(r) * Power(2, a)
  <2>1. \A j \in 0..(ShiftedLength(r, a) - 1) :
           Taken(r, a).bigits[j] = LeftShiftedBigit(r, a, j)
    <3>1. \A j \in 0..(ShiftedLength(r, a) - 1) : j \in 0..(MaxBigits - 1)
      BY <1>1
    <3> QED BY <3>1, TakenIs, Zenon
  <2> QED BY <1>1, <2>1, ShiftedFull
<1>3. /\ Upto(Taken(r, a), 0) = 0 /\ Power(Base, 0) = 1 /\ Full(x) \in Nat
      /\ Power(Base, ShiftedLength(r, a)) \in Nat /\ Value(r) \in Nat /\ Power(2, a) \in Int
  BY <1>1, UptoIs, Places, ValueIs, PowerIs
<1>4. /\ Value(r) * Power(2, a) \in Int /\ c * Power(Base, ShiftedLength(r, a)) \in Int
  BY <1>3
<1> QED BY <1>2, <1>3, <1>4 DEF SubtractStanding, BorrowStanding

LEMMA BorrowStep ==
  ASSUME NEW x \in Numbers, NEW k \in Nat, NEW c \in 0..1, c > 0, BorrowStanding(x, k, c) >= 0
  PROVE  LET y == [x EXCEPT !.bigits[k] = (x.bigits[k] - c) % Base]
             d == IF x.bigits[k] = 0 THEN 1 ELSE 0
         IN  /\ k < MaxBigits
             /\ y \in Numbers /\ y.n = x.n /\ d \in 0..1
             /\ BorrowStanding(y, k + 1, d) = BorrowStanding(x, k, c)
<1> DEFINE y == [x EXCEPT !.bigits[k] = (x.bigits[k] - c) % Base]
           d == IF x.bigits[k] = 0 THEN 1 ELSE 0
<1>1. Full(x) \in Nat /\ Full(x) < Power(Base, MaxBigits) /\ Power(Base, k) \in Nat /\ c = 1
      /\ Power(Base, MaxBigits) \in Nat /\ MaxBigits \in Nat
  BY ValueIs, Places, WidthAssumption
<1>2. Full(x) >= Power(Base, k)
  BY <1>1 DEF BorrowStanding
<1>3. k < MaxBigits
  <2>1. MaxBigits <= k => Power(Base, MaxBigits) <= Power(Base, k)
    BY <1>1, PlacesGrow
  <2> QED BY <1>1, <1>2, <2>1
<1>4. k \in 0..(MaxBigits - 1)
  BY <1>1, <1>3
<1>5. PICK l \in 0..(Base - 1) : l = x.bigits[k] /\ l \in Int
  BY <1>4, DigitsAre
<1>6. 0 \in 0..(Base - 1)
  BY BaseNat
<1>7. /\ (l - 0 - c) % Base \in 0..(Base - 1)
      /\ (l - 0 - c) % Base = l - 0 - c + (IF l < 0 \/ (l = 0 /\ c > 0) THEN Base ELSE 0)
  BY <1>6, SubtractExact
<1>8. /\ (l - c) % Base \in 0..(Base - 1)
      /\ (l - c) % Base = l - c + d * Base
  <2>1. l - 0 - c = l - c
    BY <1>1
  <2>2. l < 0 \/ (l = 0 /\ c > 0) <=> l = 0
    BY <1>1, BaseNat
  <2> QED BY <1>5, <1>7, <2>1, <2>2, BaseNat
<1>9. PICK e \in Nat : e = (l - c) % Base /\ e \in 0..(Base - 1)
  BY <1>8, BaseNat
<1>10. PICK g \in Nat : g = d /\ g \in 0..1
  OBVIOUS
<1>11. y = [x EXCEPT !.bigits[k] = e]
  BY <1>5, <1>9, Zenon
<1> HIDE DEF y, d
<1>12. Full(y) = Full(x) + (e - l) * Power(Base, k) /\ y \in Numbers /\ y.n = x.n
  BY <1>4, <1>5, <1>9, <1>11, DigitSet
<1>13. PICK p \in Nat, b \in Nat, w \in Nat : /\ p = Power(Base, k) /\ b = Base /\ w = Full(x)
                                              /\ Power(Base, k + 1) = b * p
  BY <1>1, Places, BaseNat
<1>14. BorrowStanding(y, k + 1, d) = (w + (e - l) * p) - g * (b * p)
  BY <1>10, <1>12, <1>13, Zenon DEF BorrowStanding
<1>15. BorrowStanding(x, k, c) = w - c * p
  BY <1>13, Zenon DEF BorrowStanding
<1>16. (e - l) * p - g * (b * p) = -(c * p)
  <2>1. (e - l) * p - g * (b * p) = ((e - g * b) - l) * p
    BY <1>5
  <2>2. (e - g * b) - l = -c
    BY <1>1, <1>5, <1>8, <1>9, <1>10, <1>13
  <2>3. (-c) * p = -(c * p)
    BY <1>1
  <2> QED BY <2>1, <2>2, <2>3
<1>17. (e - l) * p \in Int /\ g * (b * p) \in Int /\ c * p \in Int
  BY <1>1, <1>5
<1>18. BorrowStanding(y, k + 1, d) = BorrowStanding(x, k, c)
  BY <1>14, <1>15, <1>16, <1>17
<1> QED BY <1>3, <1>10, <1>12, <1>18, Zenon DEF y, d

-----------------------------------------------------------------------------
(***************************************************************************)
(* Primitive operations: what the state of a loop is, and that every step  *)
(* keeps to it.                                                            *)
(***************************************************************************)

Multiplies == {"multiply_u32", "multiply_u64"}
Adds == {"add_u32", "add"}
Subtracts == {"subtract", "subtract_left_shifted"}

(* The number that lhs is once the current primitive returns: in loop p,   *)
(* with the digits x, the locals k and c, and the argument a.              *)
Stands(p, x, k, c, a, r) ==
  CASE p = "multiply" -> MultiplyStanding(x, k, c, a)
    [] p = "push" -> CarryStanding(x, x.n, c)
    [] p = "add" -> AddStanding(x, k, c, r)
    [] p = "carry" -> CarryStanding(x, k, c)
    [] p = "subtract" -> SubtractStanding(x, k, c, r, a)
    [] p = "borrow" -> BorrowStanding(x, k, c)
    [] OTHER -> Full(x)

Standing == Stands(pc, lhs, i, carry, Arg, rhs)

(* What is to be done after it.                                            *)
After == IF pc \in Loops THEN Tail(todo) ELSE todo

Tall(n, w) == n > 0 => w >= Power(Base, n - 1)

(* What a loop relies on, with the digits x, the locals k and c, and the   *)
(* argument a of operation o.                                              *)
InLoop(p, x, k, c, o, a, r, w) ==
  /\ p \in {"multiply", "push"} =>
       /\ o \in Multiplies /\ a \in 2..(Power(Base, 2) - 1)
       /\ ZeroAbove(x) /\ Tall(x.n, w)
  /\ p = "multiply" => k <= x.n
  /\ p = "clamp" => ZeroAbove(x)
  /\ p = "add" => o = "add" /\ r.n < MaxBigits /\ k <= r.n /\ Tall(r.n, w)
  /\ p \in {"add", "carry"} => c \in 0..1 /\ ZerosFrom(x, k) /\ Tall(x.n, w)
  /\ p = "carry" => k <= MaxBigits /\ (k > x.n => w >= Power(Base, k - 1))
  /\ p = "subtract" => /\ o \in Subtracts /\ a \in Nat
                       /\ ShiftedLength(r, a) <= MaxBigits /\ k <= ShiftedLength(r, a)
  /\ p \in {"subtract", "borrow"} => c \in 0..1 /\ w < Power(Base, x.n)

Machine ==
  /\ lhs \in Numbers /\ rhs \in Numbers /\ WellFormed(rhs)
  /\ i \in Nat /\ carry \in 0..(Power(Base, 2) - 1)
  /\ pc \in {"idle", "next"} \cup Loops
  /\ pc \in {"idle", "next"} => WellFormed(lhs)
  /\ Standing \in 0..(Power(Base, MaxBigits) - 1)
  /\ pc \in Loops => /\ todo # <<>>
                     /\ InLoop(pc, lhs, i, carry, Head(todo).op, Arg, rhs, Standing)

(* What an operation needs of the number w that it is done to, and what it *)
(* makes of it.                                                            *)
Legal(c, w, r) ==
  /\ c.op \in {"set_u32", "set_u64"} => c.arg \in 0..(Power(Base, 2) - 1)
  /\ c.op \in Multiplies => /\ c.arg \in 0..(Power(Base, 2) - 1)
                            /\ w * c.arg < Power(Base, MaxBigits)
  /\ c.op = "add_u32" => c.arg \in 0..(Base - 1) /\ w + c.arg < Power(Base, MaxBigits)
  /\ c.op = "add" => r.n < MaxBigits /\ w < Power(Base, MaxBigits - 1)
  /\ c.op = "subtract" => c.arg = 0
  /\ c.op \in Subtracts => /\ c.arg \in Nat
                           /\ Shiftable(r, c.arg) /\ ShiftedLength(r, c.arg) <= MaxBigits
                           /\ Value(r) * Power(2, c.arg) <= w
  /\ c.op = "shift_left" =>
       /\ c.arg \in Nat
       /\ \A x \in Numbers : Clamped(x) /\ Value(x) = w => Shiftable(x, c.arg)

Effect(c, w, r) ==
  CASE c.op = "zero" -> 0
    [] c.op = "set" -> Value(r)
    [] c.op \in {"set_u32", "set_u64"} -> c.arg
    [] c.op = "clamp" -> w
    [] c.op = "shift_left" -> w * Power(2, c.arg)
    [] c.op \in Multiplies -> w * c.arg
    [] c.op = "add_u32" -> w + c.arg
    [] c.op = "add" -> w + Value(r)
    [] c.op \in Subtracts -> w - Value(r) * Power(2, c.arg)
    [] OTHER -> w

(* A step of a loop, and one that begins an operation.                     *)
Continues == Machine' /\ Standing' = Standing /\ After' = After /\ pc \in Loops

Begins ==
  /\ Machine' /\ Standing' = Effect(Head(todo), Standing, rhs)
  /\ pc = "next" /\ todo # <<>> /\ After' = Tail(todo)

LEMMA LoopsAre ==
  /\ "idle" \notin Loops /\ "next" \notin Loops
  /\ \A p \in Loops : p # "idle" /\ p # "next"
BY DEF Loops

LEMMA BitIsCarry == 0..1 \subseteq 0..(Power(Base, 2) - 1)
BY BaseSquare, BaseNat

LEMMA MachineIs ==
  ASSUME Machine
  PROVE  /\ lhs \in Numbers /\ rhs \in Numbers /\ WellFormed(rhs) /\ i \in Nat
         /\ carry \in 0..(Power(Base, 2) - 1) /\ carry \in Nat
         /\ Standing \in Nat /\ Standing < Power(Base, MaxBigits)
         /\ Power(Base, MaxBigits) \in Nat /\ MaxBigits \in Nat /\ lhs.n \in Nat
         /\ lhs.n <= MaxBigits /\ rhs.n \in Nat /\ rhs.n <= MaxBigits
         /\ pc \in Loops => /\ todo # <<>>
                            /\ InLoop(pc, lhs, i, carry, Head(todo).op, Arg, rhs, Standing)
         /\ pc = "next" => WellFormed(lhs) /\ Standing = Full(lhs) /\ Standing = Value(lhs)
<1>1. MaxBigits \in Nat /\ Power(Base, MaxBigits) \in Nat
  BY WidthAssumption, Places
<1>2. /\ lhs \in Numbers /\ rhs \in Numbers /\ WellFormed(rhs) /\ i \in Nat
      /\ carry \in 0..(Power(Base, 2) - 1)
      /\ Standing \in 0..(Power(Base, MaxBigits) - 1)
      /\ pc \in Loops => /\ todo # <<>>
                         /\ InLoop(pc, lhs, i, carry, Head(todo).op, Arg, rhs, Standing)
      /\ pc = "next" => WellFormed(lhs)
  BY DEF Machine
<1>3. lhs.n \in Nat /\ rhs.n \in Nat /\ lhs.n <= MaxBigits /\ rhs.n <= MaxBigits
  BY <1>1, <1>2, DigitsAre
<1>4. carry \in Nat /\ Standing \in Nat /\ Standing < Power(Base, MaxBigits)
  BY <1>1, <1>2, BaseSquare
<1>5. ASSUME pc = "next" PROVE Standing = Full(lhs) /\ Standing = Value(lhs)
  <2>1. Standing = Full(lhs)
    BY <1>5 DEF Standing, Stands
  <2> QED BY <1>2, <1>5, <2>1, ValueIs DEF WellFormed
<1> QED BY <1>1, <1>2, <1>3, <1>4, <1>5

(* What is left to show of a step of a loop, or of one that begins an      *)
(* operation, that goes on in a loop.                                      *)
LEMMA GoKeeps ==
  ASSUME Machine, NEW site \in Loops, NEW x \in Numbers, NEW k \in Nat,
         NEW c \in 0..(Power(Base, 2) - 1), Go(site, x, k, c), todo # <<>>,
         Stands(site, x, k, c, Arg, rhs) \in Nat,
         Stands(site, x, k, c, Arg, rhs) < Power(Base, MaxBigits),
         InLoop(site, x, k, c, Head(todo).op, Arg, rhs, Stands(site, x, k, c, Arg, rhs))
  PROVE  Machine' /\ Standing' = Stands(site, x, k, c, Arg, rhs) /\ After' = Tail(todo)
<1>1. /\ lhs' = x /\ pc' = site /\ i' = k /\ carry' = c /\ rhs' = rhs /\ todo' = todo
      /\ Arg' = Arg
  BY DEF Go, Arg
<1>2. Standing' = Stands(site, x, k, c, Arg, rhs)
  BY <1>1, Zenon DEF Standing
<1>3. After' = Tail(todo)
  BY <1>1 DEF After
<1>4. site # "idle" /\ site # "next"
  BY LoopsAre
<1>5. Standing' \in 0..(Power(Base, MaxBigits) - 1)
  BY <1>2, MachineIs
<1>6. InLoop(pc', lhs', i', carry', Head(todo').op, Arg', rhs', Standing')
  BY <1>1, <1>2, Zenon
<1>7. WellFormed(rhs')
  BY <1>1, MachineIs, Zenon
<1>8. Machine'
  BY <1>1, <1>4, <1>5, <1>6, <1>7, MachineIs DEF Machine
<1> QED BY <1>2, <1>3, <1>8

(* The same of one that returns from it.                                   *)
LEMMA FinishKeeps ==
  ASSUME Machine, NEW x \in Numbers, WellFormed(x), Finish(x)
  PROVE  Machine' /\ Standing' = Value(x) /\ Standing' = Full(x) /\ After' = Tail(todo)
<1>1. lhs' = x /\ pc' = "next" /\ i' = 0 /\ carry' = 0 /\ rhs' = rhs /\ todo' = Tail(todo)
  BY DEF Finish
<1>2. Standing' = Full(x)
  BY <1>1 DEF Standing, Stands
<1>3. After' = Tail(todo)
  BY <1>1, LoopsAre DEF After
<1>4. Value(x) = Full(x) /\ Full(x) \in Nat /\ Full(x) < Power(Base, MaxBigits)
  BY ValueIs DEF WellFormed
<1>5. Standing' \in 0..(Power(Base, MaxBigits) - 1)
  BY <1>2, <1>4, MachineIs
<1>6. WellFormed(rhs') /\ WellFormed(lhs')
  BY <1>1, MachineIs, Zenon
<1>7. 0 \in 0..(Power(Base, 2) - 1)
  BY BaseSquare
<1>8. Machine'
  BY <1>1, <1>5, <1>6, <1>7, MachineIs, LoopsAre DEF Machine
<1> QED BY <1>2, <1>3, <1>4, <1>8

LEMMA GoContinues ==
  ASSUME Machine, pc \in Loops, NEW site \in Loops, NEW x \in Numbers, NEW k \in Nat,
         NEW c \in 0..(Power(Base, 2) - 1), Go(site, x, k, c),
         Stands(site, x, k, c, Arg, rhs) = Standing,
         InLoop(site, x, k, c, Head(todo).op, Arg, rhs, Standing)
  PROVE  Continues
<1>1. /\ Stands(site, x, k, c, Arg, rhs) \in Nat
      /\ Stands(site, x, k, c, Arg, rhs) < Power(Base, MaxBigits) /\ todo # <<>>
      /\ InLoop(site, x, k, c, Head(todo).op, Arg, rhs, Stands(site, x, k, c, Arg, rhs))
  BY MachineIs
<1>2. Machine' /\ Standing' = Stands(site, x, k, c, Arg, rhs) /\ After' = Tail(todo)
  BY <1>1, GoKeeps, Zenon
<1>3. After = Tail(todo)
  BY DEF After
<1> QED BY <1>2, <1>3 DEF Continues

LEMMA FinishContinues ==
  ASSUME Machine, pc \in Loops, NEW x \in Numbers, WellFormed(x), Full(x) = Standing, Finish(x)
  PROVE  Continues
<1>1. Machine' /\ Standing' = Full(x) /\ After' = Tail(todo)
  BY FinishKeeps, Zenon
<1>2. After = Tail(todo)
  BY DEF After
<1> QED BY <1>1, <1>2 DEF Continues

LEMMA MultiplyBigitOk ==
  ASSUME Machine, MultiplyBigit
  PROVE  Continues
<1> DEFINE low  == (Arg % Base) * lhs.bigits[i] + (carry % Base)
           high == (Arg \div Base) * lhs.bigits[i]
           d    == MultiplyCarry(low, high, carry)
           y    == [lhs EXCEPT !.bigits[i] = low % Base]
<1>0. lhs \in Numbers /\ i \in Nat /\ lhs.n \in Nat /\ carry \in 0..(Power(Base, 2) - 1)
  BY MachineIs
<1>1. pc = "multiply" /\ pc \in Loops /\ i < lhs.n /\ Go("multiply", y, i + 1, d)
  BY Zenon DEF MultiplyBigit, Loops
<1>2. /\ Head(todo).op \in Multiplies /\ Arg \in 2..(Power(Base, 2) - 1)
      /\ ZeroAbove(lhs) /\ Tall(lhs.n, Standing)
      /\ Standing = MultiplyStanding(lhs, i, carry, Arg)
  BY <1>1, MachineIs DEF InLoop, Standing, Stands
<1>3. Arg \in Nat /\ Arg < Power(Base, 2)
  BY <1>2, BaseSquare
<1>4. /\ y \in Numbers /\ y.n = lhs.n /\ ZeroAbove(y)
      /\ d \in 0..(Power(Base, 2) - 1)
      /\ MultiplyStanding(y, i + 1, d, Arg) = MultiplyStanding(lhs, i, carry, Arg)
  BY <1>0, <1>1, <1>2, <1>3, MultiplyStep, Zenon
<1> HIDE DEF low, high, d, y
<1>5. Stands("multiply", y, i + 1, d, Arg, rhs) = Standing
  BY <1>2, <1>4 DEF Stands
<1>6. InLoop("multiply", y, i + 1, d, Head(todo).op, Arg, rhs, Standing)
  BY <1>0, <1>1, <1>2, <1>4 DEF InLoop
<1>7. i + 1 \in Nat /\ "multiply" \in Loops
  BY <1>1, MachineIs
<1> QED BY <1>1, <1>4, <1>5, <1>6, <1>7, GoContinues

LEMMA EndMultiplyOk ==
  ASSUME Machine, EndMultiply
  PROVE  Continues
<1>0. lhs \in Numbers /\ i \in Nat /\ lhs.n \in Nat /\ carry \in 0..(Power(Base, 2) - 1)
      /\ carry \in Nat
  BY MachineIs
<1>1. pc = "multiply" /\ pc \in Loops /\ i >= lhs.n /\ Go("push", lhs, 0, carry)
  BY Zenon DEF EndMultiply, Loops
<1>2. /\ Head(todo).op \in Multiplies /\ Arg \in 2..(Power(Base, 2) - 1)
      /\ ZeroAbove(lhs) /\ Tall(lhs.n, Standing) /\ i <= lhs.n
      /\ Standing = MultiplyStanding(lhs, i, carry, Arg)
  BY <1>1, MachineIs DEF InLoop, Standing, Stands
<1>3. i = lhs.n /\ Arg \in Nat
  BY <1>0, <1>1, <1>2, BaseSquare
<1>4. Stands("push", lhs, 0, carry, Arg, rhs) = Standing
  BY <1>0, <1>2, <1>3, MultiplyEnds DEF Stands
<1>5. InLoop("push", lhs, 0, carry, Head(todo).op, Arg, rhs, Standing)
  BY <1>2 DEF InLoop
<1>6. "push" \in Loops
  BY DEF Loops
<1> QED BY <1>0, <1>1, <1>4, <1>5, <1>6, GoContinues

LEMMA PushCarryOk ==
  ASSUME Machine, PushCarry
  PROVE  Continues
<1> DEFINE y == [bigits |-> [lhs.bigits EXCEPT ![lhs.n] = carry % Base], n |-> lhs.n + 1]
           d == carry \div Base
<1>0. /\ lhs \in Numbers /\ lhs.n \in Nat /\ carry \in 0..(Power(Base, 2) - 1)
      /\ carry \in Nat /\ Standing < Power(Base, MaxBigits)
  BY MachineIs
<1>1. pc = "push" /\ pc \in Loops /\ carry > 0 /\ Go("push", y, 0, d)
  BY Zenon DEF PushCarry, Loops
<1>2. /\ Head(todo).op \in Multiplies /\ Arg \in 2..(Power(Base, 2) - 1)
      /\ ZeroAbove(lhs) /\ Tall(lhs.n, Standing)
      /\ Standing = CarryStanding(lhs, lhs.n, carry)
  BY <1>1, MachineIs DEF InLoop, Standing, Stands
<1>3. CarryStanding(lhs, lhs.n, carry) < Power(Base, MaxBigits)
  BY <1>0, <1>2
<1>4. /\ y \in Numbers /\ y.n = lhs.n + 1 /\ ZeroAbove(y) /\ d \in Nat /\ d <= carry
      /\ CarryStanding(y, y.n, d) = CarryStanding(lhs, lhs.n, carry)
  BY <1>0, <1>1, <1>2, <1>3, PushStep, Zenon
<1>5. Standing >= Power(Base, lhs.n)
  BY <1>0, <1>1, <1>2, <1>3, CarryFits
<1> HIDE DEF d, y
<1>6. d \in 0..(Power(Base, 2) - 1)
  BY <1>0, <1>4, BaseSquare
<1>7. Stands("push", y, 0, d, Arg, rhs) = Standing
  BY <1>2, <1>4 DEF Stands
<1>8. Tall(y.n, Standing)
  BY <1>0, <1>4, <1>5 DEF Tall
<1>9. InLoop("push", y, 0, d, Head(todo).op, Arg, rhs, Standing)
  BY <1>2, <1>4, <1>8 DEF InLoop
<1> QED BY <1>1, <1>4, <1>6, <1>7, <1>9, GoContinues

LEMMA EndPushOk ==
  ASSUME Machine, EndPush
  PROVE  Continues
<1>1. lhs \in Numbers /\ lhs.n \in Nat /\ pc = "push" /\ pc \in Loops /\ carry = 0 /\ Finish(lhs)
  BY MachineIs DEF EndPush, Loops
<1>2. ZeroAbove(lhs) /\ Tall(lhs.n, Standing) /\ Standing = CarryStanding(lhs, lhs.n, 0)
  BY <1>1, MachineIs DEF InLoop, Standing, Stands
<1>3. Full(lhs) = Standing
  BY <1>1, <1>2, CarryEnds
<1>4. WellFormed(lhs)
  BY <1>1, <1>2, <1>3, TallIsClamped DEF Tall
<1> QED BY <1>1, <1>3, <1>4, FinishContinues

LEMMA ClampBigitOk ==
  ASSUME Machine, ClampBigit
  PROVE  Continues
<1> DEFINE y == [lhs EXCEPT !.n = lhs.n - 1]
<1>0. lhs \in Numbers /\ lhs.n \in Nat /\ lhs.n <= MaxBigits /\ MaxBigits \in Nat
  BY MachineIs
<1>1. pc = "clamp" /\ pc \in Loops /\ ~Clamped(lhs) /\ Go("clamp", y, 0, 0)
  BY Zenon DEF ClampBigit, Loops
<1>2. ZeroAbove(lhs) /\ Standing = Full(lhs)
  BY <1>1, MachineIs DEF InLoop, Standing, Stands
<1>3. lhs.n > 0 /\ lhs.n - 1 \in 0..(MaxBigits - 1) /\ ~(lhs.bigits[lhs.n - 1] > 0)
  BY <1>0, <1>1 DEF Clamped
<1>4. lhs.bigits[lhs.n - 1] = 0
  BY <1>0, <1>3, DigitsAre
<1>5. y \in Numbers /\ y.n = lhs.n - 1 /\ y.bigits = lhs.bigits
  BY <1>0, <1>3 DEF Numbers
<1> HIDE DEF y
<1>6. Full(y) = Full(lhs)
  BY <1>0, <1>5, UptoSame DEF Full
<1>7. ZeroAbove(y)
  <2>1. \A j \in 0..(MaxBigits - 1) : j >= lhs.n => lhs.bigits[j] = 0
    BY <1>2, ZeroAboveIs
  <2>2. \A j \in 0..(MaxBigits - 1) : j >= y.n => y.bigits[j] = 0
    BY <1>0, <1>4, <1>5, <2>1
  <2> QED BY <2>2, ZeroAboveIs, Zenon
<1>8. Stands("clamp", y, 0, 0, Arg, rhs) = Standing
  BY <1>2, <1>6 DEF Stands
<1>9. InLoop("clamp", y, 0, 0, Head(todo).op, Arg, rhs, Standing)
  BY <1>7 DEF InLoop
<1>10. 0 \in 0..(Power(Base, 2) - 1)
  BY BaseSquare
<1> QED BY <1>1, <1>5, <1>8, <1>9, <1>10, GoContinues

LEMMA EndClampOk ==
  ASSUME Machine, EndClamp
  PROVE  Continues
<1>1. lhs \in Numbers /\ pc = "clamp" /\ pc \in Loops /\ Clamped(lhs) /\ Finish(lhs)
  BY MachineIs DEF EndClamp, Loops
<1>2. ZeroAbove(lhs) /\ Standing = Full(lhs)
  BY <1>1, MachineIs DEF InLoop, Standing, Stands
<1> QED BY <1>1, <1>2, FinishContinues DEF WellFormed

LEMMA AddBigitOk ==
  ASSUME Machine, AddBigit
  PROVE  Continues
<1> DEFINE sum == lhs.bigits[i] + rhs.bigits[i] + carry
           y   == [lhs EXCEPT !.bigits[i] = sum % Base]
           d   == sum \div Base
<1>0. lhs \in Numbers /\ rhs \in Numbers /\ i \in Nat /\ rhs.n \in Nat
  BY MachineIs
<1>1. pc = "add" /\ pc \in Loops /\ i < rhs.n /\ Go("add", y, i + 1, d)
  BY Zenon DEF AddBigit, Loops
<1>2. /\ Head(todo).op = "add" /\ rhs.n < MaxBigits /\ Tall(rhs.n, Standing)
      /\ carry \in 0..1 /\ ZerosFrom(lhs, i) /\ Tall(lhs.n, Standing)
      /\ Standing = AddStanding(lhs, i, carry, rhs)
  BY <1>1, MachineIs DEF InLoop, Standing, Stands
<1>3. /\ y \in Numbers /\ y.n = lhs.n /\ ZerosFrom(y, i + 1) /\ d \in 0..1
      /\ AddStanding(y, i + 1, d, rhs) = AddStanding(lhs, i, carry, rhs)
  <2>1. LET s == lhs.bigits[i] + rhs.bigits[i] + carry
            z == [lhs EXCEPT !.bigits[i] = s % Base]
        IN  /\ z \in Numbers /\ z.n = lhs.n
            /\ ZerosFrom(lhs, i) => ZerosFrom(z, i + 1)
            /\ s \div Base \in 0..1
            /\ AddStanding(z, i + 1, s \div Base, rhs) = AddStanding(lhs, i, carry, rhs)
    BY <1>0, <1>1, <1>2, AddStep, Zenon
  <2> QED BY <1>2, <2>1, Zenon
<1> HIDE DEF sum, y, d
<1>4. i + 1 \in Nat /\ i + 1 <= rhs.n /\ d \in 0..(Power(Base, 2) - 1)
  BY <1>0, <1>1, <1>3, BitIsCarry
<1>5. Stands("add", y, i + 1, d, Arg, rhs) = Standing
  BY <1>2, <1>3 DEF Stands
<1>6. InLoop("add", y, i + 1, d, Head(todo).op, Arg, rhs, Standing)
  BY <1>2, <1>3, <1>4 DEF InLoop
<1> QED BY <1>1, <1>3, <1>4, <1>5, <1>6, GoContinues

LEMMA EndAddOk ==
  ASSUME Machine, EndAdd
  PROVE  Continues
<1>0. /\ lhs \in Numbers /\ rhs \in Numbers /\ i \in Nat /\ rhs.n \in Nat /\ lhs.n \in Nat
      /\ carry \in 0..(Power(Base, 2) - 1) /\ carry \in Nat /\ MaxBigits \in Nat
  BY MachineIs
<1>1. pc = "add" /\ pc \in Loops /\ i >= rhs.n /\ Go("carry", lhs, i, carry)
  BY Zenon DEF EndAdd, Loops
<1>2. /\ Head(todo).op = "add" /\ rhs.n < MaxBigits /\ Tall(rhs.n, Standing) /\ i <= rhs.n
      /\ carry \in 0..1 /\ ZerosFrom(lhs, i) /\ Tall(lhs.n, Standing)
      /\ Standing = AddStanding(lhs, i, carry, rhs)
  BY <1>1, MachineIs DEF InLoop, Standing, Stands
<1>3. i = rhs.n
  BY <1>0, <1>1, <1>2
<1>4. Stands("carry", lhs, i, carry, Arg, rhs) = Standing
  BY <1>0, <1>2, <1>3, AddEnds DEF Stands
<1>5. i <= MaxBigits /\ (i > lhs.n => Standing >= Power(Base, i - 1))
  BY <1>0, <1>2, <1>3 DEF Tall
<1>6. InLoop("carry", lhs, i, carry, Head(todo).op, Arg, rhs, Standing)
  BY <1>2, <1>5 DEF InLoop
<1>7. "carry" \in Loops
  BY DEF Loops
<1> QED BY <1>0, <1>1, <1>4, <1>6, <1>7, GoContinues

LEMMA AddCarryOk ==
  ASSUME Machine, AddCarry
  PROVE  Continues
<1> DEFINE sum == lhs.bigits[i] + carry
           y   == [lhs EXCEPT !.bigits[i] = sum % Base]
           d   == sum \div Base
<1>0. lhs \in Numbers /\ i \in Nat /\ MaxBigits \in Nat /\ Standing < Power(Base, MaxBigits)
      /\ carry \in Nat
  BY MachineIs
<1>1. pc = "carry" /\ pc \in Loops /\ carry > 0 /\ Go("carry", y, i + 1, d)
  BY Zenon DEF AddCarry, Loops
<1>2. /\ carry \in 0..1 /\ ZerosFrom(lhs, i) /\ Tall(lhs.n, Standing)
      /\ Standing = CarryStanding(lhs, i, carry)
  BY <1>1, MachineIs DEF InLoop, Standing, Stands
<1>3. CarryStanding(lhs, i, carry) < Power(Base, MaxBigits)
  BY <1>0, <1>2
<1>4. /\ y \in Numbers /\ y.n = lhs.n /\ ZerosFrom(y, i + 1) /\ d \in 0..1
      /\ CarryStanding(y, i + 1, d) = CarryStanding(lhs, i, carry)
  BY <1>0, <1>1, <1>2, <1>3, CarryStep, Zenon
<1>5. i < MaxBigits /\ Standing >= Power(Base, i)
  BY <1>0, <1>1, <1>2, <1>3, CarryFits
<1> HIDE DEF sum, y, d
<1>6. i + 1 \in Nat /\ i + 1 <= MaxBigits /\ d \in 0..(Power(Base, 2) - 1) /\ (i + 1) - 1 = i
  BY <1>0, <1>4, <1>5, BitIsCarry
<1>7. Stands("carry", y, i + 1, d, Arg, rhs) = Standing
  BY <1>2, <1>4 DEF Stands
<1>8. InLoop("carry", y, i + 1, d, Head(todo).op, Arg, rhs, Standing)
  BY <1>2, <1>4, <1>5, <1>6 DEF InLoop
<1> QED BY <1>1, <1>4, <1>6, <1>7, <1>8, GoContinues

LEMMA EndCarryOk ==
  ASSUME Machine, EndCarry
  PROVE  Continues
<1> DEFINE y == Longer(lhs, i)
<1>0. lhs \in Numbers /\ i \in Nat
  BY MachineIs
<1>1. pc = "carry" /\ pc \in Loops /\ carry = 0 /\ Finish(y)
  BY Zenon DEF EndCarry, Loops
<1>2. /\ ZerosFrom(lhs, i) /\ Tall(lhs.n, Standing) /\ i <= MaxBigits
      /\ i > lhs.n => Standing >= Power(Base, i - 1)
      /\ Standing = CarryStanding(lhs, i, 0)
  BY <1>1, MachineIs DEF InLoop, Standing, Stands
<1>3. Full(lhs) = Standing
  BY <1>0, <1>2, CarryEnds
<1>4. y \in Numbers /\ WellFormed(y) /\ Full(y) = Standing
  BY <1>0, <1>2, <1>3, SumEnds, Zenon DEF Tall
<1> HIDE DEF y
<1> QED BY <1>1, <1>4, FinishContinues

LEMMA SubtractBigitOk ==
  ASSUME Machine, SubtractBigit
  PROVE  Continues
<1> DEFINE l == lhs.bigits[i]
           t == LeftShiftedBigit(rhs, Arg, i)
           y == [lhs EXCEPT !.bigits[i] = (l - t - carry) % Base]
           d == BorrowOut(l, t, carry)
<1>0. lhs \in Numbers /\ rhs \in Numbers /\ i \in Nat /\ MaxBigits \in Nat
  BY MachineIs
<1>1. pc = "subtract" /\ pc \in Loops /\ i < ShiftedLength(rhs, Arg)
      /\ Go("subtract", y, i + 1, d)
  BY Zenon DEF SubtractBigit, Loops, BorrowOut
<1>2. /\ Head(todo).op \in Subtracts /\ Arg \in Nat /\ ShiftedLength(rhs, Arg) <= MaxBigits
      /\ carry \in 0..1 /\ Standing < Power(Base, lhs.n)
      /\ Standing = SubtractStanding(lhs, i, carry, rhs, Arg)
  BY <1>1, MachineIs DEF InLoop, Standing, Stands
<1>3. ShiftedLength(rhs, Arg) \in Nat
  BY <1>0, <1>2, ShiftedLengthIs
<1>4. i \in 0..(MaxBigits - 1)
  BY <1>0, <1>1, <1>2, <1>3
<1>5. /\ y \in Numbers /\ y.n = lhs.n /\ d \in 0..1
      /\ SubtractStanding(y, i + 1, d, rhs, Arg) = SubtractStanding(lhs, i, carry, rhs, Arg)
  <2>1. TakesExactly(lhs, rhs, Arg, i, carry)
    BY <1>0, <1>2, <1>4, SubtractStep
  <2> QED BY <2>1, Zenon DEF TakesExactly
<1> HIDE DEF l, t, y, d
<1>6. i + 1 \in Nat /\ i + 1 <= ShiftedLength(rhs, Arg) /\ d \in 0..(Power(Base, 2) - 1)
  BY <1>0, <1>1, <1>3, <1>5, BitIsCarry
<1>7. Stands("subtract", y, i + 1, d, Arg, rhs) = Standing
  BY <1>2, <1>5 DEF Stands
<1>8. InLoop("subtract", y, i + 1, d, Head(todo).op, Arg, rhs, Standing)
  BY <1>2, <1>5, <1>6 DEF InLoop
<1> QED BY <1>1, <1>5, <1>6, <1>7, <1>8, GoContinues

LEMMA EndSubtractOk ==
  ASSUME Machine, EndSubtract
  PROVE  Continues
<1>0. lhs \in Numbers /\ rhs \in Numbers /\ i \in Nat /\ carry \in 0..(Power(Base, 2) - 1)
      /\ carry \in Nat /\ WellFormed(rhs)
  BY MachineIs
<1>1. pc = "subtract" /\ pc \in Loops /\ i >= ShiftedLength(rhs, Arg)
      /\ Go("borrow", lhs, i, carry)
  BY Zenon DEF EndSubtract, Loops
<1>2. /\ Arg \in Nat /\ ShiftedLength(rhs, Arg) <= MaxBigits /\ i <= ShiftedLength(rhs, Arg)
      /\ carry \in 0..1 /\ Standing < Power(Base, lhs.n)
      /\ Standing = SubtractStanding(lhs, i, carry, rhs, Arg)
  BY <1>1, MachineIs DEF InLoop, Standing, Stands
<1>3. i = ShiftedLength(rhs, Arg)
  BY <1>0, <1>1, <1>2, ShiftedLengthIs
<1>4. SubtractStanding(lhs, i, carry, rhs, Arg) = BorrowStanding(lhs, i, carry)
  BY <1>0, <1>2, <1>3, SubtractEnds DEF WellFormed
<1>5. Stands("borrow", lhs, i, carry, Arg, rhs) = Standing
  BY <1>2, <1>4 DEF Stands
<1>6. InLoop("borrow", lhs, i, carry, Head(todo).op, Arg, rhs, Standing)
  BY <1>2 DEF InLoop
<1>7. "borrow" \in Loops
  BY DEF Loops
<1> QED BY <1>0, <1>1, <1>5, <1>6, <1>7, GoContinues

LEMMA SubtractBorrowOk ==
  ASSUME Machine, SubtractBorrow
  PROVE  Continues
<1> DEFINE y == [lhs EXCEPT !.bigits[i] = (lhs.bigits[i] - carry) % Base]
           d == IF lhs.bigits[i] = 0 THEN 1 ELSE 0
<1>0. lhs \in Numbers /\ i \in Nat /\ Standing \in Nat
  BY MachineIs
<1>1. pc = "borrow" /\ pc \in Loops /\ carry > 0 /\ Go("borrow", y, i + 1, d)
  BY Zenon DEF SubtractBorrow, Loops
<1>2. /\ carry \in 0..1 /\ Standing < Power(Base, lhs.n)
      /\ Standing = BorrowStanding(lhs, i, carry)
  BY <1>1, MachineIs DEF InLoop, Standing, Stands
<1>3. BorrowStanding(lhs, i, carry) >= 0
  BY <1>0, <1>2
<1>4. /\ y \in Numbers /\ y.n = lhs.n /\ d \in 0..1
      /\ BorrowStanding(y, i + 1, d) = BorrowStanding(lhs, i, carry)
  BY <1>0, <1>1, <1>2, <1>3, BorrowStep, Zenon
<1> HIDE DEF y, d
<1>5. i + 1 \in Nat /\ d \in 0..(Power(Base, 2) - 1)
  BY <1>0, <1>4, BitIsCarry
<1>6. Stands("borrow", y, i + 1, d, Arg, rhs) = Standing
  BY <1>2, <1>4 DEF Stands
<1>7. InLoop("borrow", y, i + 1, d, Head(todo).op, Arg, rhs, Standing)
  BY <1>2, <1>4 DEF InLoop
<1> QED BY <1>1, <1>4, <1>5, <1>6, <1>7, GoContinues

LEMMA EndBorrowOk ==
  ASSUME Machine, EndBorrow
  PROVE  Continues
<1>0. lhs \in Numbers /\ i \in Nat /\ lhs.n \in 0..MaxBigits
  BY MachineIs, DigitsAre
<1>1. pc = "borrow" /\ pc \in Loops /\ carry = 0 /\ Go("clamp", lhs, 0, 0)
  BY Zenon DEF EndBorrow, Loops
<1>2. Standing < Power(Base, lhs.n) /\ Standing = BorrowStanding(lhs, i, 0)
  BY <1>1, MachineIs DEF InLoop, Standing, Stands
<1>3. Full(lhs) = Standing /\ Full(lhs) < Power(Base, lhs.n)
  BY <1>0, <1>2, CarryEnds
<1>4. ZeroAbove(lhs)
  BY <1>0, <1>3, SmallHasZeros, ZeroAboveIs
<1>5. Stands("clamp", lhs, 0, 0, Arg, rhs) = Standing
  BY <1>3 DEF Stands
<1>6. InLoop("clamp", lhs, 0, 0, Head(todo).op, Arg, rhs, Standing)
  BY <1>4 DEF InLoop
<1>7. 0 \in 0..(Power(Base, 2) - 1) /\ "clamp" \in Loops
  BY BaseSquare DEF Loops
<1> QED BY <1>0, <1>1, <1>5, <1>6, <1>7, GoContinues

(* Every step of a loop keeps to it, whatever lhs is on the way.           *)
LoopStep ==
  \/ MultiplyBigit \/ EndMultiply \/ PushCarry \/ EndPush \/ ClampBigit \/ EndClamp
  \/ AddBigit \/ EndAdd \/ AddCarry \/ EndCarry
  \/ SubtractBigit \/ EndSubtract \/ SubtractBorrow \/ EndBorrow

LEMMA LoopsContinue ==
  ASSUME Machine, LoopStep
  PROVE  Continues
BY MultiplyBigitOk, EndMultiplyOk, PushCarryOk, EndPushOk, ClampBigitOk, EndClampOk,
   AddBigitOk, EndAddOk, AddCarryOk, EndCarryOk, SubtractBigitOk, EndSubtractOk,
   SubtractBorrowOk, EndBorrowOk, Zenon DEF LoopStep

-----------------------------------------------------------------------------
(***************************************************************************)
(* The steps that begin an operation.                                      *)
(***************************************************************************)

LEMMA ZeroIs ==
  Zero \in Numbers /\ WellFormed(Zero) /\ Value(Zero) = 0
<1>1. Zero \in Numbers /\ Zero.n = 0
  BY WidthAssumption, BaseNat DEF Zero, Numbers, Bigits
<1>2. ZeroAbove(Zero)
  BY DEF Zero, ZeroAbove
<1>3. Clamped(Zero)
  BY <1>1 DEF Clamped
<1>4. Value(Zero) = 0
  BY <1>1, UptoIs DEF Value
<1> QED BY <1>1, <1>2, <1>3, <1>4 DEF WellFormed

LEMMA SetU64Exact ==
  ASSUME NEW v \in 0..(Power(Base, 2) - 1)
  PROVE  SetU64(v) \in Numbers /\ WellFormed(SetU64(v)) /\ Value(SetU64(v)) = v
<1> DEFINE x == SetU64(v)
<1>0. PICK b \in Nat : b = Base /\ b >= 2 /\ Power(Base, 2) = b * b
  BY BaseNat, BaseSquare
<1>1. v \in Int /\ v >= 0 /\ v < b * b
  BY <1>0
<1>2. /\ v \div b \in Int /\ v % b \in Int /\ v % b >= 0 /\ v % b < b
      /\ v = (v \div b) * b + (v % b) /\ v \div b >= 0
  BY <1>0, <1>1, Division
<1>3. v \div b < b
  BY <1>0, <1>1, QuotientBound
<1>4. (v \div b) % b = v \div b
  BY <1>0, <1>2, <1>3, Division
<1>5. PICK q \in Nat, r \in Nat : q = v \div b /\ r = v % b /\ q < b /\ r < b /\ v = q * b + r
  BY <1>2, <1>3
<1>6. MaxBigits \in Nat /\ MaxBigits >= 2
  BY WidthAssumption
<1>7. x = [bigits |-> [j \in Indices |-> CASE j = 0 -> r [] j = 1 -> q [] OTHER -> 0],
           n |-> IF q > 0 THEN 2 ELSE IF v > 0 THEN 1 ELSE 0]
  <2>1. v % Base = r /\ (v \div Base) % Base = q /\ v \div Base = q
    BY <1>0, <1>4, <1>5
  <2> QED BY <2>1 DEF SetU64
<1> HIDE DEF x
<1>8. x.n = IF q > 0 THEN 2 ELSE IF v > 0 THEN 1 ELSE 0
  BY <1>7
<1>9. x.bigits = [j \in Indices |-> CASE j = 0 -> r [] j = 1 -> q [] OTHER -> 0]
  BY <1>7
<1>10. x \in Numbers
  <2>1. x.n \in 0..MaxBigits
    BY <1>6, <1>8
  <2>2. \A j \in Indices : (CASE j = 0 -> r [] j = 1 -> q [] OTHER -> 0) \in Bigits
    <3>1. r \in Bigits /\ q \in Bigits /\ 0 \in Bigits
      BY <1>0, <1>5 DEF Bigits
    <3>2. \A j \in Indices : j \in Int
      BY <1>6 DEF Indices
    <3> QED BY <3>1, <3>2
  <2>3. x.bigits \in [Indices -> Bigits]
    BY <1>9, <2>2
  <2> QED BY <1>7, <2>1, <2>3 DEF Numbers
<1>11. /\ x.bigits[0] = r /\ x.bigits[1] = q
       /\ \A j \in 0..(MaxBigits - 1) : j >= 2 => x.bigits[j] = 0
  BY <1>6, <1>9 DEF Indices
<1>12. Upto(x, 1) = r /\ Upto(x, 2) = v /\ Upto(x, 0) = 0
  <2>1. 0 \in 0..(MaxBigits - 1) /\ 1 \in 0..(MaxBigits - 1)
    BY <1>6
  <2>2. /\ Upto(x, 0) = 0 /\ Upto(x, 0 + 1) = Upto(x, 0) + x.bigits[0] * Power(Base, 0)
        /\ Upto(x, 1 + 1) = Upto(x, 1) + x.bigits[1] * Power(Base, 1)
    BY <1>10, <2>1, UptoIs
  <2>3. Power(Base, 0) = 1 /\ Power(Base, 0 + 1) = Base * Power(Base, 0)
    BY Places
  <2>4. Power(Base, 1) = b
    BY <1>0, <2>3
  <2>5. Upto(x, 1) = r
    BY <1>11, <2>2, <2>3
  <2>6. Upto(x, 2) = r + q * b
    BY <1>11, <2>2, <2>4, <2>5
  <2> QED BY <1>5, <2>2, <2>5, <2>6
<1>13. q = 0 => v = r
  BY <1>5
<1>14. Value(x) = v
  <2>1. CASE q > 0
    BY <1>8, <1>12, <2>1 DEF Value
  <2>2. CASE q = 0 /\ v > 0
    BY <1>8, <1>12, <1>13, <2>2 DEF Value
  <2>3. CASE q = 0 /\ v = 0
    BY <1>8, <1>12, <2>3 DEF Value
  <2> QED BY <1>1, <2>1, <2>2, <2>3
<1>15. Clamped(x)
  <2>1. CASE q > 0
    BY <1>8, <1>11, <2>1 DEF Clamped
  <2>2. CASE q = 0 /\ v > 0
    BY <1>8, <1>11, <1>13, <2>2 DEF Clamped
  <2>3. CASE q = 0 /\ v = 0
    BY <1>8, <2>3 DEF Clamped
  <2> QED BY <1>1, <2>1, <2>2, <2>3
<1>16. ZeroAbove(x)
  <2>1. \A j \in 0..(MaxBigits - 1) : j >= x.n => x.bigits[j] = 0
    <3>1. CASE q > 0
      BY <1>8, <1>11, <3>1
    <3>2. CASE q = 0 /\ v > 0
      BY <1>6, <1>8, <1>11, <3>2
    <3>3. CASE q = 0 /\ v = 0
      BY <1>6, <1>8, <1>11, <1>13, <3>3
    <3> QED BY <1>1, <3>1, <3>2, <3>3
  <2> QED BY <1>10, <2>1, ZeroAboveIs, Zenon
<1> QED BY <1>10, <1>14, <1>15, <1>16 DEF WellFormed, x

LEMMA EffectIs ==
  ASSUME NEW c, NEW w, NEW r
  PROVE  /\ c.op = "zero" => Effect(c, w, r) = 0
         /\ c.op = "set" => Effect(c, w, r) = Value(r)
         /\ c.op \in {"set_u32", "set_u64"} => Effect(c, w, r) = c.arg
         /\ c.op = "clamp" => Effect(c, w, r) = w
         /\ c.op = "shift_left" => Effect(c, w, r) = w * Power(2, c.arg)
         /\ c.op \in Multiplies => Effect(c, w, r) = w * c.arg
         /\ c.op = "add_u32" => Effect(c, w, r) = w + c.arg
         /\ c.op = "add" => Effect(c, w, r) = w + Value(r)
         /\ c.op \in Subtracts => Effect(c, w, r) = w - Value(r) * Power(2, c.arg)
BY DEF Effect, Multiplies, Subtracts

(* Any other step of a primitive begins it.                                *)
Beginning ==
  \/ Set \/ CallMultiply \/ CallShiftLeft \/ CallClamp \/ CallAddU32 \/ CallAdd \/ CallSubtract

LEMMA FinishBegins ==
  ASSUME Machine, pc = "next", todo # <<>>, NEW x \in Numbers, WellFormed(x), Finish(x),
         Value(x) = Effect(Head(todo), Standing, rhs)
  PROVE  Begins
<1>1. Machine' /\ Standing' = Value(x) /\ After' = Tail(todo)
  BY FinishKeeps, Zenon
<1> QED BY <1>1 DEF Begins

LEMMA GoBegins ==
  ASSUME Machine, pc = "next", todo # <<>>,
         NEW site \in Loops, NEW x \in Numbers, NEW k \in Nat,
         NEW c \in 0..(Power(Base, 2) - 1), Go(site, x, k, c),
         NEW w \in Nat, w < Power(Base, MaxBigits), w = Effect(Head(todo), Standing, rhs),
         Stands(site, x, k, c, Arg, rhs) = w,
         InLoop(site, x, k, c, Head(todo).op, Arg, rhs, w)
  PROVE  Begins
<1>1. Machine' /\ Standing' = Stands(site, x, k, c, Arg, rhs) /\ After' = Tail(todo)
  BY GoKeeps, Zenon
<1> QED BY <1>1 DEF Begins

LEMMA SetOk ==
  ASSUME Machine, Legal(Head(todo), Standing, rhs), Set
  PROVE  Begins
<1>1. CASE Doing("zero") /\ Finish(Zero)
  <2>1. Effect(Head(todo), Standing, rhs) = 0
    BY <1>1, EffectIs DEF Doing
  <2> QED BY <1>1, <2>1, ZeroIs, FinishBegins DEF Doing
<1>2. CASE Doing("set") /\ Finish(rhs)
  <2>1. Effect(Head(todo), Standing, rhs) = Value(rhs)
    BY <1>2, EffectIs DEF Doing
  <2> QED BY <1>2, <2>1, MachineIs, FinishBegins DEF Doing
<1>3. CASE (Doing("set_u32") \/ Doing("set_u64")) /\ Finish(SetU64(Arg))
  <2>1. Effect(Head(todo), Standing, rhs) = Arg /\ Arg \in 0..(Power(Base, 2) - 1)
    BY <1>3, EffectIs DEF Doing, Arg, Legal
  <2>2. SetU64(Arg) \in Numbers /\ WellFormed(SetU64(Arg)) /\ Value(SetU64(Arg)) = Arg
    BY <2>1, SetU64Exact
  <2> QED BY <1>3, <2>1, <2>2, FinishBegins DEF Doing
<1> QED BY <1>1, <1>2, <1>3, Zenon DEF Set

LEMMA CallMultiplyOk ==
  ASSUME Machine, Legal(Head(todo), Standing, rhs), CallMultiply
  PROVE  Begins
<1>1. /\ pc = "next" /\ todo # <<>> /\ Head(todo).op \in Multiplies
      /\ Arg = Head(todo).arg
  BY DEF CallMultiply, Doing, Arg, Multiplies
<1>2. Arg \in 0..(Power(Base, 2) - 1) /\ Standing * Arg < Power(Base, MaxBigits)
  BY <1>1 DEF Legal
<1>3. Effect(Head(todo), Standing, rhs) = Standing * Arg
  BY <1>1, EffectIs
<1>4. lhs \in Numbers /\ WellFormed(lhs) /\ Standing = Full(lhs) /\ Standing = Value(lhs)
      /\ Standing \in Nat /\ lhs.n \in Nat /\ ZeroAbove(lhs) /\ Clamped(lhs)
  BY <1>1, MachineIs DEF WellFormed
<1>5. CASE Arg = 0 /\ Finish(Zero)
  BY <1>1, <1>3, <1>4, <1>5, ZeroIs, FinishBegins
<1>6. CASE Arg = 1 /\ Finish(lhs)
  BY <1>1, <1>3, <1>4, <1>6, FinishBegins
<1>7. CASE Arg > 1 /\ Go("multiply", lhs, 0, 0)
  <2>1. Arg \in Nat /\ Arg \in 2..(Power(Base, 2) - 1) /\ Standing * Arg \in Nat
    BY <1>2, <1>4, <1>7, BaseSquare
  <2>2. Stands("multiply", lhs, 0, 0, Arg, rhs) = Standing * Arg
    BY <1>4, <2>1, MultiplyStarts DEF Stands
  <2>3. Tall(lhs.n, Standing * Arg)
    <3>1. lhs.n > 0 => Standing >= Power(Base, lhs.n - 1) /\ Power(Base, lhs.n - 1) \in Nat
      BY <1>4, ValueIs, Places
    <3>2. Standing * Arg >= Standing
      BY <1>4, <2>1
    <3> QED BY <1>4, <2>1, <3>1, <3>2 DEF Tall
  <2>4. InLoop("multiply", lhs, 0, 0, Head(todo).op, Arg, rhs, Standing * Arg)
    BY <1>1, <1>4, <2>1, <2>3 DEF InLoop
  <2>5. 0 \in 0..(Power(Base, 2) - 1) /\ "multiply" \in Loops
    BY BaseSquare DEF Loops
  <2> QED BY <1>1, <1>2, <1>3, <1>4, <1>7, <2>1, <2>2, <2>4, <2>5, GoBegins
<1> QED BY <1>5, <1>6, <1>7, Zenon DEF CallMultiply

LEMMA CallShiftLeftOk ==
  ASSUME Machine, Legal(Head(todo), Standing, rhs), CallShiftLeft
  PROVE  Begins
<1> DEFINE y == ShiftLeft(lhs, Arg)
<1>1. /\ pc = "next" /\ todo # <<>> /\ Head(todo).op = "shift_left" /\ Arg = Head(todo).arg
      /\ Go("clamp", y, 0, 0)
  BY Zenon DEF CallShiftLeft, Doing, Arg
<1>2. lhs \in Numbers /\ WellFormed(lhs) /\ Standing = Value(lhs) /\ Clamped(lhs)
  BY <1>1, MachineIs DEF WellFormed
<1>3. Arg \in Nat /\ Shiftable(lhs, Arg)
  BY <1>1, <1>2 DEF Legal
<1>4. Effect(Head(todo), Standing, rhs) = Standing * Power(2, Arg)
  BY <1>1, EffectIs
<1>5. y \in Numbers /\ ZeroAbove(y) /\ Full(y) = Standing * Power(2, Arg)
  BY <1>2, <1>3, ShiftLeftExact
<1> HIDE DEF y
<1>6. Full(y) \in Nat /\ Full(y) < Power(Base, MaxBigits)
  BY <1>5, ValueIs
<1>7. Stands("clamp", y, 0, 0, Arg, rhs) = Full(y)
  BY DEF Stands
<1>8. InLoop("clamp", y, 0, 0, Head(todo).op, Arg, rhs, Full(y))
  BY <1>5 DEF InLoop
<1>9. 0 \in 0..(Power(Base, 2) - 1) /\ "clamp" \in Loops
  BY BaseSquare DEF Loops
<1> QED BY <1>1, <1>4, <1>5, <1>6, <1>7, <1>8, <1>9, GoBegins

LEMMA CallClampOk ==
  ASSUME Machine, CallClamp
  PROVE  Begins
<1>1. /\ pc = "next" /\ todo # <<>> /\ Head(todo).op = "clamp" /\ Go("clamp", lhs, 0, 0)
  BY Zenon DEF CallClamp, Doing
<1>2. lhs \in Numbers /\ ZeroAbove(lhs) /\ Standing = Full(lhs) /\ Standing \in Nat
      /\ Standing < Power(Base, MaxBigits)
  BY <1>1, MachineIs DEF WellFormed
<1>3. Effect(Head(todo), Standing, rhs) = Standing
  BY <1>1, EffectIs
<1>4. Stands("clamp", lhs, 0, 0, Arg, rhs) = Standing
  BY <1>2 DEF Stands
<1>5. InLoop("clamp", lhs, 0, 0, Head(todo).op, Arg, rhs, Standing)
  BY <1>2 DEF InLoop
<1>6. 0 \in 0..(Power(Base, 2) - 1) /\ "clamp" \in Loops
  BY BaseSquare DEF Loops
<1> QED BY <1>1, <1>2, <1>3, <1>4, <1>5, <1>6, GoBegins

LEMMA CallAddU32Ok ==
  ASSUME Machine, Legal(Head(todo), Standing, rhs), CallAddU32
  PROVE  Begins
<1>1. /\ pc = "next" /\ todo # <<>> /\ Head(todo).op = "add_u32" /\ Arg = Head(todo).arg
  BY DEF CallAddU32, Doing, Arg
<1>2. lhs \in Numbers /\ WellFormed(lhs) /\ Standing = Value(lhs) /\ Standing = Full(lhs)
      /\ Standing \in Nat /\ lhs.n \in Nat /\ MaxBigits \in Nat
  BY <1>1, MachineIs
<1>3. Arg \in 0..(Base - 1) /\ Standing + Arg < Power(Base, MaxBigits)
  BY <1>1 DEF Legal
<1>4. Effect(Head(todo), Standing, rhs) = Standing + Arg
  BY <1>1, EffectIs
<1>5. Arg \in Nat /\ Arg < Base /\ Arg \in 0..(Power(Base, 2) - 1)
  <2>1. Base * Base >= Base
    BY BaseNat
  <2> QED BY <1>3, <2>1, BaseNat, BaseSquare
<1>6. CASE lhs.n = 0
  <2>1. Finish(SetU64(Arg))
    BY <1>6, Zenon DEF CallAddU32
  <2>2. Standing = 0
    BY <1>2, <1>6, UptoIs DEF Value
  <2>3. SetU64(Arg) \in Numbers /\ WellFormed(SetU64(Arg)) /\ Value(SetU64(Arg)) = Arg
    BY <1>5, SetU64Exact
  <2>4. Value(SetU64(Arg)) = Effect(Head(todo), Standing, rhs)
    BY <1>4, <1>5, <2>2, <2>3
  <2> QED BY <1>1, <2>1, <2>3, <2>4, FinishBegins
<1>7. CASE lhs.n # 0
  <2> DEFINE sum == lhs.bigits[0] + Arg
             y == [lhs EXCEPT !.bigits[0] = sum % Base]
             d == sum \div Base
  <2>1. Go("carry", y, 1, d)
    BY <1>7, Zenon DEF CallAddU32
  <2>2. 0 \in 0..(MaxBigits - 1) /\ MaxBigits \in 0..MaxBigits /\ MaxBigits >= 2
        /\ 0 \in Nat
    BY WidthAssumption
  <2>3. PICK g \in Nat : g = lhs.bigits[0] /\ g < Base
    BY <1>2, <2>2, DigitsAre
  <2>4. sum \in Nat /\ sum < 2 * Base /\ sum = g + Arg
    BY <1>5, <2>3, BaseNat
  <2> HIDE DEF sum
  <2>5. /\ sum % Base \in 0..(Base - 1) /\ d \in 0..1 /\ (sum % Base) + d * Base = sum
    BY <2>4, AddExact
  <2>6. PICK e \in Nat : e = sum % Base /\ e + d * Base = sum
    BY <2>5, BaseNat
  <2>7. /\ y \in Numbers /\ y.n = lhs.n
        /\ \A j \in 0..(MaxBigits - 1) : j # 0 => y.bigits[j] = lhs.bigits[j]
        /\ Full(y) = Full(lhs) + (e - g) * Power(Base, 0)
    BY <1>2, <2>2, <2>3, <2>5, <2>6, DigitSet
  <2> HIDE DEF y, d
  <2>8. Power(Base, 0) = 1 /\ Power(Base, 0 + 1) = Base * Power(Base, 0)
    BY Places
  <2>9. Power(Base, 1) = Base
    BY <2>8, BaseNat
  <2>10. Full(y) + d * Base = Standing + Arg
    <3>1. Full(y) = Standing + (e - g)
      BY <1>2, <2>7, <2>8
    <3>2. d * Base \in Int
      BY <2>5, BaseNat
    <3> QED BY <1>2, <1>5, <2>4, <2>6, <3>1, <3>2
  <2>11. Stands("carry", y, 1, d, Arg, rhs) = Standing + Arg
    BY <2>9, <2>10 DEF Stands, CarryStanding
  <2>12. ZerosFrom(y, 1)
    <3>1. \A j \in 0..(MaxBigits - 1) : j >= lhs.n => lhs.bigits[j] = 0
      BY <1>2, ZeroAboveIs DEF WellFormed
    <3> QED BY <2>7, <3>1 DEF ZerosFrom
  <2>13. Tall(y.n, Standing + Arg)
    <3>1. Standing >= Power(Base, lhs.n - 1) /\ Power(Base, lhs.n - 1) \in Nat
      BY <1>2, <1>7, ValueIs, Places DEF WellFormed
    <3> QED BY <1>2, <1>5, <2>7, <3>1 DEF Tall
  <2>14. 1 <= MaxBigits /\ ~(1 > y.n)
    BY <1>2, <1>7, <2>2, <2>7
  <2>15. InLoop("carry", y, 1, d, Head(todo).op, Arg, rhs, Standing + Arg)
    BY <2>5, <2>12, <2>13, <2>14 DEF InLoop
  <2>16. d \in 0..(Power(Base, 2) - 1) /\ "carry" \in Loops /\ 1 \in Nat
    BY <2>5, BitIsCarry DEF Loops
  <2>17. Standing + Arg \in Nat
    BY <1>2, <1>5
  <2> QED BY <1>1, <1>3, <1>4, <2>1, <2>7, <2>11, <2>15, <2>16, <2>17, GoBegins
<1> QED BY <1>6, <1>7

LEMMA CallAddOk ==
  ASSUME Machine, Legal(Head(todo), Standing, rhs), CallAdd
  PROVE  Begins
<1>1. /\ pc = "next" /\ todo # <<>> /\ Head(todo).op = "add" /\ Go("add", lhs, 0, 0)
  BY Zenon DEF CallAdd, Doing
<1>2. /\ lhs \in Numbers /\ WellFormed(lhs) /\ Standing = Value(lhs) /\ Standing = Full(lhs)
      /\ Standing \in Nat /\ lhs.n \in Nat /\ MaxBigits \in Nat /\ MaxBigits >= 2
      /\ rhs \in Numbers /\ WellFormed(rhs) /\ rhs.n \in Nat
  BY <1>1, MachineIs, WidthAssumption
<1>3. rhs.n < MaxBigits /\ Standing < Power(Base, MaxBigits - 1)
  BY <1>1 DEF Legal
<1>4. Effect(Head(todo), Standing, rhs) = Standing + Value(rhs)
  BY <1>1, EffectIs
<1>5. /\ Value(rhs) \in Nat /\ Value(rhs) < Power(Base, rhs.n)
      /\ rhs.n > 0 => Value(rhs) >= Power(Base, rhs.n - 1) /\ Power(Base, rhs.n - 1) \in Nat
      /\ lhs.n > 0 => Standing >= Power(Base, lhs.n - 1) /\ Power(Base, lhs.n - 1) \in Nat
  BY <1>2, ValueIs, Places DEF WellFormed
<1>6. Standing + Value(rhs) < Power(Base, MaxBigits)
  <2>1. /\ MaxBigits - 1 \in Nat /\ rhs.n <= MaxBigits - 1 /\ (MaxBigits - 1) + 1 = MaxBigits
    BY <1>2, <1>3
  <2>2. PICK p \in Nat : p = Power(Base, MaxBigits - 1) /\ Power(Base, MaxBigits) = Base * p
    BY <2>1, Places
  <2>3. Power(Base, rhs.n) <= p /\ Power(Base, rhs.n) \in Nat
    BY <1>2, <2>1, <2>2, PlacesGrow, Places
  <2>4. Base * p >= p + p
    BY BaseNat
  <2> QED BY <1>2, <1>3, <1>5, <2>2, <2>3, <2>4, BaseNat
<1>7. Stands("add", lhs, 0, 0, Arg, rhs) = Standing + Value(rhs)
  BY <1>2, AddEnds DEF Stands
<1>8. Tall(lhs.n, Standing + Value(rhs)) /\ Tall(rhs.n, Standing + Value(rhs))
  BY <1>2, <1>5 DEF Tall
<1>9. ZerosFrom(lhs, 0)
  BY <1>2, ZeroAboveIs DEF WellFormed
<1>10. InLoop("add", lhs, 0, 0, Head(todo).op, Arg, rhs, Standing + Value(rhs))
  BY <1>1, <1>2, <1>3, <1>8, <1>9 DEF InLoop
<1>11. 0 \in 0..(Power(Base, 2) - 1) /\ "add" \in Loops /\ Standing + Value(rhs) \in Nat
  BY <1>2, <1>5, BaseSquare DEF Loops
<1> QED BY <1>1, <1>2, <1>4, <1>6, <1>7, <1>10, <1>11, GoBegins

LEMMA CallSubtractOk ==
  ASSUME Machine, Legal(Head(todo), Standing, rhs), CallSubtract
  PROVE  Begins
<1> DEFINE w == Standing - Value(rhs) * Power(2, Arg)
<1>1. /\ pc = "next" /\ todo # <<>> /\ Head(todo).op \in Subtracts /\ Go("subtract", lhs, 0, 0)
      /\ Arg = Head(todo).arg
  BY DEF CallSubtract, Doing, Subtracts, Arg
<1>2. /\ lhs \in Numbers /\ WellFormed(lhs) /\ Standing = Value(lhs) /\ Standing = Full(lhs)
      /\ Standing \in Nat /\ rhs \in Numbers /\ WellFormed(rhs) /\ ZeroAbove(rhs)
      /\ Standing < Power(Base, MaxBigits) /\ Power(Base, MaxBigits) \in Nat /\ lhs.n \in Nat
  BY <1>1, MachineIs DEF WellFormed
<1>3. /\ Arg \in Nat /\ ShiftedLength(rhs, Arg) <= MaxBigits
      /\ Value(rhs) * Power(2, Arg) <= Standing
  BY <1>1 DEF Legal
<1>4. Effect(Head(todo), Standing, rhs) = w
  BY <1>1, EffectIs
<1>5. Value(rhs) * Power(2, Arg) \in Nat
  <2>1. Value(rhs) \in Nat
    BY <1>2, ValueIs
  <2>2. \A k \in Nat : Power(2, k) \in Nat
    BY PowerPositive
  <2> QED BY <1>3, <2>1, <2>2
<1>6. w \in Nat /\ w <= Standing
  BY <1>2, <1>3, <1>5
<1>7. Stands("subtract", lhs, 0, 0, Arg, rhs) = w
  BY <1>2, <1>3, SubtractEnds DEF Stands
<1>8. w < Power(Base, lhs.n)
  <2>1. Value(lhs) < Power(Base, lhs.n) /\ Power(Base, lhs.n) \in Nat
    BY <1>2, ValueIs, Places
  <2> QED BY <1>2, <1>6, <2>1
<1> HIDE DEF w
<1>9. w < Power(Base, MaxBigits)
  BY <1>2, <1>6
<1>10. 0 <= ShiftedLength(rhs, Arg)
  BY <1>2, <1>3, ShiftedLengthIs
<1>11. InLoop("subtract", lhs, 0, 0, Head(todo).op, Arg, rhs, w)
  BY <1>1, <1>3, <1>8, <1>10 DEF InLoop
<1>12. 0 \in 0..(Power(Base, 2) - 1) /\ "subtract" \in Loops
  BY BaseSquare DEF Loops
<1> QED BY <1>1, <1>2, <1>4, <1>6, <1>7, <1>9, <1>11, <1>12, GoBegins

LEMMA PrimitivesBegin ==
  ASSUME Machine, Legal(Head(todo), Standing, rhs), Beginning
  PROVE  Begins
BY SetOk, CallMultiplyOk, CallShiftLeftOk, CallClampOk, CallAddU32Ok, CallAddOk,
   CallSubtractOk, Zenon DEF Beginning

-----------------------------------------------------------------------------
(***************************************************************************)
(* Lengths, comparison and division.                                       *)
(***************************************************************************)

(* Every number has a length in every base.                                *)
LEMMA LengthExists ==
  ASSUME NEW b \in Nat, b >= 2
  PROVE  \A m \in Nat : \A v \in Nat : v < Power(b, m) => \E k \in 0..m : IsLength(k, v, b)
<1> DEFINE S == {m \in Nat : \A v \in Nat :
                               v < Power(b, m) => \E k \in 0..m : IsLength(k, v, b)}
<1>1. 0 \in S
  <2>1. \A v \in Nat : v < Power(b, 0) => IsLength(0, v, b)
    BY DEF IsLength
  <2> QED BY <2>1
<1>2. ASSUME NEW m \in Nat, m \in S PROVE m + 1 \in S
  <2>1. SUFFICES ASSUME NEW v \in Nat, v < Power(b, m + 1)
                 PROVE  \E k \in 0..(m + 1) : IsLength(k, v, b)
    OBVIOUS
  <2>2. CASE v < Power(b, m)
    <3>1. PICK k \in 0..m : IsLength(k, v, b)
      BY <1>2, <2>2
    <3>2. k \in 0..(m + 1)
      OBVIOUS
    <3> QED BY <3>1, <3>2
  <2>3. CASE ~(v < Power(b, m))
    <3>1. Power(b, m) \in Nat /\ (m + 1) - 1 = m /\ m + 1 \in 0..(m + 1)
      BY PowerPositive
    <3>2. IsLength(m + 1, v, b)
      BY <2>1, <2>3, <3>1 DEF IsLength
    <3> QED BY <3>1, <3>2
  <2> QED BY <2>2, <2>3
<1>3. Nat \subseteq S
  <2> HIDE DEF S
  <2> QED BY <1>1, <1>2, Induction, Zenon
<1> QED BY <1>3

(* The digits of a number, from the lowest, are those of its remainders.   *)
LEMMA OfValueUpto ==
  ASSUME NEW v \in Nat, NEW x \in Numbers,
         \A j \in 0..(MaxBigits - 1) : x.bigits[j] = (v \div Power(Base, j)) % Base
  PROVE  \A j \in 0..MaxBigits : Upto(x, j) = v % Power(Base, j)
<1> DEFINE S == {j \in Nat : Upto(x, j) = v % Power(Base, j)}
<1>0. MaxBigits \in Nat
  BY WidthAssumption
<1>1. 0 \in S
  <2>1. Power(Base, 0) = 1 /\ v % 1 = 0 /\ Upto(x, 0) = 0
    BY Places, UptoIs
  <2> QED BY <2>1
<1>2. ASSUME NEW j \in 0..(MaxBigits - 1), j \in S PROVE j + 1 \in S
  <2>1. j \in Nat /\ j + 1 \in Nat
    OBVIOUS
  <2>2. PICK p \in Nat, b \in Nat : /\ p = Power(Base, j) /\ b = Base /\ p >= 1 /\ b >= 1
                                    /\ Power(Base, j + 1) = b * p
    BY <2>1, Places, BaseNat
  <2>3. /\ v \div p \in Int /\ v % p \in Int /\ v % p >= 0 /\ v % p < p
        /\ v = (v \div p) * p + (v % p)
    <3>1. v \in Int /\ p \in Nat /\ p >= 1
      BY <2>2
    <3> HIDE DEF S
    <3> QED BY <3>1, Division, Zenon
  <2>4. PICK q \in Int, r \in Int : q = v \div p /\ r = v % p /\ r >= 0 /\ r < p /\ v = q * p + r
    BY <2>3
  <2>5. /\ q \div b \in Int /\ q % b \in Int /\ q % b >= 0 /\ q % b < b
        /\ q = (q \div b) * b + (q % b)
    <3> HIDE DEF S
    <3> QED BY <2>2, Division
  <2>6. PICK s \in Int, d \in Int : s = q \div b /\ d = q % b /\ d >= 0 /\ d < b /\ q = s * b + d
    BY <2>5
  <2>7. v = s * (b * p) + (d * p + r)
    <3>1. q * p = s * (b * p) + d * p
      <4>1. (s * b + d) * p = s * (b * p) + d * p
        OBVIOUS
      <4> QED BY <2>6, <4>1
    <3>2. s * (b * p) \in Int /\ d * p \in Int /\ q * p \in Int
      OBVIOUS
    <3> QED BY <2>4, <3>1, <3>2
  <2>8. d * p + r >= 0 /\ d * p + r < b * p /\ d * p + r \in Int /\ b * p \in Nat /\ b * p >= 1
    <3>1. d * p >= 0 /\ d * p \in Int
      BY <2>6
    <3>2. d * p <= (b - 1) * p
      BY <2>6
    <3>3. (b - 1) * p = b * p - p /\ b * p \in Int /\ b * p >= 1 /\ b * p \in Nat
      BY <2>2
    <3>4. d * p + r < b * p
      BY <2>4, <3>1, <3>2, <3>3
    <3> QED BY <2>4, <3>1, <3>3, <3>4
  <2>9. v % (b * p) = d * p + r
    <3> DEFINE m == b * p
               t == d * p + r
    <3>1. m \in Nat /\ m >= 1 /\ t \in Int /\ 0 <= t /\ t < m /\ v = s * m + t /\ v \in Int
      BY <2>7, <2>8
    <3> HIDE DEF m, t, S
    <3>2. v % m = t
      BY <3>1, DivisionUnique
    <3> QED BY <3>2 DEF m, t
  <2>10. x.bigits[j] = d
    BY <2>2, <2>4, <2>6
  <2>11. Upto(x, j) = r
    BY <1>2, <2>2, <2>4
  <2>12. Upto(x, j + 1) = r + d * p
    BY <2>2, <2>10, <2>11, UptoIs
  <2>13. Upto(x, j + 1) = v % Power(Base, j + 1)
    BY <2>2, <2>4, <2>8, <2>9, <2>12
  <2> QED BY <2>1, <2>13
<1>3. 0..MaxBigits \subseteq S
  <2> HIDE DEF S
  <2> QED BY <1>0, <1>1, <1>2, InductionUpto
<1> QED BY <1>3

(* OfValue is the well-formed number of a value.                           *)
LEMMA OfValueExact ==
  ASSUME NEW v \in Nat, v < Power(Base, MaxBigits)
  PROVE  OfValue(v) \in Numbers /\ WellFormed(OfValue(v)) /\ Value(OfValue(v)) = v
<1> DEFINE x == OfValue(v)
<1>0. MaxBigits \in Nat /\ MaxBigits \in 0..MaxBigits /\ Base \in Nat /\ Base >= 2
  BY WidthAssumption, BaseNat
<1>1. \E k \in 0..MaxBigits : IsLength(k, v, Base)
  BY <1>0, LengthExists
<1>2. x.n \in 0..MaxBigits /\ IsLength(x.n, v, Base)
  BY <1>1 DEF OfValue
<1>3. \A j \in 0..(MaxBigits - 1) :
         /\ (v \div Power(Base, j)) % Base \in 0..(Base - 1)
         /\ v < Power(Base, j) => (v \div Power(Base, j)) % Base = 0
  <2>1. SUFFICES ASSUME NEW j \in 0..(MaxBigits - 1)
                 PROVE  /\ (v \div Power(Base, j)) % Base \in 0..(Base - 1)
                        /\ v < Power(Base, j) => (v \div Power(Base, j)) % Base = 0
    OBVIOUS
  <2>2. PICK p \in Nat, b \in Nat : p = Power(Base, j) /\ p >= 1 /\ b = Base /\ b >= 2
    BY <1>0, Places
  <2>3. v \div p \in Int /\ (v < p => v \div p = 0)
    BY <2>2, Division
  <2>4. (v \div p) % b \in 0..(b - 1) /\ 0 % b = 0
    BY <2>2, <2>3, Division
  <2> QED BY <2>2, <2>3, <2>4
<1>4. x.bigits = [j \in Indices |-> (v \div Power(Base, j)) % Base]
  BY DEF OfValue
<1>5. x = [bigits |-> x.bigits, n |-> x.n]
  BY DEF OfValue
<1> HIDE DEF x
<1>6. x \in Numbers
  <2>1. x.bigits \in [Indices -> Bigits]
    BY <1>3, <1>4 DEF Indices, Bigits
  <2> QED BY <1>2, <1>5, <2>1 DEF Numbers
<1>7. \A j \in 0..(MaxBigits - 1) : x.bigits[j] = (v \div Power(Base, j)) % Base
  BY <1>4 DEF Indices
<1>8. Full(x) = v
  <2>1. Full(x) = v % Power(Base, MaxBigits)
    BY <1>0, <1>6, <1>7, OfValueUpto DEF Full
  <2>2. Power(Base, MaxBigits) \in Nat /\ Power(Base, MaxBigits) >= 1
    BY <1>0, Places
  <2> QED BY <2>1, <2>2, Division
<1>9. ZeroAbove(x)
  <2>1. \A j \in 0..(MaxBigits - 1) : j >= x.n => v < Power(Base, j)
    <3>1. SUFFICES ASSUME NEW j \in 0..(MaxBigits - 1), j >= x.n PROVE v < Power(Base, j)
      OBVIOUS
    <3>2. x.n \in Nat /\ j \in Nat
      BY <1>0, <1>2
    <3>3. v < Power(Base, x.n) /\ Power(Base, x.n) <= Power(Base, j)
      BY <1>2, <3>1, <3>2, PlacesGrow DEF IsLength
    <3>4. Power(Base, x.n) \in Nat /\ Power(Base, j) \in Nat
      BY <3>2, Places
    <3> QED BY <3>3, <3>4
  <2>2. \A j \in 0..(MaxBigits - 1) : j >= x.n => x.bigits[j] = 0
    BY <1>3, <1>7, <2>1
  <2> QED BY <1>2, <2>2, ZeroAboveIs, Zenon
<1>10. x.n > 0 => Full(x) >= Power(Base, x.n - 1)
  BY <1>2, <1>8 DEF IsLength
<1>11. WellFormed(x)
  BY <1>6, <1>9, <1>10, TallIsClamped
<1> QED BY <1>6, <1>8, <1>9, <1>11, ValueIs DEF x

(* Digits that agree from the j-th on make no difference.                  *)
LEMMA UptoAbove ==
  ASSUME NEW x \in Numbers, NEW y \in Numbers, NEW j \in 0..MaxBigits, NEW n \in 0..MaxBigits,
         j <= n, \A k \in 0..(n - 1) : k >= j => x.bigits[k] = y.bigits[k]
  PROVE  Upto(x, n) - Upto(y, n) = Upto(x, j) - Upto(y, j)
<1> DEFINE S == {k \in Nat : k >= j => Upto(x, k) - Upto(y, k) = Upto(x, j) - Upto(y, j)}
<1>0. MaxBigits \in Nat /\ j \in Nat /\ n \in Nat /\ n <= MaxBigits
  BY WidthAssumption
<1>1. 0 \in S
  BY <1>0
<1>2. ASSUME NEW k \in 0..(n - 1), k \in S PROVE k + 1 \in S
  <2>0. k \in Nat /\ k + 1 \in Nat /\ k \in 0..(MaxBigits - 1) /\ k \in 0..MaxBigits
    BY <1>0
  <2>1. CASE k >= j
    <3>1. x.bigits[k] = y.bigits[k]
      BY <2>1
    <3>2. /\ Upto(x, k + 1) = Upto(x, k) + x.bigits[k] * Power(Base, k)
          /\ Upto(y, k + 1) = Upto(y, k) + y.bigits[k] * Power(Base, k)
          /\ Upto(x, k) \in Int /\ Upto(y, k) \in Int
      BY <2>0, UptoIs
    <3>3. x.bigits[k] * Power(Base, k) \in Int
      BY <2>0, DigitsAre, Places
    <3>4. Upto(x, k + 1) - Upto(y, k + 1) = Upto(x, k) - Upto(y, k)
      BY <3>1, <3>2, <3>3
    <3> QED BY <1>2, <2>0, <2>1, <3>4
  <2>2. CASE k + 1 = j
    BY <2>0, <2>2
  <2>3. CASE k + 1 < j
    BY <2>0, <2>3
  <2> QED BY <1>0, <2>0, <2>1, <2>2, <2>3
<1>3. 0..n \subseteq S
  <2> HIDE DEF S
  <2> QED BY <1>0, <1>1, <1>2, InductionUpto
<1>4. n \in S
  BY <1>0, <1>3
<1> QED BY <1>0, <1>4

(* The highest of the places of a kind.                                    *)
LEMMA HighestExists ==
  ASSUME NEW n \in Nat, NEW D, \E j \in 0..(n - 1) : j \in D
  PROVE  \E j \in 0..(n - 1) : j \in D /\ \A k \in (j + 1)..(n - 1) : k \notin D
<1> DEFINE S == {m \in Nat : (\E j \in 0..(m - 1) : j \in D) =>
                   \E j \in 0..(m - 1) : j \in D /\ \A k \in (j + 1)..(m - 1) : k \notin D}
<1>1. 0 \in S
  OBVIOUS
<1>2. ASSUME NEW m \in Nat, m \in S PROVE m + 1 \in S
  <2>1. SUFFICES ASSUME \E j \in 0..m : j \in D
                 PROVE  \E j \in 0..m : j \in D /\ \A k \in (j + 1)..m : k \notin D
    <3>1. (m + 1) - 1 = m /\ m + 1 \in Nat
      OBVIOUS
    <3> QED BY <2>1, <3>1
  <2>2. CASE m \in D
    <3>1. m \in 0..m /\ \A k \in (m + 1)..m : k \notin D
      OBVIOUS
    <3> QED BY <2>2, <3>1
  <2>3. CASE m \notin D
    <3>1. \E j \in 0..(m - 1) : j \in D
      BY <2>1, <2>3
    <3>2. PICK j \in 0..(m - 1) : j \in D /\ \A k \in (j + 1)..(m - 1) : k \notin D
      BY <1>2, <3>1
    <3>3. j \in 0..m /\ \A k \in (j + 1)..m : k \notin D
      BY <2>3, <3>2
    <3> QED BY <3>2, <3>3
  <2> QED BY <2>2, <2>3
<1>3. Nat \subseteq S
  <2> HIDE DEF S
  <2> QED BY <1>1, <1>2, Induction, Zenon
<1> QED BY <1>3

(* The highest digit that differs decides.                                 *)
LEMMA TopDecides ==
  ASSUME NEW x \in Numbers, NEW y \in Numbers, NEW n \in 0..MaxBigits, NEW j \in 0..(n - 1),
         x.bigits[j] < y.bigits[j],
         \A k \in (j + 1)..(n - 1) : x.bigits[k] = y.bigits[k]
  PROVE  Upto(x, n) < Upto(y, n)
<1>0. /\ MaxBigits \in Nat /\ n \in Nat /\ j \in Nat /\ j \in 0..(MaxBigits - 1)
      /\ j + 1 \in 0..MaxBigits /\ j + 1 <= n /\ j \in 0..MaxBigits
  BY WidthAssumption
<1>1. \A k \in 0..(n - 1) : k >= j + 1 => x.bigits[k] = y.bigits[k]
  BY <1>0
<1>2. Upto(x, n) - Upto(y, n) = Upto(x, j + 1) - Upto(y, j + 1)
  BY <1>0, <1>1, UptoAbove
<1>3. PICK p \in Nat, d \in Nat, e \in Nat : /\ p = Power(Base, j) /\ d = x.bigits[j]
                                             /\ e = y.bigits[j] /\ d < e
  BY <1>0, DigitsAre, Places
<1>4. /\ Upto(x, j + 1) = Upto(x, j) + d * p /\ Upto(y, j + 1) = Upto(y, j) + e * p
      /\ Upto(x, j) \in Nat /\ Upto(x, j) < p /\ Upto(y, j) \in Nat
      /\ Upto(x, n) \in Nat /\ Upto(y, n) \in Nat
  BY <1>0, <1>3, UptoIs, UptoBound
<1>5. d * p + p <= e * p /\ d * p \in Int /\ e * p \in Int
  <2>1. (d + 1) * p <= e * p
    BY <1>3
  <2>2. (d + 1) * p = d * p + p
    OBVIOUS
  <2> QED BY <2>1, <2>2
<1> QED BY <1>2, <1>4, <1>5

LEMMA CompareExact ==
  ASSUME NEW x \in Numbers, NEW y \in Numbers, Clamped(x), Clamped(y)
  PROVE  Compare(x, y) = SignOf(Value(x) - Value(y))
<1> DEFINE Differs(j) == x.bigits[j] # y.bigits[j]
<1>0. x.n \in Nat /\ y.n \in Nat /\ Value(x) \in Nat /\ Value(y) \in Nat /\ x.n \in 0..MaxBigits
  BY DigitsAre, ValueIs
<1>1. CASE x.n < y.n
  <2>1. Value(x) < Value(y)
    BY <1>1, LongerIsGreater
  <2>2. Compare(x, y) = -1
    BY <1>1 DEF Compare
  <2> QED BY <1>0, <2>1, <2>2 DEF SignOf
<1>2. CASE x.n > y.n
  <2>1. Value(y) < Value(x)
    BY <1>0, <1>2, LongerIsGreater
  <2>2. Compare(x, y) = 1
    BY <1>0, <1>2 DEF Compare
  <2> QED BY <1>0, <2>1, <2>2 DEF SignOf
<1>3. CASE x.n = y.n /\ ~\E j \in 0..(x.n - 1) : Differs(j)
  <2>1. Value(x) = Value(y)
    BY <1>0, <1>3, UptoSame DEF Value
  <2>2. Compare(x, y) = 0
    BY <1>0, <1>3 DEF Compare
  <2> QED BY <1>0, <2>1, <2>2 DEF SignOf
<1>4. CASE x.n = y.n /\ \E j \in 0..(x.n - 1) : Differs(j)
  <2> DEFINE D == {j \in 0..(x.n - 1) : Differs(j)}
             h == Highest(x.n, Differs)
  <2>1. \E j \in 0..(x.n - 1) : j \in D /\ \A k \in (j + 1)..(x.n - 1) : k \notin D
    <3>1. \E j \in 0..(x.n - 1) : j \in D
      BY <1>4
    <3> HIDE DEF D
    <3> QED BY <1>0, <3>1, HighestExists
  <2>2. \E j \in 0..(x.n - 1) : Differs(j) /\ \A k \in (j + 1)..(x.n - 1) : ~Differs(k)
    <3>1. PICK j \in 0..(x.n - 1) : j \in D /\ \A k \in (j + 1)..(x.n - 1) : k \notin D
      BY <2>1
    <3>2. \A k \in (j + 1)..(x.n - 1) : k \in 0..(x.n - 1)
      BY <1>0
    <3> QED BY <3>1, <3>2
  <2>3. h \in 0..(x.n - 1) /\ Differs(h) /\ \A k \in (h + 1)..(x.n - 1) : ~Differs(k)
    BY <2>2 DEF Highest
  <2>4. Compare(x, y) = IF x.bigits[h] < y.bigits[h] THEN -1 ELSE 1
    <3>1. ~(x.n < y.n) /\ ~(x.n > y.n) /\ ~~\E j \in 0..(x.n - 1) : x.bigits[j] # y.bigits[j]
      BY <1>0, <1>4
    <3> QED BY <3>1, Zenon DEF Compare
  <2> HIDE DEF h
  <2>5. h \in 0..(MaxBigits - 1)
    BY <1>0, <2>3, WidthAssumption
  <2>6. x.bigits[h] \in Nat /\ y.bigits[h] \in Nat
    BY <2>5, DigitsAre
  <2>7. CASE x.bigits[h] < y.bigits[h]
    <3>1. Upto(x, x.n) < Upto(y, x.n)
      BY <1>0, <2>3, <2>7, TopDecides
    <3>2. Value(x) < Value(y)
      BY <1>4, <3>1 DEF Value
    <3> QED BY <1>0, <2>4, <2>7, <3>2 DEF SignOf
  <2>8. CASE y.bigits[h] < x.bigits[h]
    <3>1. Upto(y, x.n) < Upto(x, x.n)
      BY <1>0, <2>3, <2>8, TopDecides
    <3>2. Value(y) < Value(x)
      BY <1>4, <3>1 DEF Value
    <3>3. ~(x.bigits[h] < y.bigits[h])
      BY <2>6, <2>8
    <3> QED BY <1>0, <2>4, <3>2, <3>3 DEF SignOf
  <2> QED BY <2>3, <2>6, <2>7, <2>8
<1> QED BY <1>0, <1>1, <1>2, <1>3, <1>4

LEMMA PowersOfTwo ==
  /\ 2 \in Nat /\ \A k \in Nat : Power(2, k) \in Nat /\ Power(2, k) >= 1
  /\ \A j, k \in Nat : /\ Power(2, j + k) = Power(2, j) * Power(2, k)
                       /\ j <= k => Power(2, j) <= Power(2, k)
                       /\ Power(2, j) < Power(2, k) => j < k
<1>1. PICK t \in Nat : t = 2 /\ t >= 2 /\ t >= 1
  OBVIOUS
<1>2. \A k \in Nat : Power(t, k) \in Nat /\ Power(t, k) >= 1
  BY <1>1, PowerPositive
<1>3. \A j, k \in Nat : Power(t, j + k) = Power(t, j) * Power(t, k)
  BY <1>1, PowerAdd
<1>4. \A j, k \in Nat : /\ j <= k => Power(t, j) <= Power(t, k)
                        /\ Power(t, j) < Power(t, k) => j < k
  BY <1>1, PowerMonotone, PowerOrder
<1> QED BY <1>1, <1>2, <1>3, <1>4

LEMMA CancelPower ==
  ASSUME NEW a \in Nat, NEW b \in Nat, NEW p \in Nat, p >= 1
  PROVE  (a * p < b * p => a < b) /\ (a * p >= b * p => a >= b)
         /\ (a < b => a * p < b * p) /\ (a >= b => a * p >= b * p)
OBVIOUS

(* The leading zeros of a number that is not zero are what its bits leave. *)
LEMMA BitLength ==
  ASSUME NEW x \in Numbers, Clamped(x), x.n > 0
  PROVE  \E l \in Nat : /\ l >= 1 /\ LeadingZeros(x) = BigitBits * MaxBigits - l
                        /\ Power(2, l - 1) <= Value(x) /\ Value(x) < Power(2, l)
<1>0. /\ x.n \in Nat /\ x.n \in 0..MaxBigits /\ x.n - 1 \in 0..(MaxBigits - 1) /\ x.n - 1 \in Nat
      /\ BigitBits \in Nat /\ BigitBits >= 1 /\ MaxBigits \in Nat /\ BigitBits - 1 \in Nat
      /\ x.n - 1 \in 0..MaxBigits /\ (x.n - 1) + 1 = x.n
  BY DigitsAre, WidthAssumption
<1>1. PICK top \in Nat : top = x.bigits[x.n - 1] /\ top >= 1 /\ top < Power(2, BigitBits)
  BY <1>0, DigitsAre DEF Clamped, Base
<1> DEFINE Z(z) == IsLength(BigitBits, top * Power(2, z), 2)
<1>2. \A z \in 0..(BigitBits - 1) :
         LET k == BigitBits - z
         IN  /\ k \in Nat /\ k >= 1 /\ k - 1 \in Nat
             /\ Power(2, BigitBits) = Power(2, k) * Power(2, z)
             /\ Power(2, BigitBits - 1) = Power(2, k - 1) * Power(2, z)
             /\ Power(2, k) \in Nat /\ Power(2, k - 1) \in Nat
             /\ Power(2, z) \in Nat /\ Power(2, z) >= 1
  <2>1. SUFFICES ASSUME NEW z \in 0..(BigitBits - 1)
                 PROVE  LET k == BigitBits - z
                        IN  /\ k \in Nat /\ k >= 1 /\ k - 1 \in Nat
                            /\ Power(2, BigitBits) = Power(2, k) * Power(2, z)
                            /\ Power(2, BigitBits - 1) = Power(2, k - 1) * Power(2, z)
                            /\ Power(2, k) \in Nat /\ Power(2, k - 1) \in Nat
                            /\ Power(2, z) \in Nat /\ Power(2, z) >= 1
    OBVIOUS
  <2>2. PICK k \in Nat : k = BigitBits - z /\ k >= 1 /\ k - 1 \in Nat /\ z \in Nat
                         /\ BigitBits = k + z /\ BigitBits - 1 = (k - 1) + z
    BY <1>0
  <2> QED BY <2>2, PowersOfTwo
<1>3. \E z \in 0..(BigitBits - 1) : Z(z)
  <2>1. PICK k \in 0..BigitBits : IsLength(k, top, 2)
    <3>1. PICK t \in Nat : t = 2 /\ t >= 2
      OBVIOUS
    <3>2. \A m \in Nat : \A v \in Nat : v < Power(t, m) => \E k \in 0..m : IsLength(k, v, t)
      BY <3>1, LengthExists
    <3> QED BY <1>0, <1>1, <3>1, <3>2
  <2>2. k >= 1
    <3>1. Power(2, 0) = 1
      BY PowersOfTwo, PowerIs
    <3> QED BY <1>1, <2>1, <3>1 DEF IsLength
  <2>3. PICK z \in 0..(BigitBits - 1) : z = BigitBits - k /\ k = BigitBits - z
    BY <1>0, <2>2
  <2>4. top < Power(2, k) /\ top >= Power(2, k - 1)
    BY <2>1, <2>2 DEF IsLength
  <2>5. top * Power(2, z) < Power(2, BigitBits) /\ top * Power(2, z) >= Power(2, BigitBits - 1)
    BY <1>2, <2>3, <2>4, CancelPower
  <2> QED BY <2>5 DEF IsLength
<1> DEFINE c == CHOOSE z \in 0..(BigitBits - 1) : Z(z)
<1>4. c \in 0..(BigitBits - 1) /\ Z(c)
  BY <1>3
<1>5. LeadingZeros(x) = BigitBits * (MaxBigits - x.n) + c
  BY <1>1 DEF LeadingZeros
<1> HIDE DEF c
<1>6. PICK k \in Nat : k = BigitBits - c /\ k >= 1 /\ k - 1 \in Nat /\ c \in Int
  BY <1>0, <1>4
<1>7. top < Power(2, k) /\ top >= Power(2, k - 1) /\ Power(2, k) \in Nat /\ Power(2, k - 1) \in Nat
  <2>1. /\ Power(2, BigitBits) = Power(2, k) * Power(2, c)
        /\ Power(2, BigitBits - 1) = Power(2, k - 1) * Power(2, c)
        /\ Power(2, k) \in Nat /\ Power(2, k - 1) \in Nat
        /\ Power(2, c) \in Nat /\ Power(2, c) >= 1
    BY <1>2, <1>4, <1>6
  <2>2. top * Power(2, c) < Power(2, BigitBits) /\ top * Power(2, c) >= Power(2, BigitBits - 1)
    BY <1>0, <1>4 DEF IsLength
  <2> QED BY <2>1, <2>2, CancelPower
<1>8. PICK m \in Nat : m = BigitBits * (x.n - 1)
  BY <1>0
<1>9. PICK p \in Nat : p = Power(Base, x.n - 1) /\ p = Power(2, m) /\ p >= 1
  <2>1. PICK t \in Nat : t = 2 /\ t >= 1
    OBVIOUS
  <2>2. Power(Power(t, BigitBits), x.n - 1) = Power(t, BigitBits * (x.n - 1))
    <3>1. \A h \in Nat : Power(Power(t, BigitBits), h) = Power(t, BigitBits * h)
      BY <1>0, <2>1, PowerPower
    <3> QED BY <1>0, <3>1
  <2> QED BY <1>0, <1>8, <2>1, <2>2, Places DEF Base
<1>10. /\ Value(x) = Upto(x, x.n - 1) + top * p
       /\ Upto(x, x.n - 1) \in Nat /\ Upto(x, x.n - 1) < p
  <2>1. Upto(x, (x.n - 1) + 1) = Upto(x, x.n - 1) + x.bigits[x.n - 1] * Power(Base, x.n - 1)
    BY <1>0, UptoIs
  <2> QED BY <1>0, <1>1, <1>9, <2>1, UptoBound DEF Value
<1>11. PICK l \in Nat : l = k + m /\ l - 1 = (k - 1) + m /\ l >= 1
  BY <1>6
<1>12. Power(2, l) = Power(2, k) * p /\ Power(2, l - 1) = Power(2, k - 1) * p
  BY <1>6, <1>9, <1>11, PowersOfTwo
<1>13. Value(x) < Power(2, l)
  <2>1. (top + 1) * p = top * p + p /\ top * p \in Nat
    OBVIOUS
  <2>2. Power(2, k) * p >= (top + 1) * p
    <3>1. top + 1 \in Nat /\ Power(2, k) >= top + 1
      BY <1>7
    <3> QED BY <1>7, <1>9, <3>1, CancelPower
  <2>3. Power(2, k) * p \in Nat
    BY <1>7
  <2> QED BY <1>10, <1>12, <2>1, <2>2, <2>3
<1>14. Power(2, l - 1) <= Value(x)
  <2>1. top * p >= Power(2, k - 1) * p
    BY <1>7, <1>9, CancelPower
  <2>2. top * p \in Nat /\ Power(2, k - 1) * p \in Nat
    BY <1>7
  <2> QED BY <1>10, <1>12, <2>1, <2>2
<1>15. LeadingZeros(x) = BigitBits * MaxBigits - l
  <2>1. BigitBits * (MaxBigits - x.n) = BigitBits * MaxBigits - BigitBits * x.n
    BY <1>0
  <2>2. m = BigitBits * x.n - BigitBits
    BY <1>0, <1>8
  <2>3. BigitBits * MaxBigits \in Int /\ BigitBits * x.n \in Int
    BY <1>0
  <2> QED BY <1>0, <1>5, <1>6, <1>11, <2>1, <2>2, <2>3
<1> QED BY <1>11, <1>13, <1>14, <1>15

(* A number that has a digit to spare, once shifted, can be shifted.       *)
LEMMA RoomToShift ==
  ASSUME NEW x \in Numbers, Clamped(x), NEW a \in Nat,
         Value(x) * Power(2, a) < Power(Base, MaxBigits - 1)
  PROVE  Shiftable(x, a) /\ (x.n > 0 => ShiftedLength(x, a) <= MaxBigits)
<1>0. /\ x.n \in Nat /\ x.n <= MaxBigits /\ MaxBigits \in Nat /\ MaxBigits - 1 \in Nat
      /\ BigitBits \in Nat /\ BigitBits >= 1
  BY DigitsAre, WidthAssumption
<1>1. PICK q \in Nat, r \in Nat : q = a \div BigitBits /\ r = a % BigitBits
                                  /\ a = q * BigitBits + r
  <2>1. /\ a \div BigitBits \in Int /\ a % BigitBits \in Int /\ a % BigitBits >= 0
        /\ a = (a \div BigitBits) * BigitBits + (a % BigitBits) /\ a \div BigitBits >= 0
    BY <1>0, Division
  <2> QED BY <2>1
<1>2. ASSUME x.n > 0 PROVE x.n + q < MaxBigits
  <2>1. PICK v \in Nat, p \in Nat : v = Value(x) /\ p = Power(Base, x.n - 1) /\ v >= p /\ p >= 1
    <3>1. x.n - 1 \in Nat
      BY <1>0, <1>2
    <3>2. Value(x) \in Nat /\ Value(x) >= Power(Base, x.n - 1)
      BY <1>2, ValueIs
    <3>3. Power(Base, x.n - 1) \in Nat /\ Power(Base, x.n - 1) >= 1
      BY <3>1, Places
    <3> QED BY <3>2, <3>3
  <2>2. PICK u \in Nat : u = Power(Base, q) /\ u >= 1
    BY Places
  <2>3. Power(2, a) \in Nat /\ u <= Power(2, a)
    <3>1. PICK t \in Nat : t = 2 /\ t >= 1
      OBVIOUS
    <3>2. Power(Power(t, BigitBits), q) = Power(t, BigitBits * q)
      BY <1>0, <3>1, PowerPower
    <3>3. u = Power(2, BigitBits * q)
      BY <2>2, <3>1, <3>2 DEF Base
    <3>4. BigitBits * q \in Nat /\ BigitBits * q <= a
      BY <1>0, <1>1
    <3> QED BY <3>3, <3>4, PowersOfTwo
  <2>4. p * u = Power(Base, (x.n - 1) + q)
    <3>1. x.n - 1 \in Nat
      BY <1>0, <1>2
    <3>2. \A k \in Nat : Power(Base, (x.n - 1) + k) = Power(Base, x.n - 1) * Power(Base, k)
      <4>1. Base \in Nat /\ Base >= 1
        BY BaseNat
      <4> QED BY <3>1, <4>1, PowerAdd
    <3> QED BY <2>1, <2>2, <3>2
  <2>5. p * u <= v * Power(2, a) /\ p * u \in Nat /\ v * Power(2, a) \in Nat
    <3>1. p * u <= v * u
      BY <2>1, <2>2
    <3>2. v * u <= v * Power(2, a)
      BY <2>3
    <3>3. p * u \in Nat /\ v * u \in Nat /\ v * Power(2, a) \in Nat
      BY <2>3
    <3> QED BY <3>1, <3>2, <3>3
  <2>6. Power(Base, (x.n - 1) + q) < Power(Base, MaxBigits - 1)
    <3>1. Power(Base, MaxBigits - 1) \in Nat
      BY <1>0, Places
    <3> QED BY <2>1, <2>4, <2>5, <3>1
  <2>7. (x.n - 1) + q < MaxBigits - 1
    <3>1. (x.n - 1) + q \in Nat
      BY <1>0, <1>2
    <3> QED BY <1>0, <2>6, <3>1, BaseNat, PowerOrder
  <2> QED BY <1>0, <2>7
<1>3. Shiftable(x, a)
  BY <1>0, <1>1, <1>2 DEF Shiftable
<1>4. ASSUME x.n > 0 PROVE ShiftedLength(x, a) <= MaxBigits
  <2>1. x.n + q < MaxBigits
    BY <1>2, <1>4
  <2>2. ShiftedLength(x, a) = x.n + q + (IF r > 0 THEN 1 ELSE 0)
    BY <1>1, Zenon DEF ShiftedLength
  <2> QED BY <1>0, <2>1, <2>2
<1> QED BY <1>3, <1>4

(* A quotient of a quotient.                                               *)
LEMMA DivDiv ==
  ASSUME NEW v \in Nat, NEW a \in Nat, NEW b \in Nat, a >= 1, b >= 1
  PROVE  (v \div a) \div b = v \div (a * b)
<1>1. PICK q \in Int, r \in Int : q = v \div a /\ 0 <= r /\ r < a /\ v = q * a + r
  BY Division
<1>2. PICK s \in Int, d \in Int : s = q \div b /\ 0 <= d /\ d < b /\ q = s * b + d
  BY Division
<1>3. PICK m \in Nat, t \in Int : m = a * b /\ t = d * a + r
  OBVIOUS
<1>4. v = s * m + t
  <2>1. q * a = s * (a * b) + d * a
    <3>1. (s * b + d) * a = s * (a * b) + d * a
      OBVIOUS
    <3> QED BY <1>2, <3>1
  <2>2. s * (a * b) \in Int /\ d * a \in Int
    OBVIOUS
  <2> QED BY <1>1, <1>3, <2>1, <2>2
<1>5. 0 <= t /\ t < m /\ m >= 1
  <2>1. d * a >= 0 /\ d * a <= (b - 1) * a
    BY <1>2
  <2>2. (b - 1) * a = a * b - a /\ a * b \in Int /\ d * a \in Int /\ a * b >= 1
    OBVIOUS
  <2> QED BY <1>1, <1>3, <2>1, <2>2
<1>6. v \in Int
  OBVIOUS
<1>7. v \div m = s
  BY <1>4, <1>5, <1>6, DivisionUnique
<1> QED BY <1>1, <1>2, <1>3, <1>7

-----------------------------------------------------------------------------
(***************************************************************************)
(* Sequences of primitive operations.                                      *)
(***************************************************************************)

Primitives == [op : {"zero", "set", "set_u32", "set_u64", "clamp", "shift_left", "multiply_u32",
                     "multiply_u64", "add_u32", "add", "subtract", "subtract_left_shifted"},
               arg : Nat]

(* The operations are legal one after the other, and lead from ws[1] to    *)
(* the last of ws.                                                         *)
RunsThrough(ts, ws, r) ==
  \A k \in 1..Len(ts) : Legal(ts[k], ws[k], r) /\ ws[k + 1] = Effect(ts[k], ws[k], r)

Runs(ts, w, z, r) ==
  /\ ts \in Seq(Primitives)
  /\ \E ws \in [1..(Len(ts) + 1) -> Nat] :
       ws[1] = w /\ ws[Len(ts) + 1] = z /\ RunsThrough(ts, ws, r)

LEMMA RunsNowhere ==
  ASSUME NEW w \in Nat, NEW r
  PROVE  Runs(<<>>, w, w, r)
<1> DEFINE ws == [k \in 1..1 |-> w]
<1>1. Len(<<>>) = 0 /\ <<>> \in Seq(Primitives)
  OBVIOUS
<1>2. ws \in [1..(Len(<<>>) + 1) -> Nat] /\ ws[1] = w /\ ws[Len(<<>>) + 1] = w
  BY <1>1
<1>3. RunsThrough(<<>>, ws, r)
  BY <1>1 DEF RunsThrough
<1> QED BY <1>1, <1>2, <1>3 DEF Runs

LEMMA RunsOne ==
  ASSUME NEW c \in Primitives, NEW w \in Nat, NEW r, Legal(c, w, r), NEW z \in Nat,
         z = Effect(c, w, r)
  PROVE  Runs(<<c>>, w, z, r)
<1> DEFINE ws == [k \in 1..2 |-> IF k = 1 THEN w ELSE z]
<1>1. Len(<<c>>) = 1 /\ <<c>> \in Seq(Primitives) /\ <<c>>[1] = c
  OBVIOUS
<1>2. ws \in [1..2 -> Nat] /\ ws[1] = w /\ ws[2] = z
  OBVIOUS
<1> HIDE DEF ws
<1>3. RunsThrough(<<c>>, ws, r)
  <2>1. SUFFICES ASSUME NEW k \in 1..1
                 PROVE  Legal(<<c>>[k], ws[k], r) /\ ws[k + 1] = Effect(<<c>>[k], ws[k], r)
    BY <1>1 DEF RunsThrough
  <2>2. k = 1 /\ k + 1 = 2
    OBVIOUS
  <2> QED BY <1>1, <1>2, <2>2
<1>4. Len(<<c>>) + 1 = 2
  BY <1>1
<1> QED BY <1>1, <1>2, <1>3, <1>4 DEF Runs

LEMMA RunsOn ==
  ASSUME NEW s, NEW t, NEW w, NEW v, NEW z, NEW r, Runs(s, w, v, r), Runs(t, v, z, r)
  PROVE  Runs(s \o t, w, z, r)
<1>1. PICK us \in [1..(Len(s) + 1) -> Nat] :
        us[1] = w /\ us[Len(s) + 1] = v /\ RunsThrough(s, us, r)
  BY DEF Runs
<1>2. PICK vs \in [1..(Len(t) + 1) -> Nat] :
        vs[1] = v /\ vs[Len(t) + 1] = z /\ RunsThrough(t, vs, r)
  BY DEF Runs
<1>3. s \in Seq(Primitives) /\ t \in Seq(Primitives)
  BY DEF Runs
<1>4. PICK m \in Nat, n \in Nat : m = Len(s) /\ n = Len(t)
  BY <1>3, LenProperties
<1>5. /\ s \o t \in Seq(Primitives) /\ Len(s \o t) = m + n
      /\ \A k \in 1..(m + n) : (s \o t)[k] = IF k <= m THEN s[k] ELSE t[k - m]
  BY <1>3, <1>4, ConcatProperties
<1> DEFINE ws == [k \in 1..(m + n + 1) |-> IF k <= m + 1 THEN us[k] ELSE vs[k - m]]
<1>6. ws \in [1..(Len(s \o t) + 1) -> Nat]
  <2>1. \A k \in 1..(m + n + 1) : (IF k <= m + 1 THEN us[k] ELSE vs[k - m]) \in Nat
    <3>1. SUFFICES ASSUME NEW k \in 1..(m + n + 1)
                   PROVE  (IF k <= m + 1 THEN us[k] ELSE vs[k - m]) \in Nat
      OBVIOUS
    <3>2. CASE k <= m + 1
      <4>1. k \in 1..(m + 1)
        BY <3>2
      <4> QED BY <1>1, <1>4, <3>2, <4>1
    <3>3. CASE ~(k <= m + 1)
      <4>1. k - m \in 1..(n + 1)
        BY <3>3
      <4> QED BY <1>2, <1>4, <3>3, <4>1
    <3> QED BY <3>2, <3>3
  <2> QED BY <1>5, <2>1
<1>7. \A k \in 1..(m + n + 1) : /\ k <= m + 1 => ws[k] = us[k]
                                /\ k >= m + 1 => ws[k] = vs[k - m]
  <2>1. SUFFICES ASSUME NEW k \in 1..(m + n + 1)
                 PROVE  /\ k <= m + 1 => ws[k] = us[k]
                        /\ k >= m + 1 => ws[k] = vs[k - m]
    OBVIOUS
  <2>2. ws[k] = IF k <= m + 1 THEN us[k] ELSE vs[k - m]
    OBVIOUS
  <2>3. k = m + 1 => k - m = 1
    OBVIOUS
  <2> QED BY <1>1, <1>2, <1>4, <2>2, <2>3
<1> HIDE DEF ws
<1>8. ws[1] = w /\ ws[Len(s \o t) + 1] = z
  <2>1. 1 \in 1..(m + n + 1) /\ 1 <= m + 1
        /\ m + n + 1 \in 1..(m + n + 1) /\ m + n + 1 >= m + 1 /\ (m + n + 1) - m = n + 1
    OBVIOUS
  <2>2. ws[1] = us[1] /\ ws[m + n + 1] = vs[n + 1]
    BY <1>7, <2>1
  <2> QED BY <1>1, <1>2, <1>4, <1>5, <2>2
<1>9. RunsThrough(s \o t, ws, r)
  <2>1. SUFFICES ASSUME NEW k \in 1..(m + n)
                 PROVE  /\ Legal((s \o t)[k], ws[k], r)
                        /\ ws[k + 1] = Effect((s \o t)[k], ws[k], r)
    BY <1>5 DEF RunsThrough
  <2>2. k \in 1..(m + n + 1) /\ k + 1 \in 1..(m + n + 1)
    OBVIOUS
  <2>3. CASE k <= m
    <3>1. k \in 1..Len(s) /\ k <= m + 1 /\ k + 1 <= m + 1
      BY <1>4, <2>3
    <3>2. (s \o t)[k] = s[k] /\ ws[k] = us[k] /\ ws[k + 1] = us[k + 1]
      BY <1>5, <1>7, <2>2, <2>3, <3>1
    <3> QED BY <1>1, <3>1, <3>2 DEF RunsThrough
  <2>4. CASE ~(k <= m)
    <3>1. k - m \in 1..Len(t) /\ k >= m + 1 /\ k + 1 >= m + 1 /\ (k + 1) - m = (k - m) + 1
      BY <1>4, <2>4
    <3>2. (s \o t)[k] = t[k - m] /\ ws[k] = vs[k - m] /\ ws[k + 1] = vs[(k - m) + 1]
      BY <1>5, <1>7, <2>2, <2>4, <3>1
    <3> QED BY <1>2, <3>1, <3>2 DEF RunsThrough
  <2> QED BY <2>3, <2>4
<1> QED BY <1>5, <1>6, <1>8, <1>9 DEF Runs

(* The first of a sequence is legal, and the others follow.                *)
LEMMA RunsStep ==
  ASSUME NEW ts, ts # <<>>, NEW w, NEW z, NEW r, Runs(ts, w, z, r)
  PROVE  /\ Head(ts) \in Primitives /\ Legal(Head(ts), w, r)
         /\ Effect(Head(ts), w, r) \in Nat
         /\ Runs(Tail(ts), Effect(Head(ts), w, r), z, r)
<1>1. PICK ws \in [1..(Len(ts) + 1) -> Nat] :
        ws[1] = w /\ ws[Len(ts) + 1] = z /\ RunsThrough(ts, ws, r)
  BY DEF Runs
<1>2. ts \in Seq(Primitives)
  BY DEF Runs
<1>3. /\ Head(ts) \in Primitives /\ Tail(ts) \in Seq(Primitives) /\ Len(Tail(ts)) = Len(ts) - 1
      /\ \A k \in 1..Len(Tail(ts)) : Tail(ts)[k] = ts[k + 1]
  BY <1>2, HeadTailProperties
<1>4. PICK n \in Nat : n = Len(ts) /\ n >= 1 /\ n - 1 \in Nat
  BY <1>2, EmptySeq
<1>5. Head(ts) = ts[1]
  BY <1>2
<1>6. Legal(ts[1], ws[1], r) /\ ws[1 + 1] = Effect(ts[1], ws[1], r) /\ ws[2] \in Nat
  <2>1. 1 \in 1..Len(ts) /\ 2 \in 1..(Len(ts) + 1) /\ 1 + 1 = 2
    BY <1>4
  <2> QED BY <1>1, <2>1 DEF RunsThrough
<1> DEFINE us == [k \in 1..n |-> ws[k + 1]]
<1>7. us \in [1..(Len(Tail(ts)) + 1) -> Nat] /\ us[1] = ws[2] /\ us[Len(Tail(ts)) + 1] = z
  <2>1. Len(Tail(ts)) + 1 = n
    BY <1>3, <1>4
  <2>2. \A k \in 1..n : k + 1 \in 1..(n + 1)
    OBVIOUS
  <2>3. \A k \in 1..n : ws[k + 1] \in Nat
    BY <1>1, <1>4, <2>2
  <2>4. us \in [1..n -> Nat] /\ us[1] = ws[1 + 1] /\ us[n] = ws[n + 1]
    BY <1>4, <2>3
  <2> QED BY <1>1, <1>4, <2>1, <2>4
<1>8. RunsThrough(Tail(ts), us, r)
  <2>1. SUFFICES ASSUME NEW k \in 1..(n - 1)
                 PROVE  /\ Legal(Tail(ts)[k], us[k], r)
                        /\ us[k + 1] = Effect(Tail(ts)[k], us[k], r)
    BY <1>3, <1>4 DEF RunsThrough
  <2>2. k + 1 \in 1..Len(ts) /\ k \in 1..n /\ k + 1 \in 1..n /\ k \in 1..Len(Tail(ts))
    BY <1>3, <1>4
  <2>3. us[k] = ws[k + 1] /\ us[k + 1] = ws[(k + 1) + 1] /\ Tail(ts)[k] = ts[k + 1]
    BY <1>3, <2>2
  <2> HIDE DEF us
  <2> QED BY <1>1, <2>2, <2>3 DEF RunsThrough
<1> HIDE DEF us
<1>9. Runs(Tail(ts), ws[2], z, r)
  BY <1>3, <1>7, <1>8 DEF Runs
<1> QED BY <1>1, <1>3, <1>5, <1>6, <1>9

LEMMA RunsTimes ==
  ASSUME NEW c \in Primitives, c.op \in Multiplies, NEW a \in Nat, a = c.arg, a >= 1,
         a < Power(Base, 2), NEW n \in Nat, NEW w \in Nat, NEW r,
         w * Power(a, n) < Power(Base, MaxBigits)
  PROVE  Runs(Times(n, c), w, w * Power(a, n), r)
<1> DEFINE ws == [k \in 1..(n + 1) |-> w * Power(a, k - 1)]
<1>0. \A k \in Nat : Power(a, k) \in Nat /\ Power(a, k) >= 1 /\ Power(a, k + 1) = a * Power(a, k)
  BY PowerPositive, PowerIs
<1>1. /\ Times(n, c) \in Seq(Primitives) /\ Len(Times(n, c)) = n
      /\ \A k \in 1..n : Times(n, c)[k] = c
  BY DEF Times
<1>2. \A k \in 1..(n + 1) : k - 1 \in Nat /\ w * Power(a, k - 1) \in Nat
  <2>1. SUFFICES ASSUME NEW k \in 1..(n + 1)
                 PROVE  k - 1 \in Nat /\ w * Power(a, k - 1) \in Nat
    OBVIOUS
  <2>2. k - 1 \in Nat
    OBVIOUS
  <2>3. Power(a, k - 1) \in Nat
    BY <1>0, <2>2
  <2> QED BY <2>2, <2>3
<1>3. ws \in [1..(n + 1) -> Nat]
  BY <1>2
<1>4. \A k \in 1..(n + 1) : ws[k] = w * Power(a, k - 1)
  OBVIOUS
<1> HIDE DEF ws
<1>5. ws[1] = w /\ ws[n + 1] = w * Power(a, n)
  <2>1. 1 \in 1..(n + 1) /\ n + 1 \in 1..(n + 1) /\ 1 - 1 = 0 /\ (n + 1) - 1 = n
    OBVIOUS
  <2>2. Power(a, 0) = 1
    BY PowerIs
  <2>3. ws[1] = w * Power(a, 0) /\ ws[n + 1] = w * Power(a, n)
    BY <1>4, <2>1
  <2> QED BY <2>2, <2>3
<1>6. RunsThrough(Times(n, c), ws, r)
  <2>1. SUFFICES ASSUME NEW k \in 1..n
                 PROVE  Legal(c, ws[k], r) /\ ws[k + 1] = Effect(c, ws[k], r)
    BY <1>1 DEF RunsThrough
  <2>2. k \in 1..(n + 1) /\ k + 1 \in 1..(n + 1) /\ (k + 1) - 1 = k /\ k - 1 \in Nat
        /\ (k - 1) + 1 = k /\ k \in Nat /\ n - k \in Nat /\ k + (n - k) = n
    OBVIOUS
  <2>3. PICK p \in Nat : p = Power(a, k - 1) /\ Power(a, k) = a * p
    BY <1>0, <2>2
  <2>4. ws[k] = w * p /\ ws[k + 1] = w * (a * p)
    BY <1>4, <2>2, <2>3
  <2>5. w * (a * p) = (w * p) * a /\ w * p \in Nat
    OBVIOUS
  <2>6. Effect(c, w * p, r) = (w * p) * a
    BY EffectIs
  <2>7. (w * p) * a < Power(Base, MaxBigits)
    <3>1. PICK q \in Nat : q = Power(a, n - k) /\ q >= 1
      BY <1>0, <2>2
    <3>2. Power(a, k + (n - k)) = Power(a, k) * Power(a, n - k)
      BY <2>2, PowerAdd
    <3>3. Power(a, n) = (a * p) * q
      BY <2>2, <2>3, <3>1, <3>2
    <3>4. (a * p) * q >= a * p /\ a * p \in Nat /\ (a * p) * q \in Nat
      BY <3>1
    <3>5. w * ((a * p) * q) >= w * (a * p)
      BY <3>4
    <3>6. Power(Base, MaxBigits) \in Nat
      BY Places, WidthAssumption
    <3>7. w * ((a * p) * q) \in Nat /\ w * (a * p) \in Nat
      OBVIOUS
    <3> QED BY <2>5, <3>3, <3>5, <3>6, <3>7
  <2>8. Legal(c, w * p, r)
    <3>1. a \in 0..(Power(Base, 2) - 1)
      BY BaseSquare
    <3>2. c.op = "multiply_u32" \/ c.op = "multiply_u64"
      BY DEF Multiplies
    <3> QED BY <2>7, <3>1, <3>2 DEF Legal, Subtracts
  <2> QED BY <2>4, <2>5, <2>6, <2>8
<1>7. Len(Times(n, c)) + 1 = n + 1
  BY <1>1
<1> QED BY <1>1, <1>3, <1>5, <1>6, <1>7 DEF Runs

-----------------------------------------------------------------------------
(***************************************************************************)
(* What the compound operations consist of.                                *)
(***************************************************************************)

LEMMA TenIs ==
  /\ 10 = 5 * 2
  /\ \A k \in Nat : /\ Power(10, k) = Power(5, k) * Power(2, k)
                    /\ Power(5, k) \in Nat /\ Power(5, k) >= 1
                    /\ Power(2, k) \in Nat /\ Power(2, k) >= 1
                    /\ Power(10, k) \in Nat /\ Power(10, k) >= 1
  /\ \A j, k \in Nat : j < k => Power(5, j) < Power(5, k)
  /\ \A j, k \in Nat : Power(10, j + k) = Power(10, j) * Power(10, k)
  /\ \A j, k \in Nat : j <= k => Power(10, j) <= Power(10, k)
  /\ Power(10, 0) = 1
<1>1. PICK t \in Nat, f \in Nat, d \in Nat : /\ t = 2 /\ t >= 1 /\ f = 5 /\ f >= 1 /\ f >= 2
                                             /\ d = 10 /\ d >= 1 /\ d >= 2 /\ d = f * t
  OBVIOUS
<1>2. \A k \in Nat : Power(f * t, k) = Power(f, k) * Power(t, k)
  BY <1>1, PowerTimes
<1>3. \A k \in Nat : /\ Power(f, k) \in Nat /\ Power(f, k) >= 1
                     /\ Power(t, k) \in Nat /\ Power(t, k) >= 1
                     /\ Power(d, k) \in Nat /\ Power(d, k) >= 1
  <2>1. \A b \in Nat : b >= 1 => \A k \in Nat : Power(b, k) \in Nat /\ Power(b, k) >= 1
    BY PowerPositive
  <2> QED BY <1>1, <2>1
<1>4. \A j, k \in Nat : j < k => Power(f, j) < Power(f, k)
  BY <1>1, PowerMonotone
<1>5. \A j, k \in Nat : Power(d, j + k) = Power(d, j) * Power(d, k)
  BY <1>1, PowerAdd
<1>6. \A j, k \in Nat : j <= k => Power(d, j) <= Power(d, k)
  BY <1>1, PowerMonotone
<1>7. Power(d, 0) = 1
  BY PowerIs
<1>8. 10 = 5 * 2 /\ f * t = d
  BY <1>1
<1>9. \A k \in Nat : Power(10, k) = Power(5, k) * Power(2, k)
  BY <1>1, <1>2, <1>8
<1>10. \A k \in Nat : /\ Power(5, k) \in Nat /\ Power(5, k) >= 1
                      /\ Power(2, k) \in Nat /\ Power(2, k) >= 1
                      /\ Power(10, k) \in Nat /\ Power(10, k) >= 1
  BY <1>1, <1>3
<1>11. \A j, k \in Nat : j < k => Power(5, j) < Power(5, k)
  BY <1>1, <1>4
<1>12. \A j, k \in Nat : Power(10, j + k) = Power(10, j) * Power(10, k)
  BY <1>1, <1>5
<1>13. \A j, k \in Nat : j <= k => Power(10, j) <= Power(10, k)
  BY <1>1, <1>6
<1>14. Power(10, 0) = 1
  BY <1>1, <1>7
<1> QED BY <1>8, <1>9, <1>10, <1>11, <1>12, <1>13, <1>14

(* The last two operations of multiply_pow10.                              *)
LEMMA RunsLast ==
  ASSUME NEW c \in Primitives, c.op \in Multiplies, c.arg < Power(Base, 2), NEW e \in Nat,
         NEW w \in Nat, NEW u \in Nat, u = w * c.arg, NEW r,
         u * Power(2, e) < Power(Base, MaxBigits - 1)
  PROVE  Runs(<<c, Primitive("shift_left", e)>>, w, u * Power(2, e), r)
<1> DEFINE s == Primitive("shift_left", e)
<1>0. /\ MaxBigits \in Nat /\ MaxBigits - 1 \in Nat /\ Power(Base, MaxBigits) \in Nat
      /\ Power(Base, MaxBigits - 1) \in Nat /\ Power(Base, MaxBigits - 1) <= Power(Base, MaxBigits)
  <2>1. MaxBigits \in Nat /\ MaxBigits - 1 \in Nat /\ MaxBigits - 1 <= MaxBigits
    BY WidthAssumption
  <2> QED BY <2>1, Places, PlacesGrow
<1>1. Power(2, e) \in Nat /\ Power(2, e) >= 1
  BY PowersOfTwo
<1>2. u <= u * Power(2, e) /\ u * Power(2, e) \in Nat
  BY <1>1
<1>3. s \in Primitives /\ s.op = "shift_left" /\ s.arg = e
  BY DEF Primitive, Primitives
<1>4. Legal(c, w, r)
  <2>1. c.arg \in Nat
    BY DEF Primitives
  <2>2. c.arg \in 0..(Power(Base, 2) - 1)
    BY <2>1, BaseSquare
  <2>3. w * c.arg < Power(Base, MaxBigits)
    BY <1>0, <1>2
  <2>4. c.op = "multiply_u32" \/ c.op = "multiply_u64"
    BY DEF Multiplies
  <2> QED BY <2>2, <2>3, <2>4 DEF Legal, Subtracts
<1>5. Effect(c, w, r) = u
  BY EffectIs
<1>6. Legal(s, u, r)
  <2>1. \A x \in Numbers : Clamped(x) /\ Value(x) = u => Shiftable(x, e)
    BY RoomToShift
  <2> HIDE DEF s
  <2> QED BY <1>3, <2>1 DEF Legal, Multiplies, Subtracts
<1>7. Effect(s, u, r) = u * Power(2, e)
  BY <1>3, EffectIs
<1> HIDE DEF s
<1>8. Runs(<<c>>, w, u, r)
  BY <1>4, <1>5, RunsOne
<1>9. Runs(<<s>>, u, u * Power(2, e), r)
  BY <1>2, <1>3, <1>6, <1>7, RunsOne
<1>10. Runs(<<c>> \o <<s>>, w, u * Power(2, e), r)
  BY <1>8, <1>9, RunsOn
<1>11. <<c>> \o <<s>> = <<c, s>>
  <2>1. <<c>> \in Seq(Primitives) /\ <<s>> \in Seq(Primitives) /\ <<c, s>> \in Seq(Primitives)
    BY <1>3
  <2>2. Len(<<c>>) = 1 /\ Len(<<s>>) = 1 /\ <<c>>[1] = c /\ <<s>>[1] = s
        /\ Len(<<c, s>>) = 2 /\ <<c, s>>[1] = c /\ <<c, s>>[2] = s
    OBVIOUS
  <2>3. /\ <<c>> \o <<s>> \in Seq(Primitives) /\ Len(<<c>> \o <<s>>) = 2
        /\ (<<c>> \o <<s>>)[1] = c /\ (<<c>> \o <<s>>)[2] = s
    <3>1. /\ <<c>> \o <<s>> \in Seq(Primitives) /\ Len(<<c>> \o <<s>>) = Len(<<c>>) + Len(<<s>>)
          /\ \A k \in 1..(Len(<<c>>) + Len(<<s>>)) :
               (<<c>> \o <<s>>)[k] = IF k <= Len(<<c>>) THEN <<c>>[k] ELSE <<s>>[k - Len(<<c>>)]
      BY <2>1, ConcatProperties
    <3>2. 1 \in 1..2 /\ 2 \in 1..2 /\ 2 - 1 = 1 /\ 1 + 1 = 2
      OBVIOUS
    <3> QED BY <2>2, <3>1, <3>2
  <2>4. \A k \in 1..2 : (<<c>> \o <<s>>)[k] = <<c, s>>[k]
    <3>1. \A k \in 1..2 : k = 1 \/ k = 2
      OBVIOUS
    <3> QED BY <2>2, <2>3, <3>1
  <2> QED BY <2>1, <2>2, <2>3, <2>4, SeqEqual
<1> QED BY <1>10, <1>11 DEF s

LEMMA MultiplyPow10Runs ==
  ASSUME NEW w \in Nat, NEW e \in Nat, NEW r,
         w * Power(10, e) < Power(Base, MaxBigits - 1)
  PROVE  Runs(MultiplyPow10(e), w, w * Power(10, e), r)
<1>0. /\ MaxBigits \in Nat /\ MaxBigits - 1 \in Nat /\ Power(Base, MaxBigits) \in Nat
      /\ Power(Base, MaxBigits - 1) \in Nat /\ Power(Base, MaxBigits - 1) <= Power(Base, MaxBigits)
  <2>1. MaxBigits \in Nat /\ MaxBigits - 1 \in Nat /\ MaxBigits - 1 <= MaxBigits
    BY WidthAssumption
  <2> QED BY <2>1, Places, PlacesGrow
<1>1. /\ HugitPow5 \in Nat /\ HugitPow5 >= 1 /\ WordPow5 \in Nat /\ WordPow5 >= 1
      /\ Power(5, HugitPow5) < Power(Base, 2) /\ Power(5, WordPow5) < Base
  BY ScaleAssumption
<1> DEFINE left == e % HugitPow5
<1>2. PICK a \in Nat, l \in Nat : a = e \div HugitPow5 /\ l = left /\ e = a * HugitPow5 + l
  <2>1. /\ e \div HugitPow5 \in Int /\ left \in Int /\ left >= 0 /\ e \div HugitPow5 >= 0
        /\ e = (e \div HugitPow5) * HugitPow5 + left
    BY <1>1, Division
  <2> QED BY <2>1
<1>3. PICK b \in Nat, c \in Nat : /\ b = left \div WordPow5 /\ c = left % WordPow5
                                  /\ l = b * WordPow5 + c /\ c < WordPow5
  <2>1. /\ l \div WordPow5 \in Int /\ l % WordPow5 \in Int /\ l % WordPow5 >= 0
        /\ l \div WordPow5 >= 0 /\ l % WordPow5 < WordPow5
        /\ l = (l \div WordPow5) * WordPow5 + (l % WordPow5)
    BY <1>1, Division
  <2> QED BY <1>2, <2>1
<1> HIDE DEF left
<1>4. PICK A \in Nat, B \in Nat, C \in Nat, T \in Nat, f \in Nat :
        /\ A = Power(5, HugitPow5) /\ B = Power(5, WordPow5) /\ C = Power(5, c)
        /\ T = Power(2, e) /\ f = Power(5, e) /\ A >= 1 /\ B >= 1 /\ C >= 1 /\ T >= 1 /\ C < B
        /\ Power(10, e) = f * T
  <2>1. /\ Power(5, HugitPow5) \in Nat /\ Power(5, WordPow5) \in Nat /\ Power(5, c) \in Nat
        /\ Power(5, HugitPow5) >= 1 /\ Power(5, WordPow5) >= 1 /\ Power(5, c) >= 1
    BY <1>1, TenIs
  <2>2. Power(5, c) < Power(5, WordPow5)
    BY <1>1, <1>3, TenIs
  <2>3. /\ Power(10, e) = Power(5, e) * Power(2, e) /\ Power(5, e) \in Nat
        /\ Power(2, e) \in Nat /\ Power(2, e) >= 1
    BY TenIs
  <2> QED BY <2>1, <2>2, <2>3
<1>5. PICK pa \in Nat, pb \in Nat : /\ pa = Power(A, a) /\ pb = Power(B, b) /\ pa >= 1 /\ pb >= 1
                                    /\ f = (pa * pb) * C
  <2>1. PICK t \in Nat : t = 5 /\ t >= 1
    OBVIOUS
  <2>2. Power(A, a) = Power(t, HugitPow5 * a) /\ Power(B, b) = Power(t, WordPow5 * b)
    <3>1. \A m \in Nat : \A n \in Nat : Power(Power(t, m), n) = Power(t, m * n)
      BY <2>1, PowerPower
    <3>2. Power(Power(t, HugitPow5), a) = Power(t, HugitPow5 * a)
      BY <1>1, <3>1
    <3>3. Power(Power(t, WordPow5), b) = Power(t, WordPow5 * b)
      BY <1>1, <3>1
    <3>4. A = Power(t, HugitPow5) /\ B = Power(t, WordPow5)
      BY <1>4, <2>1, Zenon
    <3> QED BY <3>2, <3>3, <3>4
  <2>3. PICK x \in Nat, y \in Nat : /\ x = HugitPow5 * a /\ y = WordPow5 * b /\ e = (x + y) + c
    <3>1. HugitPow5 * a = a * HugitPow5 /\ WordPow5 * b = b * WordPow5
          /\ HugitPow5 * a \in Nat /\ WordPow5 * b \in Nat
      BY <1>1
    <3> QED BY <1>2, <1>3, <3>1
  <2>4. \A m, n \in Nat : Power(t, m + n) = Power(t, m) * Power(t, n)
    BY <2>1, PowerAdd
  <2>5. Power(t, (x + y) + c) = (Power(t, x) * Power(t, y)) * Power(t, c)
    <3>1. x + y \in Nat
      OBVIOUS
    <3>2. Power(t, (x + y) + c) = Power(t, x + y) * Power(t, c)
      BY <2>4, <3>1
    <3>3. Power(t, x + y) = Power(t, x) * Power(t, y)
      BY <2>4
    <3> QED BY <3>2, <3>3
  <2>6. /\ Power(A, a) \in Nat /\ Power(B, b) \in Nat /\ Power(A, a) >= 1 /\ Power(B, b) >= 1
    BY <1>4, PowerPositive
  <2> QED BY <1>4, <2>1, <2>2, <2>3, <2>5, <2>6
<1>6. /\ w * pa \in Nat /\ (w * pa) * pb \in Nat /\ ((w * pa) * pb) * C \in Nat
      /\ w * Power(10, e) = (((w * pa) * pb) * C) * T
      /\ w * Power(10, e) \in Nat
  <2>1. w * (((pa * pb) * C) * T) = (((w * pa) * pb) * C) * T
    OBVIOUS
  <2>2. w * pa \in Nat /\ (w * pa) * pb \in Nat /\ ((w * pa) * pb) * C \in Nat
        /\ (((w * pa) * pb) * C) * T \in Nat
    OBVIOUS
  <2> QED BY <1>4, <1>5, <2>1, <2>2
<1>7. /\ w * pa < Power(Base, MaxBigits) /\ (w * pa) * pb < Power(Base, MaxBigits)
  <2>1. PICK u \in Nat, v \in Nat, z \in Nat : /\ u = w * pa /\ v = u * pb /\ z = v * C
                                               /\ w * Power(10, e) = z * T
    BY <1>6
  <2>2. u <= v /\ v <= z /\ z <= z * T /\ z * T \in Nat
    <3>1. \A m, n \in Nat : n >= 1 => m <= m * n /\ m * n \in Nat
      OBVIOUS
    <3> QED BY <1>4, <1>5, <2>1, <3>1
  <2> QED BY <1>0, <2>1, <2>2
<1> DEFINE ca == Primitive("multiply_u64", A)
           cb == Primitive("multiply_u32", B)
           cc == Primitive("multiply_u32", C)
           s  == Primitive("shift_left", e)
<1>8. /\ ca \in Primitives /\ ca.op \in Multiplies /\ ca.arg = A
      /\ cb \in Primitives /\ cb.op \in Multiplies /\ cb.arg = B
      /\ cc \in Primitives /\ cc.op \in Multiplies /\ cc.arg = C
  BY DEF Primitive, Primitives, Multiplies
<1>9. A < Power(Base, 2) /\ B < Power(Base, 2) /\ C < Power(Base, 2)
  <2>1. Base * Base >= Base
    BY BaseNat
  <2> QED BY <1>1, <1>4, <2>1, BaseNat, BaseSquare
<1> HIDE DEF ca, cb, cc
<1>10. Runs(Times(a, ca), w, w * pa, r)
  BY <1>4, <1>5, <1>7, <1>8, <1>9, RunsTimes
<1>11. Runs(Times(b, cb), w * pa, (w * pa) * pb, r)
  BY <1>4, <1>5, <1>6, <1>7, <1>8, <1>9, RunsTimes
<1>12. Runs(<<cc, s>>, (w * pa) * pb, (((w * pa) * pb) * C) * T, r)
  BY <1>4, <1>6, <1>8, <1>9, RunsLast
<1>13. Runs((Times(a, ca) \o Times(b, cb)) \o <<cc, s>>, w, (((w * pa) * pb) * C) * T, r)
  <2>1. Runs(Times(a, ca) \o Times(b, cb), w, (w * pa) * pb, r)
    BY <1>10, <1>11, RunsOn
  <2> QED BY <1>12, <2>1, RunsOn
<1>14. MultiplyPow10(e) = (Times(a, ca) \o Times(b, cb)) \o <<cc, s>>
  BY <1>2, <1>3, <1>4, Zenon DEF MultiplyPow10, left, ca, cb, cc
<1> QED BY <1>6, <1>13, <1>14

(* The parts of a decimal string: the digits up to the end of the k-th     *)
(* word, as a number, are made of those before it and of the word.         *)
WordEnd(k, digits) == IF k * WordDigits < digits THEN k * WordDigits ELSE digits
WordScale(k, digits) == Power(10, WordEnd(k, digits) - WordEnd(k - 1, digits))
Leading(v, k, digits) == v \div Power(10, digits - WordEnd(k, digits))

LEMMA WordEndIs ==
  ASSUME NEW digits \in Nat, NEW k \in Nat
  PROVE  /\ WordEnd(k, digits) \in Nat /\ WordEnd(k, digits) <= digits
         /\ k * WordDigits >= digits => WordEnd(k, digits) = digits
         /\ WordEnd(0, digits) = 0
         /\ k >= 1 => /\ WordEnd(k - 1, digits) \in Nat
                      /\ WordEnd(k - 1, digits) <= WordEnd(k, digits)
                      /\ WordEnd(k, digits) - WordEnd(k - 1, digits) <= WordDigits
<1>1. WordDigits \in Nat /\ k * WordDigits \in Nat /\ 0 * WordDigits = 0
  BY ScaleAssumption
<1>2. (k - 1) * WordDigits = k * WordDigits - WordDigits
  BY <1>1
<1>3. k >= 1 => (k - 1) * WordDigits >= 0
  BY <1>1
<1>4. PICK a \in Nat, b \in Int, d \in Nat : /\ a = k * WordDigits /\ b = (k - 1) * WordDigits
                                             /\ d = WordDigits /\ b = a - d /\ (k >= 1 => b >= 0)
  BY <1>1, <1>2, <1>3
<1>5. /\ WordEnd(k, digits) = IF a < digits THEN a ELSE digits
      /\ WordEnd(k - 1, digits) = IF b < digits THEN b ELSE digits
      /\ WordEnd(0, digits) = IF 0 < digits THEN 0 ELSE digits
  BY <1>1, <1>4 DEF WordEnd
<1> QED BY <1>4, <1>5

LEMMA LeadingIs ==
  ASSUME NEW v \in Nat, NEW digits \in Nat, v < Power(10, digits), NEW k \in Nat
  PROVE  /\ Leading(v, k, digits) \in Nat /\ Leading(v, k, digits) <= v
         /\ Leading(v, 0, digits) = 0
         /\ k * WordDigits >= digits => Leading(v, k, digits) = v
         /\ k >= 1 =>
              LET s == WordScale(k, digits)
                  d == Leading(v, k, digits) % s
              IN  /\ s \in 1..(Base - 1) /\ d \in 0..(Base - 1)
                  /\ Leading(v, k - 1, digits) \in Nat
                  /\ Leading(v, k, digits) = Leading(v, k - 1, digits) * s + d
<1>1. PICK e \in Nat, p \in Nat : e = digits - WordEnd(k, digits) /\ p = Power(10, e) /\ p >= 1
  <2>0. WordEnd(k, digits) \in Nat /\ WordEnd(k, digits) <= digits
    BY WordEndIs
  <2>1. digits - WordEnd(k, digits) \in Nat
    BY <2>0
  <2> QED BY <2>1, TenIs
<1>2. PICK q \in Nat : q = Leading(v, k, digits) /\ q = v \div p /\ q <= v
  <2>1. v \div p \in Int /\ v \div p >= 0 /\ v \div p <= v
    BY <1>1, Division
  <2> QED BY <1>1, <2>1 DEF Leading
<1>3. Leading(v, 0, digits) = 0
  <2>1. WordEnd(0, digits) = 0
    BY WordEndIs
  <2>2. digits - 0 = digits
    OBVIOUS
  <2>3. PICK m \in Nat : m = Power(10, digits) /\ m >= 1
    BY TenIs
  <2>4. v \div m = 0
    BY <2>3, Division
  <2> QED BY <2>1, <2>2, <2>3, <2>4 DEF Leading
<1>4. ASSUME k * WordDigits >= digits PROVE Leading(v, k, digits) = v
  <2>1. e = 0
    BY <1>1, <1>4, WordEndIs
  <2>2. p = 1
    BY <1>1, <2>1, TenIs
  <2> QED BY <1>2, <2>2
<1>5. ASSUME k >= 1
      PROVE  LET s == WordScale(k, digits)
                 d == Leading(v, k, digits) % s
             IN  /\ s \in 1..(Base - 1) /\ d \in 0..(Base - 1)
                 /\ Leading(v, k - 1, digits) \in Nat
                 /\ Leading(v, k, digits) = Leading(v, k - 1, digits) * s + d
  <2>1. PICK h \in Nat : /\ h = WordEnd(k, digits) - WordEnd(k - 1, digits) /\ h <= WordDigits
                         /\ digits - WordEnd(k - 1, digits) = e + h
    <3>1. /\ WordEnd(k, digits) \in Nat /\ WordEnd(k - 1, digits) \in Nat
          /\ WordEnd(k - 1, digits) <= WordEnd(k, digits)
          /\ WordEnd(k, digits) - WordEnd(k - 1, digits) <= WordDigits
      BY <1>5, WordEndIs
    <3> QED BY <1>1, <3>1
  <2>2. PICK s \in Nat : s = WordScale(k, digits) /\ s = Power(10, h) /\ s >= 1
    BY <2>1, TenIs DEF WordScale
  <2>3. s < Base
    <3>1. WordDigits \in Nat /\ Power(10, WordDigits) < Base
      BY ScaleAssumption
    <3>2. Power(10, h) <= Power(10, WordDigits) /\ Power(10, WordDigits) \in Nat
      BY <2>1, <3>1, TenIs
    <3> QED BY <2>2, <3>1, <3>2, BaseNat
  <2>4. /\ q \div s \in Int /\ q % s \in Int /\ q % s >= 0 /\ q % s < s
        /\ q = (q \div s) * s + (q % s) /\ (q >= 0 => q \div s >= 0)
    <3>1. q \in Int /\ s \in Nat /\ s >= 1
      BY <2>2
    <3> QED BY <3>1, Division, Zenon
  <2>5. Leading(v, k - 1, digits) = q \div s
    <3>1. Power(10, e + h) = p * s
      BY <1>1, <2>2, TenIs
    <3>2. (v \div p) \div s = v \div (p * s)
      BY <1>1, <2>2, DivDiv
    <3>3. Leading(v, k - 1, digits) = v \div Power(10, e + h)
      BY <2>1 DEF Leading
    <3> QED BY <1>2, <3>1, <3>2, <3>3
  <2>6. PICK b \in Nat : b = Base
    BY BaseNat
  <2>7. s \in 1..(Base - 1) /\ q % s \in 0..(Base - 1) /\ q \div s \in Nat
    <3>1. PICK d \in Int, g \in Int : d = q % s /\ g = q \div s /\ d >= 0 /\ d < s /\ g >= 0
      BY <2>4
    <3>2. s < b
      BY <2>3, <2>6
    <3> QED BY <2>2, <2>6, <3>1, <3>2
  <2>8. Leading(v, k, digits) = Leading(v, k - 1, digits) * s + (q % s)
    BY <1>2, <2>4, <2>5
  <2> QED BY <1>2, <2>2, <2>5, <2>7, <2>8, Zenon
<1> QED BY <1>2, <1>3, <1>4, <1>5

(* The words of the string of v, one multiplication and one addition each. *)
IsBody(ts, v, digits, words) ==
  ts = [k \in 1..(2 * words) |->
         IF k % 2 = 1
         THEN Primitive("multiply_u32", WordScale((k + 1) \div 2, digits))
         ELSE Primitive("add_u32", Leading(v, k \div 2, digits) % WordScale(k \div 2, digits))]

LEMMA DecimalBodyRuns ==
  ASSUME NEW v \in Nat, v < Power(Base, MaxBigits), NEW digits \in Nat, v < Power(10, digits),
         NEW words \in Nat, words * WordDigits >= digits, NEW r,
         NEW ts, IsBody(ts, v, digits, words)
  PROVE  Runs(ts, 0, v, r)
<1> DEFINE L(m) == Leading(v, m, digits)
           s(m) == WordScale(m, digits)
           ws == [k \in 1..(2 * words + 1) |->
                   IF k % 2 = 1 THEN L((k - 1) \div 2) ELSE L((k \div 2) - 1) * s(k \div 2)]
<1>0. Power(Base, MaxBigits) \in Nat /\ Power(Base, 2) \in Nat /\ Base \in Nat /\ Base >= 2
      /\ Power(Base, 2) >= Base
  <2>1. Base * Base >= Base
    BY BaseNat
  <2> QED BY <2>1, Places, WidthAssumption, BaseSquare, BaseNat
(* Every place in the list is the first or the second of a pair.           *)
<1>2. \A m \in Nat : /\ (2 * m) % 2 = 0 /\ (2 * m) \div 2 = m
                     /\ (2 * m + 1) % 2 = 1 /\ ((2 * m + 1) - 1) \div 2 = m
                     /\ ((2 * m + 1) + 1) \div 2 = m + 1
  OBVIOUS
<1>3. \A m \in Nat : L(m) \in Nat /\ L(m) <= v /\ L(m) < Power(Base, MaxBigits)
  <2>1. \A m \in Nat : L(m) \in Nat /\ L(m) <= v
    BY LeadingIs
  <2> HIDE DEF L
  <2> QED BY <1>0, <2>1
<1>4. \A m \in Nat :
         /\ s(m + 1) \in 1..(Base - 1) /\ L(m + 1) % s(m + 1) \in 0..(Base - 1)
         /\ s(m + 1) \in Nat /\ L(m + 1) % s(m + 1) \in Nat
         /\ L(m + 1) = L(m) * s(m + 1) + (L(m + 1) % s(m + 1))
         /\ L(m) * s(m + 1) \in Nat /\ L(m) * s(m + 1) <= L(m + 1)
  <2>1. SUFFICES ASSUME NEW m \in Nat
                 PROVE  /\ s(m + 1) \in 1..(Base - 1) /\ L(m + 1) % s(m + 1) \in 0..(Base - 1)
                        /\ s(m + 1) \in Nat /\ L(m + 1) % s(m + 1) \in Nat
                        /\ L(m + 1) = L(m) * s(m + 1) + (L(m + 1) % s(m + 1))
                        /\ L(m) * s(m + 1) \in Nat /\ L(m) * s(m + 1) <= L(m + 1)
    OBVIOUS
  <2>2. PICK n \in Nat : n = m + 1 /\ n >= 1 /\ n - 1 = m
    OBVIOUS
  <2>3. /\ s(n) \in 1..(Base - 1) /\ L(n) % s(n) \in 0..(Base - 1)
        /\ L(n) = L(n - 1) * s(n) + (L(n) % s(n))
    <3>1. n >= 1 =>
            LET t == WordScale(n, digits)
                d == Leading(v, n, digits) % t
            IN  /\ t \in 1..(Base - 1) /\ d \in 0..(Base - 1)
                /\ Leading(v, n - 1, digits) \in Nat
                /\ Leading(v, n, digits) = Leading(v, n - 1, digits) * t + d
      BY LeadingIs
    <3> QED BY <2>2, <3>1, Zenon
  <2>4. PICK d \in Nat, t \in Nat : d = L(n) % s(n) /\ t = s(n)
    <3> HIDE DEF L, s
    <3> QED BY <1>0, <2>3
  <2>5. L(m) \in Nat /\ L(n) \in Nat
    BY <1>3
  <2> HIDE DEF L, s
  <2>6. L(m) * t \in Nat /\ L(n) = L(m) * t + d
    BY <2>2, <2>3, <2>4, <2>5
  <2>7. L(m) * t <= L(n)
    BY <2>6
  <2> QED BY <2>2, <2>3, <2>4, <2>6, <2>7
<1>5. \A m \in Nat : m <= words => ws[2 * m + 1] = L(m)
  <2>1. SUFFICES ASSUME NEW m \in Nat, m <= words PROVE ws[2 * m + 1] = L(m)
    OBVIOUS
  <2>2. PICK k \in Nat : k = 2 * m + 1 /\ k \in 1..(2 * words + 1) /\ k % 2 = 1
                         /\ (k - 1) \div 2 = m
    <3> HIDE DEF L, s, ws
    <3>1. (2 * m + 1) % 2 = 1 /\ ((2 * m + 1) - 1) \div 2 = m
      BY <1>2, Zenon
    <3>2. 2 * m + 1 \in Nat /\ 2 * m + 1 \in 1..(2 * words + 1)
      BY <2>1
    <3> QED BY <3>1, <3>2, Zenon
  <2>3. ws[k] = IF k % 2 = 1 THEN L((k - 1) \div 2) ELSE L((k \div 2) - 1) * s(k \div 2)
    BY <2>2, Zenon
  <2> HIDE DEF L, s, ws
  <2> QED BY <2>2, <2>3
<1>6. \A m \in Nat : m + 1 <= words => ws[2 * m + 2] = L(m) * s(m + 1)
  <2>1. SUFFICES ASSUME NEW m \in Nat, m + 1 <= words PROVE ws[2 * m + 2] = L(m) * s(m + 1)
    OBVIOUS
  <2>2. PICK k \in Nat : k = 2 * m + 2 /\ k \in 1..(2 * words + 1) /\ k % 2 # 1
                         /\ k \div 2 = m + 1 /\ (k \div 2) - 1 = m
    <3> HIDE DEF L, s, ws
    <3>1. m + 1 \in Nat /\ 2 * (m + 1) = 2 * m + 2
      OBVIOUS
    <3>2. (2 * (m + 1)) % 2 = 0 /\ (2 * (m + 1)) \div 2 = m + 1
      BY <1>2, <3>1, Zenon
    <3>3. (2 * m + 2) % 2 = 0 /\ (2 * m + 2) \div 2 = m + 1
      BY <3>1, <3>2, Zenon
    <3>4. 2 * m + 2 \in Nat /\ 2 * m + 2 \in 1..(2 * words + 1) /\ (m + 1) - 1 = m
      BY <2>1
    <3>5. PICK k \in Nat : k = 2 * m + 2 /\ k \in 1..(2 * words + 1) /\ k % 2 = 0
                           /\ k \div 2 = m + 1
      BY <3>3, <3>4, Zenon
    <3> QED BY <3>4, <3>5
  <2>3. ws[k] = IF k % 2 = 1 THEN L((k - 1) \div 2) ELSE L((k \div 2) - 1) * s(k \div 2)
    BY <2>2, Zenon
  <2> HIDE DEF L, s, ws
  <2> QED BY <2>2, <2>3
<1>7. \A m \in Nat : m + 1 <= words =>
         /\ ts[2 * m + 1] = Primitive("multiply_u32", s(m + 1))
         /\ ts[2 * m + 2] = Primitive("add_u32", L(m + 1) % s(m + 1))
  <2>1. SUFFICES ASSUME NEW m \in Nat, m + 1 <= words
                 PROVE  /\ ts[2 * m + 1] = Primitive("multiply_u32", s(m + 1))
                        /\ ts[2 * m + 2] = Primitive("add_u32", L(m + 1) % s(m + 1))
    OBVIOUS
  <2>2. PICK k \in Nat : k = 2 * m + 1 /\ k \in 1..(2 * words) /\ k % 2 = 1
                         /\ (k + 1) \div 2 = m + 1
    <3> HIDE DEF L, s, ws
    <3>1. (2 * m + 1) % 2 = 1 /\ ((2 * m + 1) + 1) \div 2 = m + 1
      BY <1>2, Zenon
    <3>2. 2 * m + 1 \in Nat /\ 2 * m + 1 \in 1..(2 * words)
      BY <2>1
    <3> QED BY <3>1, <3>2, Zenon
  <2>3. PICK h \in Nat : h = 2 * m + 2 /\ h \in 1..(2 * words) /\ h % 2 # 1
                         /\ h \div 2 = m + 1
    <3> HIDE DEF L, s, ws
    <3>1. m + 1 \in Nat /\ 2 * (m + 1) = 2 * m + 2
      OBVIOUS
    <3>2. (2 * (m + 1)) % 2 = 0 /\ (2 * (m + 1)) \div 2 = m + 1
      BY <1>2, <3>1, Zenon
    <3>3. (2 * m + 2) % 2 = 0 /\ (2 * m + 2) \div 2 = m + 1
      BY <3>1, <3>2, Zenon
    <3>4. 2 * m + 2 \in Nat /\ 2 * m + 2 \in 1..(2 * words)
      BY <2>1
    <3>5. PICK g \in Nat : g = 2 * m + 2 /\ g \in 1..(2 * words) /\ g % 2 = 0
                           /\ g \div 2 = m + 1
      BY <3>3, <3>4, Zenon
    <3> QED BY <3>5
  <2>4. ts[k] = IF k % 2 = 1 THEN Primitive("multiply_u32", s((k + 1) \div 2))
                ELSE Primitive("add_u32", L(k \div 2) % s(k \div 2))
    BY <2>2, Zenon DEF IsBody
  <2>5. ts[h] = IF h % 2 = 1 THEN Primitive("multiply_u32", s((h + 1) \div 2))
                ELSE Primitive("add_u32", L(h \div 2) % s(h \div 2))
    BY <2>3, Zenon DEF IsBody
  <2> HIDE DEF L, s, ws
  <2> QED BY <2>2, <2>3, <2>4, <2>5
<1>8. \A k \in 1..(2 * words) :
         \E m \in Nat : m + 1 <= words /\ (k = 2 * m + 1 \/ k = 2 * m + 2)
  <2>1. SUFFICES ASSUME NEW k \in 1..(2 * words)
                 PROVE  \E m \in Nat : m + 1 <= words /\ (k = 2 * m + 1 \/ k = 2 * m + 2)
    OBVIOUS
  <2>2. PICK h \in Nat : h = (k - 1) \div 2 /\ (k - 1 = 2 * h \/ k - 1 = 2 * h + 1)
    OBVIOUS
  <2>3. h + 1 <= words /\ (k = 2 * h + 1 \/ k = 2 * h + 2)
    BY <2>2
  <2> QED BY <2>3
<1>9. DOMAIN ws = 1..(2 * words + 1) /\ ws \in [1..(2 * words + 1) -> Nat]
  <2>1. SUFFICES ASSUME NEW k \in 1..(2 * words + 1) PROVE ws[k] \in Nat
    <3> HIDE DEF L, s
    <3> QED BY <2>1 DEF ws
  <2>2. CASE k = 2 * words + 1
    <3> HIDE DEF ws, L, s
    <3> QED BY <1>3, <1>5, <2>2
  <2>3. CASE k \in 1..(2 * words)
    <3>1. PICK m \in Nat : m + 1 <= words /\ (k = 2 * m + 1 \/ k = 2 * m + 2)
      BY <1>8, <2>3
    <3> HIDE DEF ws, L, s
    <3>2. m + 1 \in Nat /\ m <= words
      BY <3>1
    <3>3. ws[2 * m + 1] \in Nat /\ ws[2 * m + 2] \in Nat
      BY <1>3, <1>4, <1>5, <1>6, <3>1, <3>2
    <3> QED BY <3>1, <3>3
  <2> QED BY <2>2, <2>3
<1> HIDE DEF ws
<1>10. ws[1] = 0 /\ ws[2 * words + 1] = v
  <2>1. L(0) = 0 /\ L(words) = v
    BY LeadingIs
  <2>2. 2 * 0 + 1 = 1 /\ 0 <= words
    OBVIOUS
  <2> HIDE DEF L
  <2>3. ws[2 * 0 + 1] = L(0) /\ ws[2 * words + 1] = L(words)
    BY <1>5, <2>2
  <2> QED BY <2>1, <2>2, <2>3
<1>11. Len(ts) = 2 * words /\ ts \in Seq(Primitives)
  <2>1. DOMAIN ts = 1..(2 * words) /\ 2 * words \in Nat
    BY DEF IsBody
  <2>2. \A k \in 1..(2 * words) : ts[k] \in Primitives
    <3>1. SUFFICES ASSUME NEW k \in 1..(2 * words) PROVE ts[k] \in Primitives
      OBVIOUS
    <3>2. PICK m \in Nat : m + 1 <= words /\ (k = 2 * m + 1 \/ k = 2 * m + 2)
      BY <1>8
    <3>3. /\ ts[2 * m + 1] = Primitive("multiply_u32", s(m + 1)) /\ s(m + 1) \in Nat
          /\ ts[2 * m + 2] = Primitive("add_u32", L(m + 1) % s(m + 1))
          /\ L(m + 1) % s(m + 1) \in Nat
      BY <1>4, <1>7, <3>2
    <3> HIDE DEF L, s
    <3> QED BY <3>2, <3>3 DEF Primitive, Primitives
  <2>3. ts = [k \in 1..(2 * words) |-> ts[k]]
    BY <2>1 DEF IsBody
  <2>4. ts \in [1..(2 * words) -> Primitives]
    BY <2>1, <2>2, <2>3
  <2> QED BY <2>1, <2>4
<1>12. RunsThrough(ts, ws, r)
  <2>1. SUFFICES ASSUME NEW k \in 1..(2 * words)
                 PROVE  Legal(ts[k], ws[k], r) /\ ws[k + 1] = Effect(ts[k], ws[k], r)
    BY <1>11 DEF RunsThrough
  <2>2. PICK m \in Nat : m + 1 <= words /\ (k = 2 * m + 1 \/ k = 2 * m + 2)
    BY <1>8
  <2>3. PICK t \in Nat, d \in Nat, l \in Nat, h \in Nat :
          /\ t = s(m + 1) /\ d = L(m + 1) % s(m + 1) /\ l = L(m) /\ h = L(m + 1)
          /\ t \in 1..(Base - 1) /\ d \in 0..(Base - 1) /\ h = l * t + d
          /\ l * t \in Nat /\ l * t <= h /\ h < Power(Base, MaxBigits)
    <3>1. m + 1 \in Nat
      OBVIOUS
    <3> HIDE DEF L, s
    <3> QED BY <1>3, <1>4, <3>1
  <2>4. /\ ts[2 * m + 1] = Primitive("multiply_u32", t) /\ ts[2 * m + 2] = Primitive("add_u32", d)
        /\ ws[2 * m + 1] = l /\ ws[2 * m + 2] = l * t /\ ws[2 * (m + 1) + 1] = h
    <3>1. m <= words
      BY <2>2
    <3> HIDE DEF L, s
    <3>2. /\ ts[2 * m + 1] = Primitive("multiply_u32", s(m + 1))
          /\ ts[2 * m + 2] = Primitive("add_u32", L(m + 1) % s(m + 1))
      BY <1>7, <2>2
    <3>3. ws[2 * m + 1] = L(m) /\ ws[2 * m + 2] = L(m) * s(m + 1)
      BY <1>5, <1>6, <2>2, <3>1
    <3>4. ws[2 * (m + 1) + 1] = L(m + 1)
      <4>1. m + 1 \in Nat
        OBVIOUS
      <4> QED BY <1>5, <2>2, <4>1
    <3> QED BY <2>3, <3>2, <3>3, <3>4
  <2>5. CASE k = 2 * m + 1
    <3>1. k + 1 = 2 * m + 2
      BY <2>5
    <3>2. PICK c : c = Primitive("multiply_u32", t)
      OBVIOUS
    <3>3. c.op = "multiply_u32" /\ c.arg = t
      BY <3>2 DEF Primitive
    <3>4. t \in 0..(Power(Base, 2) - 1) /\ l * t < Power(Base, MaxBigits)
      <4>1. t < Base
        BY <1>0, <2>3
      <4>2. t < Power(Base, 2)
        BY <1>0, <4>1
      <4>3. l * t < Power(Base, MaxBigits)
        BY <1>0, <2>3
      <4> QED BY <1>0, <4>2, <4>3
    <3>5. Legal(c, l, r)
      BY <3>3, <3>4 DEF Legal, Subtracts
    <3>6. Effect(c, l, r) = l * t
      BY <3>3, EffectIs DEF Multiplies
    <3> QED BY <2>4, <2>5, <3>1, <3>2, <3>5, <3>6
  <2>6. CASE k = 2 * m + 2
    <3>1. k + 1 = 2 * (m + 1) + 1
      BY <2>6
    <3>2. PICK c : c = Primitive("add_u32", d)
      OBVIOUS
    <3>3. c.op = "add_u32" /\ c.arg = d
      BY <3>2 DEF Primitive
    <3>4. Legal(c, l * t, r)
      BY <2>3, <3>3 DEF Legal, Multiplies, Subtracts
    <3>5. Effect(c, l * t, r) = l * t + c.arg
      BY <3>3, EffectIs
    <3>7. Effect(c, l * t, r) = h
      BY <2>3, <3>3, <3>5
    <3> QED BY <2>4, <2>6, <3>1, <3>2, <3>4, <3>7
  <2> QED BY <2>2, <2>5, <2>6
<1> QED BY <1>9, <1>10, <1>11, <1>12 DEF Runs

LEMMA DecimalStringRuns ==
  ASSUME NEW v \in Nat, v < Power(Base, MaxBigits), NEW w \in Nat, NEW r
  PROVE  Runs(DecimalString(v), w, v, r)
<1> DEFINE digits == CHOOSE d \in 0..(MaxBigits * BigitBits) : IsLength(d, v, 10)
           words  == (digits + WordDigits - 1) \div WordDigits
           ts == [k \in 1..(2 * words) |->
                   IF k % 2 = 1
                   THEN Primitive("multiply_u32", WordScale((k + 1) \div 2, digits))
                   ELSE Primitive("add_u32", Leading(v, k \div 2, digits)
                                               % WordScale(k \div 2, digits))]
<1>1. PICK m \in Nat : m = MaxBigits * BigitBits /\ v < Power(10, m)
  <2>1. PICK t \in Nat : t = 2 /\ t >= 1
    OBVIOUS
  <2>2. MaxBigits \in Nat /\ BigitBits \in Nat /\ MaxBigits * BigitBits \in Nat
        /\ MaxBigits * BigitBits = BigitBits * MaxBigits
    BY WidthAssumption
  <2>3. \A n \in Nat : Power(Power(t, BigitBits), n) = Power(t, BigitBits * n)
    BY <2>1, <2>2, PowerPower
  <2>4. PICK n \in Nat : n = MaxBigits * BigitBits /\ Power(Base, MaxBigits) = Power(2, n)
    BY <2>1, <2>2, <2>3 DEF Base
  <2>5. PICK f \in Nat, p \in Nat : /\ p = Power(2, n) /\ Power(10, n) = f * p /\ f >= 1
    BY TenIs
  <2>6. f * p >= p /\ f * p \in Nat
    BY <2>5
  <2> QED BY <2>4, <2>5, <2>6
<1>2. \E d \in 0..(MaxBigits * BigitBits) : IsLength(d, v, 10)
  <2>1. PICK b \in Nat : b = 10 /\ b >= 2
    OBVIOUS
  <2>2. \A n \in Nat : \A u \in Nat : u < Power(b, n) => \E k \in 0..n : IsLength(k, u, b)
    BY <2>1, LengthExists
  <2>3. v < Power(b, m)
    BY <1>1, <2>1
  <2>4. \E k \in 0..m : IsLength(k, v, b)
    BY <2>2, <2>3
  <2> QED BY <1>1, <2>1, <2>4
<1>3. digits \in 0..(MaxBigits * BigitBits) /\ IsLength(digits, v, 10)
  BY <1>2
<1>4. DecimalString(v) = (<<Primitive("zero", 0)>> \o ts) \o <<Primitive("clamp", 0)>>
  BY DEF DecimalString, WordEnd, WordScale, Leading
<1>5. digits \in Nat /\ v < Power(10, digits)
  BY <1>1, <1>3 DEF IsLength
<1> HIDE DEF digits
<1>6. words \in Nat /\ words * WordDigits >= digits
  <2>1. PICK d \in Nat : d = WordDigits /\ d >= 1
    BY ScaleAssumption
  <2>2. PICK n \in Int : n = digits + d - 1 /\ n >= 0
    BY <1>5, <2>1
  <2>3. n \div d \in Int /\ n \div d >= 0 /\ n = (n \div d) * d + (n % d) /\ n % d < d
        /\ n % d \in Int
    BY <2>1, <2>2, Division
  <2>4. PICK q \in Nat, h \in Int : q = n \div d /\ n = q * d + h /\ h < d
    BY <2>3
  <2>5. q * d \in Int
    BY <2>1
  <2>6. words = q
    BY <2>1, <2>2, <2>4
  <2> QED BY <1>5, <2>1, <2>2, <2>4, <2>5, <2>6
<1> HIDE DEF words
<1>7. Runs(ts, 0, v, r)
  <2>1. IsBody(ts, v, digits, words)
    BY DEF IsBody
  <2> HIDE DEF ts
  <2> QED BY <1>5, <1>6, <2>1, DecimalBodyRuns
<1> HIDE DEF ts
<1>8. Runs(<<Primitive("zero", 0)>>, w, 0, r)
  <2>1. PICK c : c = Primitive("zero", 0)
    OBVIOUS
  <2>2. c.op = "zero" /\ c.arg = 0 /\ c \in Primitives
    BY <2>1 DEF Primitive, Primitives
  <2>3. Legal(c, w, r) /\ Effect(c, w, r) = 0
    BY <2>2, EffectIs DEF Legal, Multiplies, Subtracts
  <2> QED BY <2>1, <2>2, <2>3, RunsOne
<1>9. Runs(<<Primitive("clamp", 0)>>, v, v, r)
  <2>1. PICK c : c = Primitive("clamp", 0)
    OBVIOUS
  <2>2. c.op = "clamp" /\ c.arg = 0 /\ c \in Primitives
    BY <2>1 DEF Primitive, Primitives
  <2>3. Legal(c, v, r) /\ Effect(c, v, r) = v
    BY <2>2, EffectIs DEF Legal, Multiplies, Subtracts
  <2> QED BY <2>1, <2>2, <2>3, RunsOne
<1>10. Runs(<<Primitive("zero", 0)>> \o ts, w, v, r)
  BY <1>7, <1>8, RunsOn
<1>11. Runs((<<Primitive("zero", 0)>> \o ts) \o <<Primitive("clamp", 0)>>, w, v, r)
  BY <1>9, <1>10, RunsOn
<1> QED BY <1>4, <1>11

-----------------------------------------------------------------------------
(***************************************************************************)
(* Plans: what is still to do of a call leads to its result.               *)
(***************************************************************************)

(* The result of call c on the numbers x and y, and its quotient.          *)
Outcome(c, x, y) ==
  CASE c.op = "zero" -> 0
    [] c.op = "set" -> y
    [] c.op \in {"set_u32", "set_u64", "set_decimal_string"} -> c.arg
    [] c.op = "set_pow10" -> Power(10, c.arg)
    [] c.op = "shift_left" -> x * Power(2, c.arg)
    [] c.op \in {"multiply_u32", "multiply_u64"} -> x * c.arg
    [] c.op = "multiply_pow10" -> x * Power(10, c.arg)
    [] c.op = "add_u32" -> x + c.arg
    [] c.op = "add" -> x + y
    [] c.op = "subtract" -> x - y
    [] c.op = "subtract_left_shifted" -> x - y * Power(2, c.arg)
    [] c.op = "divmod" -> x % y

Quotient(c, x, y) == IF c.op = "divmod" THEN x \div y ELSE 0

(* The operations that are done by others, and the others.                 *)
Composite == {"set_pow10", "set_decimal_string", "multiply_pow10", "divmod"}

(* The number is w, the operations ts are to be done of call c, that was   *)
(* made on x and the second number r, and the quotient is q so far: only   *)
(* primitive operations are left, ...                                      *)
OnCourse(w, ts, c, x, r, q) ==
  Runs(ts, w, Outcome(c, x, Value(r)), r) /\ q = Quotient(c, x, Value(r))

(* ... or a power of ten is to be multiplied with, after 1 is set, ...     *)
Powering(ts, c, q) ==
  /\ c.op = "set_pow10" /\ q = 0 /\ FitsWithRoom(Power(10, c.arg))
  /\ \/ ts = <<c>>
     \/ ts = <<Primitive("set_u32", 1), Primitive("multiply_pow10", c.arg)>>

(* ... or now, ...                                                         *)
Multiplying(w, ts, c, x, r, q) ==
  /\ c.op \in {"set_pow10", "multiply_pow10"} /\ q = 0
  /\ ts = <<Primitive("multiply_pow10", c.arg)>>
  /\ w * Power(10, c.arg) = Outcome(c, x, Value(r))
  /\ FitsWithRoom(w * Power(10, c.arg))

(* ... or a string is to be read, ...                                      *)
Reading(ts, c, q) ==
  c.op = "set_decimal_string" /\ q = 0 /\ Fits(c.arg) /\ ts = <<c>>

(* ... or a division goes on with w, or with what it is about to leave.    *)
Dividing(w, ts, c, x, r, q) ==
  /\ c.op = "divmod" /\ r.n > 0 /\ FitsWithRoom(x)
  /\ \/ ts = <<c>> /\ q * Value(r) + w = x
     \/ \E s \in Nat :
          LET first == Primitive("subtract_left_shifted", s)
          IN  /\ ts = <<first, c>> /\ Legal(first, w, r)
              /\ q * Value(r) + Effect(first, w, r) = x

Plan(w, ts, c, x, r, q) ==
  \/ OnCourse(w, ts, c, x, r, q)
  \/ Powering(ts, c, q)
  \/ Multiplying(w, ts, c, x, r, q)
  \/ Reading(ts, c, q)
  \/ Dividing(w, ts, c, x, r, q)

LEMMA TypedIs ==
  ASSUME NEW c, Typed(c)
  PROVE  /\ c = Primitive(c.op, c.arg) /\ c.arg \in Nat /\ c.op # "none"
         /\ c.op \in Composite \/ c \in Primitives
         /\ c.op \in {"zero", "set", "add", "subtract", "divmod"} => c.arg = 0
         /\ c.op \in {"set_u32", "multiply_u32", "add_u32"} => c.arg \in 0..(Base - 1)
         /\ c.op \in {"set_u64", "multiply_u64"} => c.arg \in 0..(Power(Base, 2) - 1)
<1>1. Base \in Nat /\ Power(Base, 2) \in Nat
  BY BaseNat, BaseSquare
<1>2. CASE c \in [op : {"zero", "set", "add", "subtract", "divmod"}, arg : {0}]
  BY <1>2 DEF Primitive, Primitives, Composite
<1>3. CASE c \in [op : {"set_u32", "multiply_u32", "add_u32"}, arg : 0..(Base - 1)]
  BY <1>1, <1>3 DEF Primitive, Primitives, Composite
<1>4. CASE c \in [op : {"set_u64", "multiply_u64"}, arg : 0..(Power(Base, 2) - 1)]
  BY <1>1, <1>4 DEF Primitive, Primitives, Composite
<1>5. CASE c \in [op : {"set_pow10", "set_decimal_string", "shift_left", "multiply_pow10",
                        "subtract_left_shifted"}, arg : Nat]
  BY <1>5 DEF Primitive, Primitives, Composite
<1> QED BY <1>2, <1>3, <1>4, <1>5 DEF Typed

(* The result of a primitive operation is what it does.                    *)
LEMMA OutcomeIs ==
  ASSUME NEW c, NEW x \in Nat, NEW r \in Numbers
  PROVE  /\ Typed(c) /\ c \in Primitives => Outcome(c, x, Value(r)) = Effect(c, x, r)
         /\ c.op = "set_pow10" => Outcome(c, x, Value(r)) = Power(10, c.arg)
         /\ c.op = "set_decimal_string" => Outcome(c, x, Value(r)) = c.arg
         /\ c.op = "multiply_pow10" => Outcome(c, x, Value(r)) = x * Power(10, c.arg)
         /\ c.op = "divmod" => Outcome(c, x, Value(r)) = x % Value(r)

<1>1. ASSUME Typed(c), c \in Primitives PROVE Outcome(c, x, Value(r)) = Effect(c, x, r)
  <2>1. c.op \in {"zero", "set", "add", "subtract", "set_u32", "multiply_u32", "add_u32",
                  "set_u64", "multiply_u64", "shift_left", "subtract_left_shifted"}
    BY <1>1 DEF Typed, Primitives
  <2>2. ASSUME c.op = "subtract" PROVE Value(r) * Power(2, c.arg) = Value(r)
    <3>1. c.arg = 0
      BY <1>1, <2>2, TypedIs
    <3>2. Power(2, 0) = 1 /\ Value(r) \in Nat
      BY PowerIs, ValueIs
    <3> QED BY <3>1, <3>2
  <2>3. PICK v, p : v = Value(r) /\ p = Value(r) * Power(2, c.arg)
    OBVIOUS
  <2>4. \/ c.op = "zero" \/ c.op = "set" \/ c.op = "add" \/ c.op = "subtract"
        \/ c.op \in {"set_u32", "set_u64"} \/ c.op \in Multiplies
        \/ c.op = "add_u32" \/ c.op = "shift_left" \/ c.op = "subtract_left_shifted"
    BY <2>1 DEF Multiplies
  <2> QED BY <2>2, <2>3, <2>4 DEF Outcome, Effect, Multiplies, Subtracts
<1>2. c.op = "set_pow10" => Outcome(c, x, Value(r)) = Power(10, c.arg)
  BY DEF Outcome
<1>3. c.op = "set_decimal_string" => Outcome(c, x, Value(r)) = c.arg
  BY DEF Outcome
<1>4. c.op = "multiply_pow10" => Outcome(c, x, Value(r)) = x * Power(10, c.arg)
  BY DEF Outcome
<1>5. c.op = "divmod" => Outcome(c, x, Value(r)) = x % Value(r)
  BY DEF Outcome
<1> QED BY <1>1, <1>2, <1>3, <1>4, <1>5

(* A call that its caller may make is one whose plan leads to its result.  *)
LEMMA CallsPlan ==
  ASSUME NEW c, Typed(c), NEW x \in Numbers, WellFormed(x), rhs \in Numbers, Clamped(rhs),
         Allowed(c, x)
  PROVE  Plan(Value(x), <<c>>, c, Value(x), rhs, 0)
<1>1. /\ c = Primitive(c.op, c.arg) /\ c.arg \in Nat
      /\ c.op \in Composite \/ c \in Primitives
  BY TypedIs
<1>2. /\ Value(x) \in Nat /\ Value(x) < Power(Base, x.n) /\ Value(x) < Power(Base, MaxBigits)
      /\ x.n \in Nat /\ x.n <= MaxBigits /\ Value(rhs) \in Nat /\ MaxBigits - 1 \in Nat
      /\ Power(Base, MaxBigits) \in Nat /\ Clamped(x) /\ rhs.n \in Nat
  <2>1. Value(x) = Full(x) /\ Full(x) < Power(Base, MaxBigits)
    BY ValueIs DEF WellFormed
  <2>2. MaxBigits - 1 \in Nat /\ MaxBigits \in Nat
    BY WidthAssumption
  <2> QED BY <2>1, <2>2, ValueIs, DigitsAre, Places DEF WellFormed
<1>3. x.n < MaxBigits => FitsWithRoom(Value(x))
  <2>1. SUFFICES ASSUME x.n < MaxBigits PROVE Value(x) < Power(Base, MaxBigits - 1)
    BY DEF FitsWithRoom
  <2>2. x.n <= MaxBigits - 1
    BY <1>2, <2>1, WidthAssumption
  <2>3. /\ Power(Base, x.n) <= Power(Base, MaxBigits - 1)
        /\ Power(Base, x.n) \in Nat /\ Power(Base, MaxBigits - 1) \in Nat
    BY <1>2, <2>2, PlacesGrow, Places
  <2> QED BY <1>2, <2>3
<1>4. CASE c.op \in Composite
  <2>1. CASE c.op = "set_pow10"
    <3>1. FitsWithRoom(Power(10, c.arg))
      BY <2>1 DEF Allowed
    <3> QED BY <2>1, <3>1 DEF Plan, Powering
  <2>2. CASE c.op = "set_decimal_string"
    <3>1. Fits(c.arg)
      BY <2>2 DEF Allowed
    <3> QED BY <2>2, <3>1 DEF Plan, Reading
  <2>3. CASE c.op = "multiply_pow10"
    <3>1. FitsWithRoom(Value(x) * Power(10, c.arg))
      BY <2>3 DEF Allowed
    <3>2. <<c>> = <<Primitive("multiply_pow10", c.arg)>>
      BY <1>1, <2>3
    <3> QED BY <1>2, <2>3, <3>1, <3>2, OutcomeIs DEF Plan, Multiplying
  <2>4. CASE c.op = "divmod"
    <3>1. rhs.n > 0 /\ x.n < MaxBigits
      BY <2>4 DEF Allowed
    <3>2. 0 * Value(rhs) + Value(x) = Value(x)
      BY <1>2
    <3> QED BY <1>3, <2>4, <3>1, <3>2 DEF Plan, Dividing
  <2> QED BY <1>4, <2>1, <2>2, <2>3, <2>4 DEF Composite
<1>5. CASE c \in Primitives
  <2>1. c.op \in {"zero", "set", "add", "subtract", "set_u32", "multiply_u32", "add_u32",
                  "set_u64", "multiply_u64", "shift_left", "subtract_left_shifted"}
    BY <1>5 DEF Typed, Primitives
  <2>2. PICK w \in Nat : w = Value(x)
    BY <1>2
  <2>3. Base \in Nat /\ Power(Base, 2) \in Nat /\ Base <= Power(Base, 2)
    <3>1. Base * Base >= Base
      BY BaseNat
    <3> QED BY <3>1, BaseNat, BaseSquare
  <2>4. Legal(c, w, rhs)
    <3>1. ASSUME c.op \in {"set_u32", "set_u64"} PROVE c.arg \in 0..(Power(Base, 2) - 1)
      BY <1>1, <2>3, <3>1, TypedIs
    <3>2. ASSUME c.op \in Multiplies
          PROVE  c.arg \in 0..(Power(Base, 2) - 1) /\ w * c.arg < Power(Base, MaxBigits)
      <4>1. c.arg \in 0..(Power(Base, 2) - 1)
        BY <1>1, <2>3, <3>2, TypedIs DEF Multiplies
      <4>2. Fits(Value(x) * c.arg)
        BY <3>2 DEF Allowed, Multiplies
      <4> QED BY <2>2, <4>1, <4>2 DEF Fits
    <3>3. ASSUME c.op = "add_u32"
          PROVE  c.arg \in 0..(Base - 1) /\ w + c.arg < Power(Base, MaxBigits)
      <4>1. Fits(Value(x) + c.arg)
        BY <3>3 DEF Allowed
      <4> QED BY <2>2, <3>3, <4>1, TypedIs DEF Fits
    <3>4. ASSUME c.op = "add" PROVE rhs.n < MaxBigits /\ w < Power(Base, MaxBigits - 1)
      <4>1. x.n < MaxBigits /\ rhs.n < MaxBigits
        BY <3>4 DEF Allowed
      <4> QED BY <1>3, <2>2, <4>1 DEF FitsWithRoom
    <3>5. ASSUME c.op = "subtract" PROVE c.arg = 0
      BY <3>5, TypedIs
    <3>6. ASSUME c.op \in Subtracts
          PROVE  /\ Shiftable(rhs, c.arg) /\ ShiftedLength(rhs, c.arg) <= MaxBigits
                 /\ Value(rhs) * Power(2, c.arg) <= w
      <4>1. c.op = "subtract" => Subtractable(x, 0)
        BY DEF Allowed
      <4>2. c.op = "subtract_left_shifted" => Subtractable(x, c.arg)
        BY DEF Allowed
      <4>3. Subtractable(x, c.arg)
        BY <3>5, <3>6, <4>1, <4>2 DEF Subtracts
      <4> QED BY <2>2, <4>3 DEF Subtractable
    <3>7. ASSUME c.op = "shift_left", NEW y \in Numbers, Clamped(y), Value(y) = w
          PROVE  Shiftable(y, c.arg)
      <4>1. Shiftable(x, c.arg)
        BY <3>7 DEF Allowed
      <4>2. y.n = x.n
        BY <1>2, <2>2, <3>7, SameLength
      <4> QED BY <4>1, <4>2 DEF Shiftable
    <3> QED BY <1>1, <3>1, <3>2, <3>3, <3>4, <3>5, <3>6, <3>7 DEF Legal
  <2>5. Effect(c, w, rhs) \in Nat
    <3>1. Power(2, c.arg) \in Nat
      BY <1>1, PowersOfTwo
    <3>2. CASE c.op \in Subtracts
      <4>1. Value(rhs) * Power(2, c.arg) <= w
        BY <2>4, <3>2 DEF Legal
      <4>2. Value(rhs) * Power(2, c.arg) \in Nat
        BY <1>2, <3>1
      <4>3. Effect(c, w, rhs) = w - Value(rhs) * Power(2, c.arg)
        BY <3>2, EffectIs
      <4> QED BY <4>1, <4>2, <4>3
    <3>3. CASE c.op = "shift_left"
      <4>1. Effect(c, w, rhs) = w * Power(2, c.arg)
        BY <3>3, EffectIs
      <4> QED BY <3>1, <4>1
    <3>4. CASE c.op \in Multiplies
      <4>1. Effect(c, w, rhs) = w * c.arg
        BY <3>4, EffectIs
      <4> QED BY <1>1, <4>1
    <3>5. CASE c.op \in {"zero", "set", "add", "set_u32", "set_u64", "add_u32"}
      <4>1. /\ c.op = "zero" => Effect(c, w, rhs) = 0
            /\ c.op = "set" => Effect(c, w, rhs) = Value(rhs)
            /\ c.op \in {"set_u32", "set_u64"} => Effect(c, w, rhs) = c.arg
            /\ c.op = "add_u32" => Effect(c, w, rhs) = w + c.arg
            /\ c.op = "add" => Effect(c, w, rhs) = w + Value(rhs)
        BY EffectIs
      <4> QED BY <1>1, <1>2, <3>5, <4>1
    <3> QED BY <2>1, <3>2, <3>3, <3>4, <3>5 DEF Multiplies, Subtracts
  <2>6. PICK z \in Nat : z = Effect(c, w, rhs)
    BY <2>5
  <2>7. Runs(<<c>>, w, z, rhs)
    BY <1>5, <2>4, <2>6, RunsOne
  <2>8. z = Outcome(c, w, Value(rhs))
    BY <1>5, <2>6, OutcomeIs
  <2>9. 0 = Quotient(c, w, Value(rhs))
    BY <2>1 DEF Quotient
  <2> QED BY <2>2, <2>7, <2>8, <2>9 DEF Plan, OnCourse
<1> QED BY <1>1, <1>4, <1>5

(* The operations of a plan are legal as they come.                        *)
LEMMA PlanBegins ==
  ASSUME NEW w \in Nat, NEW ts, ts # <<>>, Head(ts).op \notin Composite, NEW c, Typed(c),
         NEW x \in Nat, NEW r \in Numbers, NEW q, Plan(w, ts, c, x, r, q)
  PROVE  /\ Legal(Head(ts), w, r)
         /\ Plan(Effect(Head(ts), w, r), Tail(ts), c, x, r, q)
<1>1. CASE OnCourse(w, ts, c, x, r, q)
  <2>1. /\ Legal(Head(ts), w, r)
        /\ Runs(Tail(ts), Effect(Head(ts), w, r), Outcome(c, x, Value(r)), r)
    BY <1>1, RunsStep, Zenon DEF OnCourse
  <2> QED BY <1>1, <2>1, Zenon DEF Plan, OnCourse
<1>2. CASE Powering(ts, c, q)
  <2>1. PICK one, ten : one = Primitive("set_u32", 1) /\ ten = Primitive("multiply_pow10", c.arg)
    OBVIOUS
  <2>2. ts # <<c>>
    <3>1. Head(<<c>>) = c
      OBVIOUS
    <3> QED BY <1>2, <3>1 DEF Powering, Composite
  <2>3. ts = <<one, ten>>
    BY <1>2, <2>1, <2>2 DEF Powering
  <2>4. Head(ts) = one /\ Tail(ts) = <<ten>>
    BY <2>3
  <2>5. one.op = "set_u32" /\ one.arg = 1
    BY <2>1 DEF Primitive
  <2>6. 1 \in 0..(Power(Base, 2) - 1)
    <3>1. Base * Base >= 4
      BY BaseNat
    <3> QED BY <3>1, BaseSquare
  <2>7. Legal(one, w, r)
    BY <2>5, <2>6 DEF Legal, Multiplies, Subtracts
  <2>8. Effect(one, w, r) = 1
    BY <2>5, EffectIs
  <2>9. Outcome(c, x, Value(r)) = Power(10, c.arg)
    BY <1>2, OutcomeIs DEF Powering
  <2>10. 1 * Power(10, c.arg) = Power(10, c.arg)
    <3>1. c.arg \in Nat
      BY TypedIs
    <3>2. Power(10, c.arg) \in Nat
      BY <3>1, TenIs
    <3> QED BY <3>2
  <2>11. Multiplying(1, <<ten>>, c, x, r, q)
    BY <1>2, <2>1, <2>9, <2>10 DEF Powering, Multiplying
  <2> QED BY <2>4, <2>7, <2>8, <2>11 DEF Plan
<1>3. CASE Multiplying(w, ts, c, x, r, q)
  <2>1. Head(<<Primitive("multiply_pow10", c.arg)>>).op = "multiply_pow10"
    BY DEF Primitive
  <2> QED BY <1>3, <2>1 DEF Multiplying, Composite
<1>4. CASE Reading(ts, c, q)
  <2>1. Head(<<c>>) = c
    OBVIOUS
  <2> QED BY <1>4, <2>1 DEF Reading, Composite
<1>5. CASE Dividing(w, ts, c, x, r, q)
  <2>1. ts # <<c>>
    <3>1. Head(<<c>>) = c
      OBVIOUS
    <3> QED BY <1>5, <3>1 DEF Dividing, Composite
  <2>2. PICK s \in Nat : LET first == Primitive("subtract_left_shifted", s)
                         IN  /\ ts = <<first, c>> /\ Legal(first, w, r)
                             /\ q * Value(r) + Effect(first, w, r) = x
    BY <1>5, <2>1 DEF Dividing
  <2>3. PICK first : first = Primitive("subtract_left_shifted", s)
    OBVIOUS
  <2>4. ts = <<first, c>> /\ Legal(first, w, r) /\ q * Value(r) + Effect(first, w, r) = x
    BY <2>2, <2>3
  <2>5. Head(ts) = first /\ Tail(ts) = <<c>>
    BY <2>4
  <2>6. Dividing(Effect(first, w, r), <<c>>, c, x, r, q)
    BY <1>5, <2>4 DEF Dividing
  <2> QED BY <2>4, <2>5, <2>6 DEF Plan
<1> QED BY <1>1, <1>2, <1>3, <1>4, <1>5 DEF Plan

(* When nothing is left to do, the number is the result.                   *)
LEMMA PlanEnds ==
  ASSUME NEW w \in Nat, NEW c, NEW x, NEW r, NEW q, Plan(w, <<>>, c, x, r, q)
  PROVE  w = Outcome(c, x, Value(r)) /\ q = Quotient(c, x, Value(r))
<1>1. <<c>> # <<>> /\ \A a, b : <<a, b>> # <<>> /\ <<a>> # <<>>
  OBVIOUS
<1>2. OnCourse(w, <<>>, c, x, r, q)
  BY <1>1 DEF Plan, Powering, Multiplying, Reading, Dividing
<1>3. Len(<<>>) + 1 = 1
  OBVIOUS
<1>4. w = Outcome(c, x, Value(r))
  BY <1>2, <1>3 DEF OnCourse, Runs
<1> QED BY <1>2, <1>4 DEF OnCourse

(* An operation that others do is the last one left.                       *)
LEMMA PlanTurns ==
  ASSUME NEW w \in Nat, NEW ts, ts # <<>>, Head(ts).op \in Composite, NEW c, Typed(c),
         NEW x \in Nat, NEW r \in Numbers, NEW q, Plan(w, ts, c, x, r, q)
  PROVE  /\ Tail(ts) = <<>> /\ ts = <<Primitive(Head(ts).op, c.arg)>>
         /\ Head(ts).op = "set_pow10" => Powering(<<c>>, c, q) /\ Head(ts) = c
         /\ Head(ts).op = "multiply_pow10" => Multiplying(w, ts, c, x, r, q)
         /\ Head(ts).op = "set_decimal_string" => Reading(<<c>>, c, q) /\ Head(ts) = c
         /\ Head(ts).op = "divmod" => /\ Head(ts) = c /\ ts = <<c>>
                                      /\ c.op = "divmod" /\ r.n > 0 /\ FitsWithRoom(x)
                                      /\ q * Value(r) + w = x
<1>0. c = Primitive(c.op, c.arg) /\ \A o, a : Primitive(o, a).op = o
  BY TypedIs DEF Primitive
<1>1. \A a : Head(<<a>>) = a /\ Tail(<<a>>) = <<>>
  OBVIOUS
<1>2. \A a, b : Head(<<a, b>>) = a
  OBVIOUS
<1>3. ~OnCourse(w, ts, c, x, r, q)
  <2>1. SUFFICES ASSUME OnCourse(w, ts, c, x, r, q) PROVE FALSE
    OBVIOUS
  <2>2. Head(ts) \in Primitives
    BY <2>1, RunsStep DEF OnCourse
  <2> QED BY <2>2 DEF Primitives, Composite
<1>4. CASE Powering(ts, c, q)
  <2>1. ts = <<c>>
    <3>1. Head(<<Primitive("set_u32", 1), Primitive("multiply_pow10", c.arg)>>).op = "set_u32"
      BY <1>0, <1>2
    <3> QED BY <1>4, <3>1 DEF Powering, Composite
  <2>2. Head(ts) = c /\ Tail(ts) = <<>> /\ c.op = "set_pow10"
    BY <1>1, <1>4, <2>1 DEF Powering
  <2> QED BY <1>0, <1>4, <2>1, <2>2
<1>5. CASE Multiplying(w, ts, c, x, r, q)
  <2>1. ts = <<Primitive("multiply_pow10", c.arg)>>
    BY <1>5 DEF Multiplying
  <2>2. Head(ts) = Primitive("multiply_pow10", c.arg) /\ Tail(ts) = <<>>
    BY <1>1, <2>1
  <2>3. Head(ts).op = "multiply_pow10"
    BY <1>0, <2>2
  <2> QED BY <1>5, <2>1, <2>2, <2>3
<1>6. CASE Reading(ts, c, q)
  <2>1. ts = <<c>> /\ c.op = "set_decimal_string"
    BY <1>6 DEF Reading
  <2>2. Head(ts) = c /\ Tail(ts) = <<>>
    BY <1>1, <2>1
  <2> QED BY <1>0, <1>6, <2>1, <2>2
<1>7. CASE Dividing(w, ts, c, x, r, q)
  <2>1. ts = <<c>>
    <3>1. \A s : Head(<<Primitive("subtract_left_shifted", s), c>>).op = "subtract_left_shifted"
      BY <1>0, <1>2
    <3> QED BY <1>7, <3>1 DEF Dividing, Composite
  <2>2. Head(ts) = c /\ Tail(ts) = <<>> /\ c.op = "divmod"
    BY <1>1, <1>7, <2>1 DEF Dividing
  <2>3. r.n > 0 /\ FitsWithRoom(x)
    BY <1>7 DEF Dividing
  <2>4. q * Value(r) + w = x
    <3>1. \A s : <<Primitive("subtract_left_shifted", s), c>> # <<c>>
      OBVIOUS
    <3> QED BY <1>7, <2>1, <3>1 DEF Dividing
  <2> QED BY <1>0, <2>1, <2>2, <2>3, <2>4
<1> QED BY <1>3, <1>4, <1>5, <1>6, <1>7 DEF Plan

-----------------------------------------------------------------------------
(***************************************************************************)
(* The invariant, and the steps that keep it.                              *)
(***************************************************************************)

(* What is left of the call leads from the number that lhs stands for to   *)
(* the result.                                                             *)
Course ==
  Typed(called) /\ Plan(Standing, After, called, Value(held), rhs, quotient)

Client ==
  /\ held \in Numbers /\ WellFormed(held) /\ quotient \in Nat /\ calls \in Nat
  /\ pc = "idle" => held = lhs

IInv == Machine /\ Client /\ (pc # "idle" => Course)

LEMMA CourseKept ==
  ASSUME IInv, pc # "idle", Machine', pc' # "idle", UNCHANGED <<called, held, rhs, calls>>,
         quotient' \in Nat, Plan(Standing', After', called, Value(held), rhs, quotient')
  PROVE  IInv'
<1>1. Course' /\ Client'
  BY DEF IInv, Course, Client
<1> QED BY <1>1 DEF IInv

LEMMA CourseIs ==
  ASSUME IInv, pc # "idle"
  PROVE  /\ Machine /\ Typed(called) /\ Standing \in Nat /\ Value(held) \in Nat
         /\ rhs \in Numbers /\ WellFormed(rhs) /\ Clamped(rhs) /\ Value(rhs) \in Nat
         /\ rhs.n \in Nat /\ quotient \in Nat /\ lhs \in Numbers
         /\ Plan(Standing, After, called, Value(held), rhs, quotient)
         /\ pc = "next" => /\ After = todo /\ Standing = Value(lhs)
                           /\ WellFormed(lhs) /\ Clamped(lhs)
<1>1. Machine /\ Client /\ Course
  BY DEF IInv
<1>2. pc = "next" => After = todo
  BY LoopsAre DEF After
<1>3. held \in Numbers /\ quotient \in Nat
  BY <1>1 DEF Client
<1>4. /\ Standing \in Nat /\ rhs \in Numbers /\ WellFormed(rhs) /\ rhs.n \in Nat
      /\ lhs \in Numbers /\ (pc = "next" => WellFormed(lhs) /\ Standing = Value(lhs))
  BY <1>1, MachineIs
<1>5. Value(held) \in Nat /\ Value(rhs) \in Nat
  BY <1>3, <1>4, ValueIs
<1> QED BY <1>1, <1>2, <1>3, <1>4, <1>5 DEF Course, WellFormed

LEMMA LoopsKeep ==
  ASSUME IInv, LoopStep
  PROVE  IInv' /\ pc # "idle" /\ pc' # "idle" /\ UNCHANGED <<called, held, rhs, quotient>>
<1>1. Machine
  BY DEF IInv
<1>2. Machine' /\ Standing' = Standing /\ After' = After /\ pc \in Loops
  BY <1>1, LoopsContinue DEF Continues
<1>3. pc # "idle" /\ pc' # "idle" /\ UNCHANGED <<called, held, rhs, quotient, calls>>
  BY <1>2, Zenon
     DEF LoopStep, MultiplyBigit, EndMultiply, PushCarry, EndPush, ClampBigit, EndClamp,
         AddBigit, EndAdd, AddCarry, EndCarry, SubtractBigit, EndSubtract, SubtractBorrow,
         EndBorrow, Go, Finish, Loops
<1>4. /\ quotient \in Nat
      /\ Plan(Standing, After, called, Value(held), rhs, quotient)
  BY <1>3, CourseIs
<1>5. quotient' \in Nat /\ Plan(Standing', After', called, Value(held), rhs, quotient')
  BY <1>2, <1>3, <1>4
<1> QED BY <1>2, <1>3, <1>5, CourseKept

LEMMA BeginningKeeps ==
  ASSUME IInv, Beginning
  PROVE  /\ IInv' /\ pc # "idle" /\ pc' # "idle" /\ UNCHANGED <<called, held, rhs, quotient>>
         /\ Legal(Head(todo), Standing, rhs)
<1>1. /\ pc = "next" /\ pc' # "idle" /\ todo # <<>> /\ UNCHANGED <<called, held, rhs, quotient, calls>>
      /\ Head(todo).op \in {"zero", "set", "set_u32", "set_u64", "multiply_u32",
                            "multiply_u64", "shift_left", "clamp", "add_u32", "add",
                            "subtract", "subtract_left_shifted"}
  BY Zenon DEF Beginning, Set, CallMultiply, CallShiftLeft, CallClamp, CallAddU32, CallAdd,
               CallSubtract, Go, Finish, Doing
<1>2. pc # "idle" /\ Head(todo).op \notin Composite
  BY <1>1 DEF Composite
<1>3. /\ Machine /\ Typed(called) /\ Standing \in Nat /\ Value(held) \in Nat
      /\ rhs \in Numbers /\ quotient \in Nat
      /\ Plan(Standing, todo, called, Value(held), rhs, quotient)
  BY <1>1, <1>2, CourseIs
<1>4. /\ Legal(Head(todo), Standing, rhs)
      /\ Plan(Effect(Head(todo), Standing, rhs), Tail(todo), called, Value(held), rhs, quotient)
  BY <1>1, <1>2, <1>3, PlanBegins, Zenon
<1>5. /\ Machine' /\ Standing' = Effect(Head(todo), Standing, rhs) /\ After' = Tail(todo)
  BY <1>3, <1>4, PrimitivesBegin DEF Begins
<1>6. quotient' \in Nat /\ Plan(Standing', After', called, Value(held), rhs, quotient')
  BY <1>1, <1>3, <1>4, <1>5
<1> QED BY <1>1, <1>2, <1>4, <1>5, <1>6, CourseKept

LEMMA InsteadKeeps ==
  ASSUME Machine, pc = "next", UNCHANGED <<lhs, rhs, pc, i, carry>>
  PROVE  Machine' /\ Standing' = Standing /\ After' = todo'
<1>1. pc \notin Loops /\ pc' = pc
  BY LoopsAre
<1>2. After' = todo'
  BY <1>1 DEF After
<1>3. Standing' = Standing /\ Standing = Full(lhs)
  BY DEF Standing, Stands
<1> QED BY <1>1, <1>2, <1>3 DEF Machine

(* The state that an operation done by others is in.                       *)
Turning(op) ==
  /\ pc = "next" /\ todo # <<>> /\ Head(todo).op = op
  /\ Tail(todo) = <<>>
  /\ todo = <<Primitive(op, called.arg)>>

LEMMA TurningIs ==
  ASSUME IInv, NEW op \in Composite, Doing(op)
  PROVE  /\ Turning(op)
         /\ op = "set_pow10" => Powering(<<called>>, called, quotient) /\ Head(todo) = called
         /\ op = "multiply_pow10" =>
              Multiplying(Value(lhs), todo, called, Value(held), rhs, quotient)
         /\ op = "set_decimal_string" =>
              Reading(<<called>>, called, quotient) /\ Head(todo) = called
         /\ op = "divmod" => /\ Head(todo) = called /\ todo = <<called>>
                             /\ called.op = "divmod" /\ rhs.n > 0 /\ FitsWithRoom(Value(held))
                             /\ quotient * Value(rhs) + Value(lhs) = Value(held)
<1>1. pc = "next" /\ todo # <<>> /\ Head(todo).op = op /\ pc # "idle"
  BY DEF Doing
<1>2. /\ Typed(called) /\ Standing \in Nat /\ Standing = Value(lhs) /\ Value(held) \in Nat
      /\ rhs \in Numbers /\ Plan(Standing, todo, called, Value(held), rhs, quotient)
  BY <1>1, CourseIs
<1>3. Value(lhs) \in Nat /\ Plan(Value(lhs), todo, called, Value(held), rhs, quotient)
  BY <1>2
<1>4. Head(todo).op \in Composite
  BY <1>1
<1> HIDE DEF Typed, Plan
<1>5. /\ Tail(todo) = <<>> /\ todo = <<Primitive(Head(todo).op, called.arg)>>
      /\ Head(todo).op = "set_pow10" => Powering(<<called>>, called, quotient) /\ Head(todo) = called
      /\ Head(todo).op = "multiply_pow10" =>
           Multiplying(Value(lhs), todo, called, Value(held), rhs, quotient)
      /\ Head(todo).op = "set_decimal_string" =>
           Reading(<<called>>, called, quotient) /\ Head(todo) = called
      /\ Head(todo).op = "divmod" =>
           /\ Head(todo) = called /\ todo = <<called>>
           /\ called.op = "divmod" /\ rhs.n > 0 /\ FitsWithRoom(Value(held))
           /\ quotient * Value(rhs) + Value(lhs) = Value(held)
  BY <1>1, <1>2, <1>3, <1>4, PlanTurns
<1> QED BY <1>1, <1>5 DEF Turning

LEMMA SetPow10Ok ==
  ASSUME IInv, SetPow10
  PROVE  IInv' /\ pc # "idle" /\ pc' # "idle" /\ UNCHANGED <<called, held, rhs>>
<1>1. /\ Doing("set_pow10") /\ UNCHANGED <<lhs, rhs, pc, called, i, carry, quotient, held, calls>>
      /\ todo' = <<Primitive("set_u32", 1), Primitive("multiply_pow10", Arg)>> \o Tail(todo)
  BY DEF SetPow10, DoInstead
<1>2. /\ pc = "next" /\ Tail(todo) = <<>> /\ Head(todo) = called
      /\ Powering(<<called>>, called, quotient)
  BY <1>1, TurningIs DEF Turning, Composite
<1>3. Arg = called.arg
  BY <1>2 DEF Arg
<1>4. todo' = <<Primitive("set_u32", 1), Primitive("multiply_pow10", called.arg)>>
  <2>1. PICK s, t : s = Primitive("set_u32", 1) /\ t = Primitive("multiply_pow10", called.arg)
    OBVIOUS
  <2>2. <<s, t>> \in Seq({s, t})
    OBVIOUS
  <2>3. <<s, t>> \o <<>> = <<s, t>>
    BY <2>2, ConcatEmptySeq
  <2> QED BY <1>1, <1>2, <1>3, <2>1, <2>3
<1>5. Powering(todo', called, quotient)
  BY <1>2, <1>4 DEF Powering
<1>6. Machine' /\ Standing' = Standing /\ After' = todo'
  BY <1>1, <1>2, InsteadKeeps DEF IInv
<1>7. Plan(Standing', After', called, Value(held), rhs, quotient')
  BY <1>1, <1>5, <1>6 DEF Plan
<1>8. quotient' \in Nat /\ pc # "idle" /\ pc' # "idle"
  BY <1>1, <1>2, CourseIs
<1> QED BY <1>1, <1>6, <1>7, <1>8, CourseKept

LEMMA SetDecimalStringOk ==
  ASSUME IInv, SetDecimalString
  PROVE  IInv' /\ pc # "idle" /\ pc' # "idle" /\ UNCHANGED <<called, held, rhs>>
<1>1. /\ Doing("set_decimal_string")
      /\ UNCHANGED <<lhs, rhs, pc, called, i, carry, quotient, held, calls>>
      /\ todo' = DecimalString(Arg) \o Tail(todo)
  BY DEF SetDecimalString, DoInstead
<1>2. /\ pc = "next" /\ Tail(todo) = <<>> /\ Head(todo) = called
      /\ Reading(<<called>>, called, quotient)
  BY <1>1, TurningIs DEF Turning, Composite
<1>3. Arg = called.arg /\ called.op = "set_decimal_string" /\ quotient = 0 /\ Fits(called.arg)
  BY <1>2 DEF Arg, Reading
<1>4. /\ pc # "idle" /\ pc' # "idle" /\ Standing \in Nat /\ quotient' \in Nat
      /\ called.arg \in Nat /\ Value(held) \in Nat /\ rhs \in Numbers
  BY <1>1, <1>2, CourseIs, TypedIs
<1>5. Runs(DecimalString(called.arg), Standing, called.arg, rhs)
  BY <1>3, <1>4, DecimalStringRuns DEF Fits
<1>6. todo' = DecimalString(called.arg)
  <2>1. DecimalString(called.arg) \in Seq(Primitives)
    BY <1>5 DEF Runs
  <2>2. DecimalString(called.arg) \o <<>> = DecimalString(called.arg)
    BY <2>1, ConcatEmptySeq
  <2> QED BY <1>1, <1>2, <1>3, <2>2
<1>7. Outcome(called, Value(held), Value(rhs)) = called.arg
  BY <1>3, <1>4, OutcomeIs
<1>8. Quotient(called, Value(held), Value(rhs)) = 0
  BY <1>3 DEF Quotient
<1>9. Machine' /\ Standing' = Standing /\ After' = todo'
  BY <1>1, <1>2, InsteadKeeps DEF IInv
<1>10. Plan(Standing', After', called, Value(held), rhs, quotient')
  BY <1>1, <1>3, <1>5, <1>6, <1>7, <1>8, <1>9 DEF Plan, OnCourse
<1> QED BY <1>1, <1>4, <1>9, <1>10, CourseKept

LEMMA CallMultiplyPow10Ok ==
  ASSUME IInv, CallMultiplyPow10
  PROVE  IInv' /\ pc # "idle" /\ pc' # "idle" /\ UNCHANGED <<called, held, rhs>>
<1>1. /\ Doing("multiply_pow10")
      /\ UNCHANGED <<lhs, rhs, pc, called, i, carry, quotient, held, calls>>
      /\ todo' = (IF Arg = 0 \/ lhs.n = 0 THEN <<>> ELSE MultiplyPow10(Arg)) \o Tail(todo)
  BY DEF CallMultiplyPow10, DoInstead
<1>2. /\ pc = "next" /\ Tail(todo) = <<>> /\ todo = <<Primitive("multiply_pow10", called.arg)>>
      /\ Multiplying(Value(lhs), todo, called, Value(held), rhs, quotient)
  BY <1>1, TurningIs DEF Turning, Composite
<1>3. Arg = called.arg
  <2>1. Head(todo) = Primitive("multiply_pow10", called.arg)
    BY <1>2
  <2> QED BY <2>1 DEF Arg, Primitive
<1>4. /\ pc # "idle" /\ pc' # "idle" /\ Standing \in Nat /\ quotient' \in Nat
      /\ Standing = Value(lhs) /\ called.arg \in Nat /\ lhs \in Numbers
  BY <1>1, <1>2, CourseIs, TypedIs
<1>5. PICK w \in Nat, p \in Nat : w = Standing /\ p = Power(10, called.arg)
  BY <1>4, TenIs
<1>6. /\ called.op \in {"set_pow10", "multiply_pow10"} /\ quotient = 0
      /\ w * p = Outcome(called, Value(held), Value(rhs)) /\ FitsWithRoom(w * p)
  BY <1>2, <1>4, <1>5 DEF Multiplying
<1>7. Runs(todo', w, w * p, rhs)
  <2>1. CASE Arg = 0 \/ lhs.n = 0
    <3>1. w * p = w
      <4>1. CASE Arg = 0
        <5>1. p = 1
          BY <1>3, <1>5, <4>1, TenIs
        <5> QED BY <5>1
      <4>2. CASE lhs.n = 0
        <5>1. Value(lhs) < 1 /\ Value(lhs) \in Nat
          BY <1>4, <4>2, ValueIs, Places
        <5>2. w = 0
          BY <1>4, <1>5, <5>1
        <5> QED BY <5>2
      <4> QED BY <2>1, <4>1, <4>2
    <3>2. todo' = <<>>
      BY <1>1, <1>2, <2>1
    <3> QED BY <3>1, <3>2, RunsNowhere
  <2>2. CASE ~(Arg = 0 \/ lhs.n = 0)
    <3>1. Runs(MultiplyPow10(called.arg), w, w * Power(10, called.arg), rhs)
      BY <1>4, <1>5, <1>6, MultiplyPow10Runs DEF FitsWithRoom
    <3>2. MultiplyPow10(called.arg) \in Seq(Primitives)
      BY <3>1 DEF Runs
    <3>3. MultiplyPow10(called.arg) \o <<>> = MultiplyPow10(called.arg)
      BY <3>2, ConcatEmptySeq
    <3> QED BY <1>1, <1>2, <1>3, <1>5, <2>2, <3>1, <3>3
  <2> QED BY <2>1, <2>2
<1>8. Quotient(called, Value(held), Value(rhs)) = 0
  BY <1>6 DEF Quotient
<1>9. Machine' /\ Standing' = Standing /\ After' = todo'
  BY <1>1, <1>2, InsteadKeeps DEF IInv
<1>10. Plan(Standing', After', called, Value(held), rhs, quotient')
  BY <1>1, <1>5, <1>6, <1>7, <1>8, <1>9 DEF Plan, OnCourse
<1> QED BY <1>1, <1>4, <1>9, <1>10, CourseKept

(* A division: what is left of held, and what has been taken away from it. *)
LEMMA DivmodIs ==
  ASSUME IInv, Doing("divmod")
  PROVE  /\ pc = "next" /\ pc # "idle" /\ Tail(todo) = <<>> /\ todo = <<called>>
         /\ called.op = "divmod" /\ Machine /\ Typed(called)
         /\ lhs \in Numbers /\ rhs \in Numbers /\ Clamped(lhs) /\ Clamped(rhs)
         /\ WellFormed(lhs) /\ rhs.n > 0 /\ rhs.n \in Nat /\ lhs.n \in Nat
         /\ quotient \in Nat /\ FitsWithRoom(Value(held)) /\ Value(held) \in Nat
         /\ Value(lhs) \in Nat /\ Value(rhs) \in Nat /\ Value(rhs) >= 1
         /\ quotient * Value(rhs) + Value(lhs) = Value(held)
         /\ Value(lhs) <= Value(held) /\ Standing = Value(lhs)
         /\ Compare(lhs, rhs) = SignOf(Value(lhs) - Value(rhs))
<1>1. /\ pc = "next" /\ Tail(todo) = <<>> /\ todo = <<called>>
      /\ called.op = "divmod" /\ rhs.n > 0 /\ FitsWithRoom(Value(held))
      /\ quotient * Value(rhs) + Value(lhs) = Value(held)
  BY TurningIs DEF Turning, Composite
<1>2. /\ pc # "idle" /\ Machine /\ Typed(called) /\ Value(held) \in Nat
      /\ rhs \in Numbers /\ Clamped(rhs) /\ Value(rhs) \in Nat /\ rhs.n \in Nat
      /\ quotient \in Nat /\ lhs \in Numbers /\ Standing = Value(lhs) /\ Standing \in Nat
      /\ WellFormed(lhs) /\ Clamped(lhs)
  BY <1>1, CourseIs
<1>3. lhs.n \in Nat
  BY <1>2, DigitsAre
<1>4. Value(rhs) >= 1
  <2>1. Value(rhs) >= Power(Base, rhs.n - 1) /\ rhs.n - 1 \in Nat
    BY <1>1, <1>2, ValueIs
  <2>2. Power(Base, rhs.n - 1) >= 1 /\ Power(Base, rhs.n - 1) \in Nat
    BY <2>1, Places
  <2> QED BY <1>2, <2>1, <2>2
<1>5. Value(lhs) <= Value(held)
  <2>1. quotient * Value(rhs) \in Nat
    BY <1>2
  <2> QED BY <1>1, <1>2, <2>1
<1>6. Compare(lhs, rhs) = SignOf(Value(lhs) - Value(rhs))
  BY <1>2, CompareExact
<1> QED BY <1>1, <1>2, <1>3, <1>4, <1>5, <1>6

LEMMA DivmodLessOk ==
  ASSUME IInv, DivmodLess
  PROVE  IInv' /\ pc # "idle" /\ pc' # "idle" /\ UNCHANGED <<called, held, rhs>>
<1>1. Doing("divmod") /\ Compare(lhs, rhs) < 0 /\ Finish(lhs)
  BY DEF DivmodLess
<1>2. pc' = "next" /\ UNCHANGED <<rhs, called, quotient, held, calls>>
  BY <1>1 DEF Finish
<1>3. PICK w \in Nat, y \in Nat, x \in Nat :
         /\ w = Value(lhs) /\ y = Value(rhs) /\ x = Value(held) /\ y >= 1
         /\ quotient * y + w = x /\ quotient \in Nat /\ Compare(lhs, rhs) = SignOf(w - y)
         /\ called.op = "divmod" /\ pc # "idle" /\ Tail(todo) = <<>>
  BY <1>1, DivmodIs
<1>4. w < y
  BY <1>1, <1>3 DEF SignOf
<1>5. x \div y = quotient /\ x % y = w
  <2>1. x \in Int /\ quotient \in Int /\ w \in Int /\ 0 <= w /\ x = quotient * y + w
    BY <1>3
  <2> QED BY <1>3, <1>4, <2>1, DivisionUnique
<1>6. Machine' /\ Standing' = w /\ After' = <<>>
  <2>1. Machine /\ lhs \in Numbers /\ WellFormed(lhs)
    BY <1>1, DivmodIs
  <2> QED BY <1>1, <1>3, <2>1, FinishKeeps
<1>7. Runs(<<>>, w, w, rhs)
  BY <1>3, RunsNowhere
<1>8. Outcome(called, x, y) = w /\ Quotient(called, x, y) = quotient
  BY <1>3, <1>5 DEF Outcome, Quotient
<1>9. Plan(Standing', After', called, Value(held), rhs, quotient')
  BY <1>2, <1>3, <1>6, <1>7, <1>8 DEF Plan, OnCourse
<1> QED BY <1>2, <1>3, <1>6, <1>9, CourseKept

(* Once both are one digit, the digits are divided.                        *)
LEMMA DivmodWordOk ==
  ASSUME IInv, DivmodWord
  PROVE  IInv' /\ pc # "idle" /\ pc' # "idle" /\ UNCHANGED <<called, held, rhs>>
<1> DEFINE rest == lhs.bigits[0] % rhs.bigits[0]
           z == [bigits |-> [lhs.bigits EXCEPT ![0] = rest], n |-> IF rest = 0 THEN 0 ELSE 1]
<1>1. /\ Doing("divmod") /\ Compare(lhs, rhs) > 0 /\ lhs.n = 1 /\ lhs' = z
      /\ quotient' = quotient + lhs.bigits[0] \div rhs.bigits[0] /\ todo' = Tail(todo)
      /\ UNCHANGED <<rhs, pc, called, i, carry, held, calls>>
  BY DEF DivmodWord, DivmodByWord
<1>2. PICK w \in Nat, y \in Nat, x \in Nat :
         /\ w = Value(lhs) /\ y = Value(rhs) /\ x = Value(held) /\ y >= 1
         /\ quotient * y + w = x /\ quotient \in Nat
         /\ called.op = "divmod" /\ pc = "next" /\ pc # "idle" /\ Tail(todo) = <<>>
  BY <1>1, DivmodIs
<1>3. /\ Machine /\ lhs \in Numbers /\ rhs \in Numbers /\ WellFormed(lhs) /\ rhs.n > 0
      /\ rhs.n \in Nat /\ 0 \in Indices /\ Base \in Nat /\ MaxBigits \in Nat /\ MaxBigits >= 2
  BY <1>1, DivmodIs, WidthAssumption, BaseNat DEF Indices
<1>4. rhs.n = 1
  <2>1. ~(lhs.n < rhs.n)
    BY <1>1 DEF Compare
  <2> QED BY <1>1, <1>3, <2>1
<1>5. \A u \in Numbers : u.n = 1 => Value(u) = u.bigits[0]
  <2>1. SUFFICES ASSUME NEW u \in Numbers, u.n = 1 PROVE Value(u) = u.bigits[0]
    OBVIOUS
  <2>2. u.bigits[0] \in Nat
    BY <1>3, DigitsAre
  <2>3. Upto(u, 0) = 0 /\ Upto(u, 0 + 1) = Upto(u, 0) + u.bigits[0] * Power(Base, 0)
    BY <1>3, UptoIs
  <2> QED BY <2>1, <2>2, <2>3, Places DEF Value
<1>6. w = lhs.bigits[0] /\ y = rhs.bigits[0] /\ y < Base
  <2>1. rhs.bigits[0] < Base
    BY <1>3, DigitsAre
  <2> QED BY <1>1, <1>2, <1>3, <1>4, <1>5, <2>1
<1>7. /\ rest \in Nat /\ rest < y /\ w \div y \in Nat /\ w = (w \div y) * y + rest
  <2>1. w \in Int /\ y \in Nat /\ y >= 1
    BY <1>2
  <2>2. /\ w \div y \in Int /\ w % y \in Int /\ w % y >= 0 /\ w % y < y
        /\ w = (w \div y) * y + (w % y) /\ (w >= 0 => w \div y >= 0)
    BY <2>1, Division, Zenon
  <2>3. rest = w % y
    BY <1>6
  <2> QED BY <1>2, <2>2, <2>3
<1>8. z \in Numbers /\ z.n \in 0..1 /\ z.bigits[0] = rest /\ WellFormed(z)
  <2>1. rest \in 0..(Base - 1)
    BY <1>2, <1>3, <1>6, <1>7
  <2>2. \A j \in Indices : j # 0 => z.bigits[j] = 0
    <3>1. SUFFICES ASSUME NEW j \in Indices, j # 0 PROVE z.bigits[j] = 0
      OBVIOUS
    <3>2. j >= 1 /\ j \in Nat
      BY <1>3, <3>1 DEF Indices
    <3>3. lhs.bigits[j] = 0
      BY <1>1, <1>3, <3>2 DEF WellFormed, ZeroAbove
    <3> QED BY <1>3, <3>1, <3>3 DEF Numbers
  <2>3. z.bigits[0] = rest
    BY <1>3 DEF Numbers
  <2>4. z \in Numbers
    BY <1>3, <2>1 DEF Numbers, Bigits
  <2>5. z.n = (IF rest = 0 THEN 0 ELSE 1)
    OBVIOUS
  <2> HIDE DEF z, rest
  <2>6. Clamped(z)
    BY <1>7, <2>3, <2>5 DEF Clamped
  <2>7. ZeroAbove(z)
    <3>1. SUFFICES ASSUME NEW j \in Indices, j >= z.n PROVE z.bigits[j] = 0
      BY DEF ZeroAbove
    <3>2. CASE j = 0
      BY <2>3, <2>5, <3>1, <3>2
    <3>3. CASE j # 0
      BY <2>2, <3>3
    <3> QED BY <3>2, <3>3
  <2> QED BY <2>3, <2>4, <2>5, <2>6, <2>7 DEF WellFormed
<1> HIDE DEF z, rest
<1>9. Value(z) = rest
  <2>1. CASE z.n = 1
    BY <1>5, <1>8, <2>1
  <2>2. CASE z.n = 0
    <3>1. Value(z) < 1 /\ Value(z) \in Nat
      BY <1>8, <2>2, ValueIs, Places
    <3>2. Full(z) = Value(z) /\ Upto(z, 0 + 1) = Upto(z, 0) + z.bigits[0] * Power(Base, 0)
          /\ Upto(z, 0) = 0
      BY <1>3, <1>8, ValueIs, UptoIs DEF WellFormed
    <3>3. Upto(z, 0 + 1) = rest
      BY <1>7, <1>8, <3>2, Places
    <3>4. Upto(z, 0 + 1) <= Full(z)
      BY <1>3, <1>8, UptoGrows DEF Full
    <3> QED BY <1>7, <3>1, <3>2, <3>3, <3>4
  <2> QED BY <1>8, <2>1, <2>2
<1>10. Machine' /\ Standing' = rest /\ After' = <<>>
  <2>1. pc \notin Loops /\ pc' = "next" /\ pc' \notin Loops
    BY <1>1, <1>2, LoopsAre
  <2>2. Standing' = Full(z) /\ Full(z) = Value(z) /\ Full(z) < Power(Base, MaxBigits)
    BY <1>1, <1>8, <2>1, ValueIs DEF Standing, Stands, WellFormed
  <2>3. Standing' \in 0..(Power(Base, MaxBigits) - 1)
    BY <1>3, <1>7, <1>9, <2>2, Places
  <2>4. After' = <<>>
    BY <1>1, <1>2, <2>1 DEF After
  <2>5. Machine'
    BY <1>1, <1>3, <1>8, <2>1, <2>3 DEF Machine
  <2> QED BY <1>9, <2>2, <2>4, <2>5
<1>11. PICK d \in Nat, v \in Nat : /\ d = w \div y /\ v = rest /\ v < y /\ w = d * y + v
                                   /\ quotient' = quotient + d
  BY <1>1, <1>6, <1>7
<1>12. x = (quotient + d) * y + v
  <2>1. PICK q \in Nat : q = quotient
    BY <1>2
  <2>2. (q + d) * y = q * y + d * y /\ q * y \in Nat /\ d * y \in Nat /\ (q + d) * y \in Nat
    OBVIOUS
  <2>3. x = q * y + w /\ w = d * y + v
    BY <1>2, <1>11, <2>1
  <2>4. x = (q + d) * y + v
    BY <2>2, <2>3
  <2> QED BY <2>1, <2>4
<1>13. x \div y = quotient' /\ x % y = v /\ quotient' \in Nat
  <2>1. PICK q \in Nat : q = quotient
    BY <1>2
  <2>2. PICK s \in Nat : s = q + d
    OBVIOUS
  <2>3. quotient' = s
    BY <1>11, <2>1, <2>2
  <2>4. x = s * y + v /\ 0 <= v /\ v < y /\ y >= 1
    BY <1>2, <1>11, <1>12, <2>1, <2>2
  <2>5. x \in Int /\ s \in Int /\ v \in Int
    OBVIOUS
  <2>6. x \div y = s /\ x % y = v
    BY <2>4, <2>5, DivisionUnique
  <2> QED BY <2>3, <2>6
<1>14. Outcome(called, x, y) = v /\ Quotient(called, x, y) = quotient'
  BY <1>2, <1>13 DEF Outcome, Quotient
<1>15. Runs(<<>>, v, v, rhs)
  BY <1>11, RunsNowhere
<1>16. Plan(Standing', After', called, Value(held), rhs, quotient')
  BY <1>2, <1>10, <1>11, <1>14, <1>15 DEF Plan, OnCourse
<1> QED BY <1>1, <1>2, <1>10, <1>13, <1>16, CourseKept

(* One operation before another.                                           *)
LEMMA PairIs ==
  ASSUME NEW S, NEW a \in S, NEW b \in S
  PROVE  <<a>> \o <<b>> = <<a, b>>
<1>1. <<a>> \in Seq(S) /\ <<b>> \in Seq(S) /\ <<a, b>> \in Seq(S) /\ <<a>> \o <<b>> \in Seq(S)
  OBVIOUS
<1>2. Len(<<a>> \o <<b>>) = 2 /\ Len(<<a, b>>) = 2
  BY <1>1
<1>3. (<<a>> \o <<b>>)[1] = a /\ (<<a>> \o <<b>>)[2] = b
  BY <1>1, ConcatProperties
<1>4. \A k \in 1..Len(<<a, b>>) : <<a, b>>[k] = (<<a>> \o <<b>>)[k]
  BY <1>2, <1>3
<1>5. PICK s \in Seq(S), t \in Seq(S) : s = <<a, b>> /\ t = <<a>> \o <<b>>
  BY <1>1
<1>6. Len(s) = Len(t) /\ \A k \in 1..Len(s) : s[k] = t[k]
  BY <1>2, <1>4, <1>5
<1>7. s = t
  BY <1>6, SeqEqual
<1> QED BY <1>5, <1>7

(* The second number, times the power of two that leaves it a bit shorter  *)
(* than the first, is less; and what is left is divided.                   *)
LEMMA DivmodSubtractShiftedOk ==
  ASSUME IInv, DivmodSubtractShifted
  PROVE  IInv' /\ pc # "idle" /\ pc' # "idle" /\ UNCHANGED <<called, held, rhs>>
<1> DEFINE first == Primitive("subtract_left_shifted", DivmodShift)
<1>1. /\ Doing("divmod") /\ Compare(lhs, rhs) >= 0 /\ LeadingZeros(lhs) < LeadingZeros(rhs)
      /\ quotient' = quotient + Power(2, DivmodShift) /\ todo' = <<first>> \o todo
      /\ UNCHANGED <<lhs, rhs, pc, called, i, carry, held, calls>>
  BY DEF DivmodSubtractShifted, SubtractFirst
<1>2. PICK w \in Nat, y \in Nat, x \in Nat, q \in Nat :
         /\ w = Value(lhs) /\ y = Value(rhs) /\ x = Value(held) /\ y >= 1 /\ q = quotient
         /\ q * y + w = x /\ w <= x /\ Compare(lhs, rhs) = SignOf(w - y)
         /\ FitsWithRoom(x) /\ Standing = w
  BY <1>1, DivmodIs
<1>3. /\ Machine /\ lhs \in Numbers /\ rhs \in Numbers /\ Clamped(lhs) /\ Clamped(rhs)
      /\ rhs.n > 0 /\ lhs.n \in Nat /\ rhs.n \in Nat /\ pc = "next" /\ pc # "idle"
      /\ called.op = "divmod" /\ todo = <<called>> /\ Typed(called)
  BY <1>1, DivmodIs
<1>4. w >= y
  BY <1>1, <1>2 DEF SignOf
<1>5. lhs.n > 0
  <2>1. SUFFICES ASSUME lhs.n = 0 PROVE FALSE
    BY <1>3
  <2>2. Value(lhs) < 1
    BY <1>3, <2>1, ValueIs, Places
  <2> QED BY <1>2, <1>4, <2>2
<1>6. PICK l \in Nat : /\ l >= 1 /\ LeadingZeros(lhs) = BigitBits * MaxBigits - l
                       /\ Power(2, l - 1) <= w
  BY <1>2, <1>3, <1>5, BitLength
<1>7. PICK m \in Nat : /\ m >= 1 /\ LeadingZeros(rhs) = BigitBits * MaxBigits - m
                       /\ y < Power(2, m)
  BY <1>2, <1>3, BitLength
<1>8. PICK s \in Nat : s = DivmodShift /\ s + m = l - 1
  <2>1. PICK b \in Nat : b = BigitBits * MaxBigits
    BY WidthAssumption
  <2>2. LeadingZeros(lhs) = b - l /\ LeadingZeros(rhs) = b - m
    BY <1>6, <1>7, <2>1
  <2>3. l - m - 1 \in Nat /\ DivmodShift = l - m - 1
    BY <1>1, <2>2 DEF DivmodShift
  <2>4. (l - m - 1) + m = l - 1
    OBVIOUS
  <2> QED BY <2>3, <2>4
<1>9. PICK p \in Nat : p = Power(2, s) /\ p >= 1
  BY PowersOfTwo
<1>10. y * p <= w
  <2>1. PICK t \in Nat, u \in Nat : t = Power(2, m) /\ u = Power(2, l - 1) /\ u = p * t
    <3>1. Power(2, s + m) = Power(2, s) * Power(2, m) /\ Power(2, m) \in Nat
      BY PowersOfTwo
    <3>2. p * Power(2, m) \in Nat
      BY <3>1
    <3> QED BY <1>8, <1>9, <3>1, <3>2
  <2>2. y < t /\ u <= w
    BY <1>6, <1>7, <2>1
  <2>3. y * p <= t * p
    BY <1>9, <2>2, CancelPower
  <2>4. t * p = p * t /\ y * p \in Nat
    OBVIOUS
  <2> QED BY <2>1, <2>2, <2>3, <2>4
<1>11. PICK f : f = Primitive("subtract_left_shifted", s) /\ f.op = "subtract_left_shifted"
               /\ f.arg = s /\ todo' = <<f, called>> /\ f = first
  <2>1. PICK f : f = first
    OBVIOUS
  <2>2. f = Primitive("subtract_left_shifted", s) /\ f.op = "subtract_left_shifted" /\ f.arg = s
    BY <1>8, <2>1 DEF Primitive
  <2> HIDE DEF first
  <2>3. <<f>> \o <<called>> = <<f, called>>
    <3>1. f \in {f, called} /\ called \in {f, called}
      OBVIOUS
    <3> QED BY <3>1, PairIs
  <2>4. todo' = <<f, called>>
    BY <1>1, <1>3, <2>1, <2>3
  <2> QED BY <2>1, <2>2, <2>4
<1> HIDE DEF first
<1>12. Shiftable(rhs, s) /\ ShiftedLength(rhs, s) <= MaxBigits
  <2>1. Power(Base, MaxBigits - 1) \in Nat /\ MaxBigits - 1 \in Nat
    <3>1. MaxBigits - 1 \in Nat
      BY WidthAssumption
    <3> QED BY <3>1, Places
  <2>2. y * p \in Nat /\ x < Power(Base, MaxBigits - 1)
    BY <1>2 DEF FitsWithRoom
  <2>3. y * p < Power(Base, MaxBigits - 1)
    BY <1>2, <1>10, <2>1, <2>2
  <2>4. Value(rhs) * Power(2, s) < Power(Base, MaxBigits - 1)
    BY <1>2, <1>9, <2>3
  <2> QED BY <1>3, <2>4, RoomToShift
<1>13. Legal(f, w, rhs)
  <2>1. Value(rhs) * Power(2, s) <= w
    BY <1>2, <1>9, <1>10
  <2> QED BY <1>11, <1>12, <2>1 DEF Legal, Multiplies, Subtracts
<1>14. Effect(f, w, rhs) = w - y * p
  <2>1. Effect(f, w, rhs) = w - Value(rhs) * Power(2, f.arg)
    BY <1>11, EffectIs DEF Subtracts
  <2> QED BY <1>2, <1>9, <1>11, <2>1
<1>15. quotient' = q + p /\ q + p \in Nat
  <2>1. Power(2, DivmodShift) = p
    BY <1>8, <1>9, Zenon
  <2>2. quotient' = q + p
    BY <1>1, <1>2, <2>1, Zenon
  <2> QED BY <2>2
<1>16. (q + p) * y + Effect(f, w, rhs) = x
  <2>1. (q + p) * y = q * y + y * p /\ y * p \in Nat /\ q * y \in Nat /\ (q + p) * y \in Nat
    OBVIOUS
  <2>2. (q + p) * y + (w - y * p) = x
    BY <1>2, <2>1
  <2> QED BY <1>14, <2>2
<1>17. Machine' /\ Standing' = w /\ After' = todo'
  BY <1>1, <1>2, <1>3, InsteadKeeps
<1>18. Dividing(w, <<f, called>>, called, x, rhs, q + p)
  BY <1>2, <1>3, <1>11, <1>13, <1>16 DEF Dividing
<1>19. Plan(Standing', After', called, Value(held), rhs, quotient')
  BY <1>2, <1>11, <1>15, <1>17, <1>18 DEF Plan
<1> QED BY <1>1, <1>3, <1>15, <1>17, <1>19, CourseKept

(* Numbers of as many bits: the second goes into the first once.           *)
LEMMA DivmodSubtractLastOk ==
  ASSUME IInv, DivmodSubtractLast
  PROVE  IInv' /\ pc # "idle" /\ pc' # "idle" /\ UNCHANGED <<called, held, rhs>>
<1>1. /\ Doing("divmod") /\ Compare(lhs, rhs) >= 0 /\ LeadingZeros(lhs) = LeadingZeros(rhs)
      /\ quotient' = quotient + 1 /\ todo' = <<Primitive("subtract", 0)>> \o Tail(todo)
      /\ UNCHANGED <<lhs, rhs, pc, called, i, carry, held, calls>>
  BY DEF DivmodSubtractLast, SubtractFirst
<1>2. PICK w \in Nat, y \in Nat, x \in Nat, q \in Nat :
         /\ w = Value(lhs) /\ y = Value(rhs) /\ x = Value(held) /\ y >= 1 /\ q = quotient
         /\ q * y + w = x /\ w <= x /\ Compare(lhs, rhs) = SignOf(w - y)
         /\ Standing = w
  BY <1>1, DivmodIs
<1>3. /\ Machine /\ lhs \in Numbers /\ rhs \in Numbers /\ Clamped(lhs) /\ Clamped(rhs)
      /\ rhs.n > 0 /\ lhs.n \in Nat /\ rhs.n \in Nat /\ pc = "next" /\ pc # "idle"
      /\ called.op = "divmod" /\ Tail(todo) = <<>>
  BY <1>1, DivmodIs
<1>4. w >= y
  BY <1>1, <1>2 DEF SignOf
<1>5. lhs.n > 0
  <2>1. SUFFICES ASSUME lhs.n = 0 PROVE FALSE
    BY <1>3
  <2>2. Value(lhs) < 1
    BY <1>3, <2>1, ValueIs, Places
  <2> QED BY <1>2, <1>4, <2>2
<1>6. PICK l \in Nat : /\ l >= 1 /\ LeadingZeros(lhs) = BigitBits * MaxBigits - l
                       /\ w < Power(2, l)
  BY <1>2, <1>3, <1>5, BitLength
<1>7. PICK m \in Nat : /\ m >= 1 /\ LeadingZeros(rhs) = BigitBits * MaxBigits - m
                       /\ Power(2, m - 1) <= y
  BY <1>2, <1>3, BitLength
<1>8. l = m
  <2>1. PICK b \in Nat : b = BigitBits * MaxBigits
    BY WidthAssumption
  <2>2. b - l = b - m
    BY <1>1, <1>6, <1>7, <2>1, Zenon
  <2> QED BY <2>2
<1>9. PICK v \in Nat : v = w - y /\ v < y
  <2>1. PICK k \in Nat : k = m - 1 /\ k + 1 = m
    BY <1>7
  <2>2. PICK t \in Nat, u \in Nat : t = Power(2, k) /\ u = Power(2, l) /\ u = 2 * t
    <3>1. Power(2, k + 1) = 2 * Power(2, k) /\ Power(2, k) \in Nat
      BY PowerIs, PowersOfTwo
    <3>2. 2 * Power(2, k) \in Nat
      BY <3>1
    <3> QED BY <1>8, <2>1, <3>1, <3>2
  <2>3. w < u /\ t <= y
    BY <1>6, <1>7, <2>1, <2>2
  <2> QED BY <1>4, <2>2, <2>3
<1>10. PICK f : /\ f = Primitive("subtract", 0) /\ f.op = "subtract" /\ f.arg = 0
                /\ f \in Primitives
  <2>1. PICK f : f = [op |-> "subtract", arg |-> 0]
    OBVIOUS
  <2>2. f.op = "subtract" /\ f.arg = 0 /\ f \in Primitives
    BY <2>1 DEF Primitives
  <2> QED BY <2>1, <2>2, Zenon DEF Primitive
<1>11. todo' = <<f>>
  <2>1. <<f>> \in Seq(Primitives)
    BY <1>10
  <2>2. <<f>> \o <<>> = <<f>>
    BY <2>1, ConcatEmptySeq
  <2> QED BY <1>1, <1>3, <1>10, <2>2
<1>12. Value(rhs) * Power(2, 0) = y
  BY <1>2, PowerIs
<1>13. Shiftable(rhs, 0) /\ ShiftedLength(rhs, 0) <= MaxBigits
  <2>1. BigitBits \in Nat /\ BigitBits >= 1
    BY WidthAssumption
  <2>2. 0 \div BigitBits = 0 /\ 0 % BigitBits = 0
    <3>1. 0 \in Int /\ BigitBits \in Nat /\ BigitBits >= 1 /\ 0 >= 0 /\ 0 < BigitBits
      BY <2>1
    <3> QED BY <3>1, Division
  <2>3. rhs.n <= MaxBigits /\ rhs.n \in Nat
    BY <1>3, MachineIs
  <2> QED BY <2>2, <2>3 DEF Shiftable, ShiftedLength
<1>14. Legal(f, w, rhs)
  BY <1>4, <1>10, <1>12, <1>13 DEF Legal, Multiplies, Subtracts
<1>15. Effect(f, w, rhs) = v
  <2>1. Effect(f, w, rhs) = w - Value(rhs) * Power(2, f.arg)
    BY <1>10, EffectIs DEF Subtracts
  <2> QED BY <1>9, <1>10, <1>12, <2>1
<1>16. Runs(<<f>>, w, v, rhs)
  BY <1>10, <1>14, <1>15, RunsOne
<1>17. x \div y = q + 1 /\ x % y = v
  <2>1. (q + 1) * y = q * y + y /\ q * y \in Nat /\ (q + 1) * y \in Nat
    OBVIOUS
  <2>2. x = (q + 1) * y + v
    BY <1>2, <1>9, <2>1
  <2>3. PICK s \in Nat : s = q + 1
    OBVIOUS
  <2>4. x \in Int /\ s \in Int /\ v \in Int /\ 0 <= v /\ v < y /\ y >= 1 /\ x = s * y + v
    BY <1>2, <1>9, <2>2, <2>3
  <2>5. x \div y = s /\ x % y = v
    BY <2>4, DivisionUnique
  <2> QED BY <2>3, <2>5
<1>18. Outcome(called, x, y) = v /\ Quotient(called, x, y) = q + 1
  BY <1>3, <1>17 DEF Outcome, Quotient
<1>19. Machine' /\ Standing' = w /\ After' = todo'
  BY <1>1, <1>2, <1>3, InsteadKeeps
<1>20. Plan(Standing', After', called, Value(held), rhs, quotient')
  BY <1>1, <1>2, <1>11, <1>16, <1>18, <1>19 DEF Plan, OnCourse
<1>21. quotient' \in Nat
  BY <1>1, <1>2
<1> QED BY <1>1, <1>3, <1>19, <1>20, <1>21, CourseKept

(* Every step of a call but its last.                                      *)
Work ==
  \/ LoopStep \/ Beginning \/ SetPow10 \/ SetDecimalString \/ CallMultiplyPow10
  \/ DivmodLess \/ DivmodWord \/ DivmodSubtractShifted \/ DivmodSubtractLast

LEMMA NextIs == Next => Call \/ Exchange \/ Return \/ Work
BY Zenon DEF Next, Step, Work, LoopStep, Beginning

LEMMA WorkKeeps ==
  ASSUME IInv, Work
  PROVE  IInv' /\ pc # "idle" /\ pc' # "idle" /\ UNCHANGED <<called, held, rhs>>
<1>1. CASE LoopStep
  BY <1>1, LoopsKeep, Zenon
<1>2. CASE Beginning
  BY <1>2, BeginningKeeps, Zenon
<1>3. CASE SetPow10
  BY <1>3, SetPow10Ok, Zenon
<1>4. CASE SetDecimalString
  BY <1>4, SetDecimalStringOk, Zenon
<1>5. CASE CallMultiplyPow10
  BY <1>5, CallMultiplyPow10Ok, Zenon
<1>6. CASE DivmodLess
  BY <1>6, DivmodLessOk, Zenon
<1>7. CASE DivmodWord
  BY <1>7, DivmodWordOk, Zenon
<1>8. CASE DivmodSubtractShifted
  BY <1>8, DivmodSubtractShiftedOk, Zenon
<1>9. CASE DivmodSubtractLast
  BY <1>9, DivmodSubtractLastOk, Zenon
<1> QED BY <1>1, <1>2, <1>3, <1>4, <1>5, <1>6, <1>7, <1>8, <1>9, Zenon DEF Work

(* Between loops, the machine is what its numbers are.                     *)
LEMMA RestsWell ==
  ASSUME NEW p \in {"idle", "next"}, lhs' \in Numbers, rhs' \in Numbers, WellFormed(lhs'),
         WellFormed(rhs'), i' \in Nat, carry' \in 0..(Power(Base, 2) - 1), pc' = p
  PROVE  Machine' /\ Standing' = Value(lhs') /\ After' = todo'
<1>1. p \notin Loops
  BY LoopsAre
<1>2. Standing' = Full(lhs') /\ After' = todo'
  BY <1>1 DEF Standing, Stands, After
<1>3. /\ Full(lhs') \in Nat /\ Full(lhs') < Power(Base, MaxBigits) /\ Value(lhs') = Full(lhs')
      /\ Power(Base, MaxBigits) \in Nat
  BY ValueIs, Places, WidthAssumption DEF WellFormed
<1>4. Standing' \in 0..(Power(Base, MaxBigits) - 1)
  BY <1>2, <1>3
<1>5. Machine'
  BY <1>1, <1>4 DEF Machine
<1> QED BY <1>2, <1>3, <1>5

LEMMA CallKeeps ==
  ASSUME IInv, Call
  PROVE  /\ IInv' /\ pc = "idle" /\ pc' # "idle" /\ called' \in Calls
         /\ UNCHANGED <<held, rhs>>
<1>1. /\ pc = "idle" /\ called' \in Calls /\ Allowed(called', lhs) /\ todo' = <<called'>>
      /\ pc' = "next" /\ quotient' = 0 /\ calls' = calls + 1
      /\ UNCHANGED <<lhs, rhs, i, carry, held>>
  BY DEF Call
<1>2. /\ lhs \in Numbers /\ rhs \in Numbers /\ WellFormed(lhs) /\ WellFormed(rhs) /\ i \in Nat
      /\ carry \in 0..(Power(Base, 2) - 1) /\ calls \in Nat /\ held = lhs
      /\ held \in Numbers /\ WellFormed(held)
  BY <1>1 DEF IInv, Machine, Client
<1>3. Machine' /\ Standing' = Value(lhs') /\ After' = todo'
  BY <1>1, <1>2, RestsWell
<1>4. PICK c : c = called' /\ Typed(c)
  BY <1>1, CallsAssumption
<1>5. Plan(Value(lhs), <<c>>, c, Value(lhs), rhs, 0)
  BY <1>1, <1>2, <1>4, CallsPlan DEF WellFormed
<1>6. Course'
  BY <1>1, <1>2, <1>3, <1>4, <1>5 DEF Course
<1>7. Client'
  BY <1>1, <1>2 DEF Client
<1> QED BY <1>1, <1>3, <1>6, <1>7 DEF IInv

LEMMA ExchangeKeeps ==
  ASSUME IInv, Exchange
  PROVE  /\ IInv' /\ pc = "idle" /\ pc' = "idle" /\ held = lhs
         /\ held' = rhs /\ rhs' = held /\ UNCHANGED quotient
<1>1. /\ pc = "idle" /\ lhs' = rhs /\ rhs' = lhs /\ held' = rhs
      /\ UNCHANGED <<pc, called, todo, i, carry, quotient, calls>>
  BY DEF Exchange
<1>2. /\ lhs \in Numbers /\ rhs \in Numbers /\ WellFormed(lhs) /\ WellFormed(rhs) /\ i \in Nat
      /\ carry \in 0..(Power(Base, 2) - 1) /\ calls \in Nat /\ quotient \in Nat /\ held = lhs
  BY <1>1 DEF IInv, Machine, Client
<1>3. Machine'
  BY <1>1, <1>2, RestsWell
<1>4. Client'
  BY <1>1, <1>2 DEF Client
<1> QED BY <1>1, <1>2, <1>3, <1>4 DEF IInv

(* What the call returns with is its result.                               *)
LEMMA ReturnKeeps ==
  ASSUME IInv, Return
  PROVE  /\ IInv' /\ pc # "idle" /\ pc' = "idle" /\ Typed(called)
         /\ Value(held') = Outcome(called, Value(held), Value(rhs))
         /\ quotient' = Quotient(called, Value(held), Value(rhs)) /\ UNCHANGED rhs
<1>1. /\ pc = "next" /\ pc # "idle" /\ todo = <<>> /\ pc' = "idle" /\ held' = lhs
      /\ UNCHANGED <<lhs, rhs, called, todo, i, carry, quotient, calls>>
  BY DEF Return
<1>2. /\ Typed(called) /\ Standing \in Nat /\ lhs \in Numbers /\ rhs \in Numbers
      /\ WellFormed(lhs) /\ WellFormed(rhs) /\ Standing = Value(lhs) /\ quotient \in Nat
      /\ Plan(Standing, <<>>, called, Value(held), rhs, quotient)
  BY <1>1, CourseIs
<1>3. /\ Standing = Outcome(called, Value(held), Value(rhs))
      /\ quotient = Quotient(called, Value(held), Value(rhs))
  BY <1>2, PlanEnds
<1>4. i \in Nat /\ carry \in 0..(Power(Base, 2) - 1) /\ calls \in Nat
  BY DEF IInv, Machine, Client
<1>5. Machine'
  BY <1>1, <1>2, <1>4, RestsWell
<1>6. Client'
  BY <1>1, <1>2, <1>4 DEF Client
<1> QED BY <1>1, <1>2, <1>3, <1>5, <1>6 DEF IInv

LEMMA InitIInv == Init => IInv
<1>1. SUFFICES ASSUME Init PROVE IInv
  OBVIOUS
<1>2. PICK v \in Initial, u \in Initial : lhs = OfValue(v) /\ rhs = OfValue(u)
  BY <1>1 DEF Init
<1>3. Power(Base, MaxBigits) \in Nat
  BY Places, WidthAssumption
<1>4. /\ v \in Nat /\ v < Power(Base, MaxBigits) /\ u \in Nat /\ u < Power(Base, MaxBigits)
  BY <1>3, InitialAssumption
<1>5. lhs \in Numbers /\ WellFormed(lhs) /\ rhs \in Numbers /\ WellFormed(rhs)
  BY <1>2, <1>4, OfValueExact
<1>6. pc = "idle" /\ i = 0 /\ carry = 0 /\ quotient = 0 /\ held = lhs /\ calls = 0
  BY <1>1 DEF Init
<1>7. Standing \in 0..(Power(Base, MaxBigits) - 1) /\ "idle" \notin Loops
  <2>1. Standing = Full(lhs)
    BY <1>6 DEF Standing, Stands
  <2> QED BY <1>3, <1>5, <2>1, ValueIs, LoopsAre
<1>8. 0 \in 0..(Power(Base, 2) - 1)
  BY BaseSquare, BaseNat
<1>9. Machine
  BY <1>5, <1>6, <1>7, <1>8 DEF Machine
<1>10. Client
  BY <1>5, <1>6 DEF Client
<1> QED BY <1>6, <1>9, <1>10 DEF IInv

LEMMA NextIInv == IInv /\ [Next]_vars => IInv'
<1>1. SUFFICES ASSUME IInv, [Next]_vars PROVE IInv'
  OBVIOUS
<1>2. CASE Next
  BY <1>1, <1>2, NextIs, WorkKeeps, CallKeeps, ExchangeKeeps, ReturnKeeps, Zenon
<1>3. CASE UNCHANGED vars
  BY <1>1, <1>3 DEF vars, IInv, Machine, Client, Course, Standing, After, Arg
<1> QED BY <1>1, <1>2, <1>3

LEMMA Invariance == Spec => []IInv
BY InitIInv, NextIInv, PTL DEF Spec

(* Between operations, the highest digit of each number is not zero, and   *)
(* all digits above its length are: bigint.c keeps to what every operation *)
(* of it relies on and none checks.                                        *)
THEOREM NumbersAreWellFormed == Spec => []NumbersWellFormed
<1>1. IInv => NumbersWellFormed
  BY Zenon DEF IInv, Machine, Client, NumbersWellFormed, TypeOK
<1> QED BY <1>1, Invariance, PTL

-----------------------------------------------------------------------------
LEMMA CarriesStayInside ==
  ASSUME Machine
  PROVE  /\ pc = "push" => (carry > 0 => lhs.n < MaxBigits)
         /\ pc \in {"carry", "borrow"} => (carry > 0 => i < MaxBigits)
<1>0. /\ lhs \in Numbers /\ i \in Nat /\ carry \in Nat /\ lhs.n \in Nat
      /\ Standing \in Nat /\ Standing < Power(Base, MaxBigits)
  BY MachineIs
<1>1. ASSUME pc = "push", carry > 0 PROVE lhs.n < MaxBigits
  <2>1. Standing = CarryStanding(lhs, lhs.n, carry)
    BY <1>1 DEF Standing, Stands
  <2> QED BY <1>0, <1>1, <2>1, CarryFits
<1>2. ASSUME pc = "carry", carry > 0 PROVE i < MaxBigits
  <2>1. Standing = CarryStanding(lhs, i, carry)
    BY <1>2 DEF Standing, Stands
  <2> QED BY <1>0, <1>2, <2>1, CarryFits
<1>3. ASSUME pc = "borrow", carry > 0 PROVE i < MaxBigits
  <2>1. Standing = BorrowStanding(lhs, i, carry)
    BY <1>3 DEF Standing, Stands
  <2>2. carry \in 0..1
    <3>1. pc \in Loops
      BY <1>3 DEF Loops
    <3> QED BY <1>3, <3>1, MachineIs DEF InLoop
  <2>3. BorrowStanding(lhs, i, carry) >= 0
    BY <1>0, <2>1
  <2> QED BY <1>0, <1>3, <2>2, <2>3, BorrowStep, Zenon
<1> QED BY <1>1, <1>2, <1>3

(* The operations that exess calls by itself are called as they may be.    *)
LEMMA OthersAreLegal ==
  ASSUME IInv
  PROVE  /\ Doing("shift_left") => Shiftable(lhs, Arg)
         /\ Doing("subtract") => Subtractable(lhs, 0)
         /\ Doing("subtract_left_shifted") => Subtractable(lhs, Arg)
<1>1. SUFFICES ASSUME NEW op \in {"shift_left", "subtract", "subtract_left_shifted"}, Doing(op)
               PROVE  /\ op = "shift_left" => Shiftable(lhs, Arg)
                      /\ op = "subtract" => Subtractable(lhs, 0)
                      /\ op = "subtract_left_shifted" => Subtractable(lhs, Arg)
  BY Zenon
<1>2. pc = "next" /\ pc # "idle" /\ todo # <<>> /\ Head(todo).op = op
  BY <1>1 DEF Doing
<1>3. Head(todo).op \notin Composite
  BY <1>1, <1>2 DEF Composite
<1>4. /\ Machine /\ Typed(called) /\ Standing \in Nat /\ Value(held) \in Nat
      /\ rhs \in Numbers /\ lhs \in Numbers /\ Clamped(lhs) /\ Standing = Value(lhs)
      /\ Plan(Standing, todo, called, Value(held), rhs, quotient)
  BY <1>2, CourseIs
<1>5. Legal(Head(todo), Standing, rhs)
  BY <1>2, <1>3, <1>4, PlanBegins, Zenon
<1>6. ASSUME op = "shift_left" PROVE Shiftable(lhs, Arg)
  <2>1. \A x \in Numbers : Clamped(x) /\ Value(x) = Standing => Shiftable(x, Arg)
    BY <1>2, <1>5, <1>6, Zenon DEF Legal, Arg
  <2> QED BY <1>4, <2>1
<1>7. ASSUME op \in Subtracts PROVE Subtractable(lhs, Arg)
  BY <1>2, <1>4, <1>5, <1>7, Zenon DEF Legal, Arg, Subtractable
<1>8. ASSUME op = "subtract" PROVE Arg = 0
  BY <1>2, <1>5, <1>8, Zenon DEF Legal, Arg
<1> QED BY <1>6, <1>7, <1>8 DEF Subtracts

(* The assertions of bigint.c hold wherever one of its functions calls     *)
(* another, and no carry or borrow leaves the array.                       *)
THEOREM AssertionsAreMet == Spec => []AssertionsHold
<1>1. IInv => AssertionsHold
  <2>1. SUFFICES ASSUME IInv PROVE AssertionsHold
    OBVIOUS
  <2>2. Machine
    BY <2>1 DEF IInv
  <2> QED BY <2>1, <2>2, CarriesStayInside, OthersAreLegal, Zenon DEF AssertionsHold
<1> QED BY <1>1, Invariance, PTL

-----------------------------------------------------------------------------
(* The digits that the client starts with are the numbers it starts with.  *)
LEMMA InitIsNatural == Init => Natural!Init
<1>1. SUFFICES ASSUME Init PROVE Natural!Init
  OBVIOUS
<1>2. PICK v \in Initial, u \in Initial : lhs = OfValue(v) /\ rhs = OfValue(u)
  BY <1>1 DEF Init
<1>3. Power(Base, MaxBigits) \in Nat
  BY Places, WidthAssumption
<1>4. /\ v \in Nat /\ v < Power(Base, MaxBigits) /\ u \in Nat /\ u < Power(Base, MaxBigits)
  BY <1>3, InitialAssumption
<1>5. Value(lhs) = v /\ Value(rhs) = u
  BY <1>2, <1>4, OfValueExact
<1>6. held = lhs /\ pc = "idle" /\ quotient = 0
  BY <1>1 DEF Init
<1> QED BY <1>5, <1>6 DEF Natural!Init, Natural!NoCall, NoCall, Primitive

LEMMA ResultIs ==
  ASSUME pc # "idle"
  PROVE  Natural!Result = Outcome(called, Value(held), Value(rhs))
BY DEF Natural!Result, Outcome, Natural!Power, Power

LEMMA StepIsNatural ==
  ASSUME IInv, [Next]_vars
  PROVE  [Natural!Next]_(Natural!vars)
<1>1. CASE Work
  <2>1. pc # "idle" /\ pc' # "idle" /\ UNCHANGED <<called, held, rhs>>
    BY <1>1, WorkKeeps
  <2> QED BY <2>1 DEF Natural!vars
<1>2. CASE Call
  <2>1. /\ pc = "idle" /\ pc' # "idle" /\ called' \in Calls /\ UNCHANGED <<held, rhs>>
    BY <1>2, CallKeeps
  <2>2. Natural!Request
    BY <2>1 DEF Natural!Request, Natural!NoCall, NoCall, Primitive
  <2> QED BY <2>2 DEF Natural!Next
<1>3. CASE Exchange
  <2>1. /\ pc = "idle" /\ pc' = "idle" /\ held = lhs /\ held' = rhs /\ rhs' = held
        /\ UNCHANGED quotient
    BY <1>3, ExchangeKeeps
  <2>2. Natural!Exchange
    BY <2>1 DEF Natural!Exchange, Natural!NoCall, NoCall, Primitive
  <2> QED BY <2>2 DEF Natural!Next
<1>4. CASE Return
  <2>1. /\ pc # "idle" /\ pc' = "idle" /\ Typed(called)
        /\ Value(held') = Outcome(called, Value(held), Value(rhs))
        /\ quotient' = Quotient(called, Value(held), Value(rhs)) /\ UNCHANGED rhs
    BY <1>4, ReturnKeeps
  <2>2. called.op # "none"
    BY <2>1, TypedIs
  <2>3. Natural!Reply
    BY <2>1, <2>2, ResultIs
       DEF Natural!Reply, Natural!NoCall, NoCall, Primitive, Quotient
  <2> QED BY <2>3 DEF Natural!Next
<1>5. CASE UNCHANGED vars
  BY <1>5 DEF vars, Natural!vars
<1> QED BY <1>1, <1>2, <1>3, <1>4, <1>5, NextIs

(* Each behaviour of the loops is, step by step, one of NaturalNumber: a   *)
(* call of bigint.c is answered by one operation on natural numbers, and   *)
(* every other step leaves them alone.                                     *)
THEOREM StepsAreNatural == Spec => Natural!Init /\ [][Natural!Next]_(Natural!vars)
<1>1. Init => Natural!Init
  BY InitIsNatural
<1>2. IInv /\ [Next]_vars => [Natural!Next]_(Natural!vars)
  BY StepIsNatural
<1> QED BY <1>1, <1>2, Invariance, PTL DEF Spec

-----------------------------------------------------------------------------
(***************************************************************************)
(* The comparison of a sum that is never computed.                         *)
(***************************************************************************)

IsRest(rest, l, p, c) ==
  rest = [j \in 0..c.n |->
            IF j = c.n THEN 0
            ELSE rest[j + 1] * Base + c.bigits[j] - l.bigits[j] - p.bigits[j]]

RestOf(l, p, c) == CHOOSE rest : IsRest(rest, l, p, c)

(* What the digits of c at a place are ahead of those of the sum.          *)
Lead(l, p, c, j) == c.bigits[j] - l.bigits[j] - p.bigits[j]

LEMMA LeadIs ==
  ASSUME NEW l \in Numbers, NEW p \in Numbers, NEW c \in Numbers
  PROVE  \A j \in 0..(MaxBigits - 1) : Lead(l, p, c, j) \in Int
BY DigitsAre DEF Lead

(* The recursion from the top has a solution.                              *)
LEMMA RestIs ==
  ASSUME NEW l \in Numbers, NEW p \in Numbers, NEW c \in Numbers
  PROVE  /\ \A j \in 0..c.n : RestOf(l, p, c)[j] \in Int
         /\ RestOf(l, p, c)[c.n] = 0
         /\ \A j \in 0..(c.n - 1) :
              RestOf(l, p, c)[j] = RestOf(l, p, c)[j + 1] * Base + Lead(l, p, c, j)
<1> DEFINE Term(k) == IF k < c.n THEN Lead(l, p, c, c.n - (k + 1)) ELSE 0
           s == [q \in Nat \X Int |-> q[2] * Base + Term(q[1])]
<1>0. c.n \in Nat /\ c.n <= MaxBigits /\ MaxBigits \in Nat /\ Base \in Nat
  BY DigitsAre, WidthAssumption, BaseNat
<1>1. \A k \in Nat : Term(k) \in Int
  <2>1. SUFFICES ASSUME NEW k \in Nat, k < c.n PROVE Lead(l, p, c, c.n - (k + 1)) \in Int
    OBVIOUS
  <2>2. c.n - (k + 1) \in 0..(MaxBigits - 1)
    BY <1>0, <2>1
  <2> QED BY <2>2, LeadIs
<1>2. s \in [Nat \X Int -> Int]
  <2> HIDE DEF Term
  <2> QED BY <1>0, <1>1
<1>3. PICK f \in [Nat -> Int] : f[0] = 0 /\ \A k \in Nat : f[k + 1] = s[<<k, f[k]>>]
  <2>1. 0 \in Int
    OBVIOUS
  <2> HIDE DEF s
  <2> QED BY <1>2, <2>1, Recursion, Zenon
<1>4. \A k \in Nat : f[k + 1] = f[k] * Base + Term(k)
  <2> HIDE DEF Term
  <2> QED BY <1>3
<1> DEFINE w == [j \in 0..c.n |-> f[c.n - j]]
<1>5. \A j \in 0..c.n : c.n - j \in Nat /\ w[j] \in Int
  BY <1>0
<1>6. \A j \in 0..(c.n - 1) : w[j] = w[j + 1] * Base + Lead(l, p, c, j)
  <2>1. SUFFICES ASSUME NEW j \in 0..(c.n - 1) PROVE w[j] = w[j + 1] * Base + Lead(l, p, c, j)
    OBVIOUS
  <2>2. PICK k \in Nat : k = c.n - (j + 1) /\ k + 1 = c.n - j /\ k < c.n
                         /\ c.n - (k + 1) = j /\ j \in 0..c.n /\ j + 1 \in 0..c.n
    BY <1>0
  <2>3. Term(k) = Lead(l, p, c, j)
    BY <2>2
  <2> HIDE DEF Term
  <2>4. f[k + 1] = f[k] * Base + Term(k)
    BY <1>4
  <2>5. w[j] = f[k + 1] /\ w[j + 1] = f[k]
    BY <2>2
  <2> QED BY <2>3, <2>4, <2>5
<1>7. w[c.n] = 0
  <2>1. c.n \in 0..c.n /\ c.n - c.n = 0
    BY <1>0
  <2> QED BY <1>3, <2>1
<1> HIDE DEF w, s, Term
<1>8. \A j \in 0..(c.n - 1) :
        Lead(l, p, c, j) = c.bigits[j] - l.bigits[j] - p.bigits[j] /\ w[j + 1] \in Int
        /\ c.bigits[j] \in Int /\ l.bigits[j] \in Int /\ p.bigits[j] \in Int
  <2>1. SUFFICES ASSUME NEW j \in 0..(c.n - 1)
                 PROVE  /\ w[j + 1] \in Int /\ c.bigits[j] \in Int
                        /\ l.bigits[j] \in Int /\ p.bigits[j] \in Int
    BY DEF Lead
  <2>2. j \in 0..(MaxBigits - 1) /\ j + 1 \in 0..c.n
    BY <1>0
  <2> QED BY <1>5, <2>2, DigitsAre
<1>9. \A j \in 0..(c.n - 1) :
        w[j] = w[j + 1] * Base + c.bigits[j] - l.bigits[j] - p.bigits[j]
  BY <1>0, <1>6, <1>8
<1>10. IsRest(w, l, p, c)
  <2>1. \A j \in 0..c.n : j = c.n \/ j \in 0..(c.n - 1)
    BY <1>0
  <2>2. \A j \in 0..c.n :
          w[j] = IF j = c.n THEN 0
                 ELSE w[j + 1] * Base + c.bigits[j] - l.bigits[j] - p.bigits[j]
    BY <1>7, <1>9, <2>1, Zenon
  <2>3. w = [j \in 0..c.n |-> w[j]]
    BY DEF w
  <2> QED BY <2>2, <2>3 DEF IsRest
<1>11. IsRest(RestOf(l, p, c), l, p, c)
  BY <1>10, Zenon DEF RestOf
<1>12. PICK r : r = RestOf(l, p, c) /\ IsRest(r, l, p, c)
  BY <1>11
<1>13. r[c.n] = 0
  <2>1. c.n \in 0..c.n
    BY <1>0
  <2> QED BY <1>12, <2>1, Zenon DEF IsRest
<1>14. \A j \in 0..(c.n - 1) : r[j] = r[j + 1] * Base + c.bigits[j] - l.bigits[j] - p.bigits[j]
  <2>1. SUFFICES ASSUME NEW j \in 0..(c.n - 1)
                 PROVE  r[j] = r[j + 1] * Base + c.bigits[j] - l.bigits[j] - p.bigits[j]
    OBVIOUS
  <2>2. j \in 0..c.n /\ j # c.n
    BY <1>0
  <2>3. r[j] = IF j = c.n THEN 0
               ELSE r[j + 1] * Base + c.bigits[j] - l.bigits[j] - p.bigits[j]
    BY <1>12, <2>2, Zenon DEF IsRest
  <2> QED BY <2>2, <2>3
(* Downwards, by induction on the distance from the top.                   *)
<1>15. \A k \in Nat : k <= c.n => r[c.n - k] \in Int
  <2> DEFINE S == {k \in Nat : k <= c.n => r[c.n - k] \in Int}
  <2>1. 0 \in S
    BY <1>0, <1>13
  <2>2. ASSUME NEW k \in Nat, k \in S PROVE k + 1 \in S
    <3>1. SUFFICES ASSUME k + 1 <= c.n PROVE r[c.n - (k + 1)] \in Int
      OBVIOUS
    <3>2. PICK j \in 0..(c.n - 1) : j = c.n - (k + 1) /\ j + 1 = c.n - k
      BY <1>0, <3>1
    <3>3. r[j + 1] \in Int
      BY <1>0, <2>2, <3>1, <3>2
    <3>4. r[j] = r[j + 1] * Base + c.bigits[j] - l.bigits[j] - p.bigits[j]
      BY <1>14
    <3>5. c.bigits[j] \in Int /\ l.bigits[j] \in Int /\ p.bigits[j] \in Int
      BY <1>8
    <3> QED BY <1>0, <3>2, <3>3, <3>4, <3>5
  <2>3. Nat \subseteq S
    <3> HIDE DEF S
    <3> QED BY <2>1, <2>2, Induction
  <2> QED BY <2>3
<1>16. \A j \in 0..c.n : r[j] \in Int
  <2>1. \A j \in 0..c.n : c.n - j \in Nat /\ c.n - j <= c.n /\ c.n - (c.n - j) = j
    BY <1>0
  <2> QED BY <1>15, <2>1
<1>17. \A j \in 0..(c.n - 1) : r[j] = r[j + 1] * Base + Lead(l, p, c, j)
  <2>1. \A j \in 0..(c.n - 1) : j + 1 \in 0..c.n
    BY <1>0
  <2> QED BY <1>0, <1>8, <1>14, <1>16, <2>1
<1> QED BY <1>12, <1>13, <1>16, <1>17

(* What the digits below the j-th are ahead.                               *)
LeadUpto(l, p, c, j) == Upto(c, j) - Upto(l, j) - Upto(p, j)

LEMMA LeadUptoIs ==
  ASSUME NEW l \in Numbers, NEW p \in Numbers, NEW c \in Numbers
  PROVE  /\ \A j \in 0..MaxBigits : LeadUpto(l, p, c, j) \in Int
         /\ LeadUpto(l, p, c, 0) = 0
         /\ \A j \in 0..(MaxBigits - 1) :
              LeadUpto(l, p, c, j + 1) = LeadUpto(l, p, c, j) + Lead(l, p, c, j) * Power(Base, j)
<1>0. MaxBigits \in Nat
  BY WidthAssumption
<1>1. \A j \in 0..MaxBigits : Upto(c, j) \in Int /\ Upto(l, j) \in Int /\ Upto(p, j) \in Int
  BY UptoIs
<1>2. Upto(c, 0) = 0 /\ Upto(l, 0) = 0 /\ Upto(p, 0) = 0
  BY UptoIs
<1>3. ASSUME NEW j \in 0..(MaxBigits - 1)
      PROVE  LeadUpto(l, p, c, j + 1) = LeadUpto(l, p, c, j) + Lead(l, p, c, j) * Power(Base, j)
  <2>1. j \in 0..MaxBigits /\ j \in Nat
    BY <1>0
  <2>2. PICK q \in Nat, d \in Nat, e \in Nat, f \in Nat :
          q = Power(Base, j) /\ d = c.bigits[j] /\ e = l.bigits[j] /\ f = p.bigits[j]
    BY <2>1, DigitsAre, Places
  <2>3. PICK t \in Int, u \in Int, v \in Int :
          t = Upto(c, j) /\ u = Upto(l, j) /\ v = Upto(p, j)
    BY <1>1, <2>1
  <2>4. /\ Upto(c, j + 1) = t + d * q /\ Upto(l, j + 1) = u + e * q
        /\ Upto(p, j + 1) = v + f * q
    BY <2>2, <2>3, UptoIs
  <2>5. d * q \in Int /\ e * q \in Int /\ f * q \in Int /\ (d - e - f) * q = d * q - e * q - f * q
    OBVIOUS
  <2>6. (t + d * q) - (u + e * q) - (v + f * q) = (t - u - v) + (d - e - f) * q
    BY <2>5
  <2> QED BY <2>2, <2>3, <2>4, <2>6 DEF LeadUpto, Lead
<1> QED BY <1>1, <1>2, <1>3 DEF LeadUpto

(* At every place, what c is ahead is what it is in the digits from there  *)
(* on, and in those below.                                                 *)
LEMMA RestSplits ==
  ASSUME NEW l \in Numbers, NEW p \in Numbers, NEW c \in Numbers
  PROVE  \A j \in 0..c.n :
           LeadUpto(l, p, c, c.n) = RestOf(l, p, c)[j] * Power(Base, j) + LeadUpto(l, p, c, j)
<1> DEFINE r == RestOf(l, p, c)
           Splits(j) == LeadUpto(l, p, c, c.n) = r[j] * Power(Base, j) + LeadUpto(l, p, c, j)
           S == {k \in Nat : k <= c.n => Splits(c.n - k)}
<1>0. c.n \in Nat /\ c.n <= MaxBigits /\ MaxBigits \in Nat /\ Base \in Nat
  BY DigitsAre, WidthAssumption, BaseNat
<1>1. 0 \in S
  <2>1. r[c.n] = 0 /\ Power(Base, c.n) \in Nat /\ c.n - 0 = c.n
    <3>1. r[c.n] = 0
      BY RestIs
    <3>2. Power(Base, c.n) \in Nat /\ c.n - 0 = c.n
      BY <1>0, Places
    <3> QED BY <3>1, <3>2
  <2>2. LeadUpto(l, p, c, c.n) \in Int
    BY <1>0, LeadUptoIs
  <2> HIDE DEF r
  <2>3. r[c.n] * Power(Base, c.n) = 0
    BY <2>1
  <2> QED BY <2>1, <2>2, <2>3
<1>2. ASSUME NEW k \in Nat, k \in S PROVE k + 1 \in S
  <2>1. SUFFICES ASSUME k + 1 <= c.n PROVE Splits(c.n - (k + 1))
    OBVIOUS
  <2>2. PICK j \in 0..(c.n - 1) : j = c.n - (k + 1) /\ j + 1 = c.n - k
    BY <1>0, <2>1
  <2>3. j \in Nat /\ j \in 0..(MaxBigits - 1) /\ j \in 0..MaxBigits /\ j + 1 \in 0..c.n
        /\ k <= c.n
    BY <1>0, <2>1
  <2>4. Splits(j + 1)
    BY <1>2, <2>2, <2>3
  <2>5. PICK q \in Nat, b \in Nat, d \in Int, t \in Int, u \in Int :
          /\ q = Power(Base, j) /\ b = Base /\ d = Lead(l, p, c, j) /\ t = r[j + 1]
          /\ u = LeadUpto(l, p, c, j)
    BY <1>0, <2>3, LeadIs, LeadUptoIs, RestIs, Places
  <2>6. /\ r[j] = t * b + d /\ Power(Base, j + 1) = b * q
        /\ LeadUpto(l, p, c, j + 1) = u + d * q
    <3>1. r[j] = r[j + 1] * Base + Lead(l, p, c, j)
      BY <2>3, RestIs
    <3>2. Power(Base, j + 1) = Base * Power(Base, j)
      BY <2>3, Places
    <3>3. LeadUpto(l, p, c, j + 1) = LeadUpto(l, p, c, j) + Lead(l, p, c, j) * Power(Base, j)
      BY <2>3, LeadUptoIs
    <3> QED BY <2>5, <3>1, <3>2, <3>3, Zenon
  <2> HIDE DEF r
  <2>7. t * (b * q) + (u + d * q) = (t * b + d) * q + u
    <3>1. t * (b * q) = (t * b) * q /\ (t * b + d) * q = (t * b) * q + d * q
      OBVIOUS
    <3>2. (t * b) * q \in Int /\ d * q \in Int
      OBVIOUS
    <3> QED BY <3>1, <3>2
  <2>8. Splits(j)
    BY <2>4, <2>5, <2>6, <2>7
  <2> QED BY <2>2, <2>8
<1>3. Nat \subseteq S
  <2> HIDE DEF S
  <2> QED BY <1>1, <1>2, Induction
<1>4. ASSUME NEW j \in 0..c.n PROVE Splits(j)
  <2>1. c.n - j \in Nat /\ c.n - j <= c.n /\ c.n - (c.n - j) = j
    BY <1>0
  <2>2. c.n - j \in S
    BY <1>3, <2>1
  <2> HIDE DEF Splits
  <2> QED BY <2>1, <2>2
<1> QED BY <1>4

(* A place where the rest is negative, or more than one, decides.          *)
LEMMA RestDecides ==
  ASSUME NEW l \in Numbers, NEW p \in Numbers, NEW c \in Numbers, NEW j \in 0..c.n
  PROVE  /\ RestOf(l, p, c)[j] < 0 => LeadUpto(l, p, c, c.n) < 0
         /\ RestOf(l, p, c)[j] > 1 => LeadUpto(l, p, c, c.n) > 0
<1>0. j \in Nat /\ j \in 0..MaxBigits
  <2>1. c.n \in Nat /\ c.n <= MaxBigits /\ MaxBigits \in Nat
    BY DigitsAre, WidthAssumption
  <2> QED BY <2>1
<1>1. PICK r \in Int, q \in Nat, t \in Nat, u \in Nat, v \in Nat :
        /\ r = RestOf(l, p, c)[j] /\ q = Power(Base, j)
        /\ t = Upto(c, j) /\ u = Upto(l, j) /\ v = Upto(p, j) /\ t < q /\ u < q /\ v < q
  BY <1>0, RestIs, UptoBound, Places
<1>2. LeadUpto(l, p, c, c.n) = r * q + (t - u - v)
  BY <1>1, RestSplits DEF LeadUpto
<1>3. r * q \in Int
  OBVIOUS
<1>4. ASSUME r < 0 PROVE r * q + (t - u - v) < 0
  <2>1. r * q <= (-1) * q
    BY <1>4
  <2> QED BY <1>1, <1>3, <2>1
<1>5. ASSUME r > 1 PROVE r * q + (t - u - v) > 0
  <2>1. r * q >= 2 * q
    BY <1>5
  <2> QED BY <1>1, <1>3, <2>1
<1> QED BY <1>1, <1>2, <1>4, <1>5

(* The first number is not the shorter, and no carry makes the sum longer  *)
(* than it unless the second is as long.                                   *)
LEMMA PlusCompareLongerExact ==
  ASSUME NEW l \in Numbers, NEW p \in Numbers, NEW c \in Numbers,
         WellFormed(l), WellFormed(p), WellFormed(c), p.n <= l.n,
         l.n = p.n \/ Value(l) + Value(p) < Power(Base, l.n)
  PROVE  PlusCompareLonger(l, p, c) = SignOf(Value(l) + Value(p) - Value(c))
<1> DEFINE r == RestOf(l, p, c)
           Decides(j) == r[j] < 0 \/ OutOfReach(r[j])
<1>0. /\ l.n \in Nat /\ p.n \in Nat /\ c.n \in Nat /\ c.n <= MaxBigits /\ MaxBigits \in Nat
      /\ l.n <= MaxBigits /\ Clamped(l) /\ Clamped(p) /\ Clamped(c)
      /\ Value(l) \in Nat /\ Value(p) \in Nat /\ Value(c) \in Nat
  BY DigitsAre, WidthAssumption, ValueIs DEF WellFormed
<1>1. PlusCompareLonger(l, p, c) =
        IF l.n + 1 < c.n THEN -1
        ELSE IF l.n > c.n THEN 1
        ELSE IF p.n < l.n /\ l.n < c.n THEN -1
        ELSE IF \E j \in 0..(c.n - 1) : Decides(j)
             THEN IF r[Highest(c.n, Decides)] < 0 THEN 1 ELSE -1
        ELSE IF r[0] > 0 THEN -1 ELSE 0
  BY Zenon DEF PlusCompareLonger, RestOf, IsRest
<1>2. PICK x \in Nat, y \in Nat, z \in Nat : x = Value(l) /\ y = Value(p) /\ z = Value(c)
  BY <1>0
<1>3. CASE l.n + 1 < c.n
  <2>1. PICK q \in Nat, s \in Nat, b \in Nat :
          /\ q = Power(Base, l.n) /\ s = Power(Base, l.n + 1) /\ s = b * q /\ b >= 2
    <3>1. /\ Power(Base, l.n) \in Nat /\ Power(Base, l.n + 1) = Base * Power(Base, l.n)
          /\ l.n + 1 \in Nat
      BY <1>0, Places
    <3>2. Power(Base, l.n + 1) \in Nat
      BY <3>1, Places
    <3> QED BY <3>1, <3>2, BaseNat
  <2>2. x < q /\ y < q
    <3>1. y < Power(Base, p.n) /\ Power(Base, p.n) <= Power(Base, l.n)
          /\ Power(Base, p.n) \in Nat
      BY <1>0, <1>2, ValueIs, PlacesGrow, Places
    <3>2. x < q
      BY <1>2, <2>1, ValueIs
    <3> QED BY <2>1, <3>1, <3>2
  <2>3. s <= z
    <3>1. l.n + 1 <= c.n - 1 /\ l.n + 1 \in Nat /\ c.n - 1 \in Nat /\ c.n > 0
      BY <1>0, <1>3
    <3>2. Power(Base, l.n + 1) <= Power(Base, c.n - 1) /\ Power(Base, c.n - 1) \in Nat
      BY <3>1, PlacesGrow, Places
    <3>3. z >= Power(Base, c.n - 1)
      BY <1>0, <1>2, <3>1, ValueIs
    <3> QED BY <2>1, <3>2, <3>3
  <2>4. b * q >= 2 * q
    BY <2>1
  <2>5. x + y - z < 0
    BY <2>1, <2>2, <2>3, <2>4
  <2> QED BY <1>1, <1>2, <1>3, <2>5 DEF SignOf
<1>4. CASE l.n > c.n
  <2>1. z < x
    BY <1>0, <1>2, <1>4, LongerIsGreater
  <2>2. x + y - z > 0 /\ ~(x + y - z < 0)
    BY <2>1
  <2>3. ~(l.n + 1 < c.n)
    BY <1>0, <1>4
  <2> QED BY <1>1, <1>2, <1>4, <2>2, <2>3 DEF SignOf
<1>5. CASE ~(l.n + 1 < c.n) /\ ~(l.n > c.n) /\ p.n < l.n /\ l.n < c.n
  <2>1. c.n - 1 = l.n /\ c.n > 0
    BY <1>0, <1>5
  <2>2. z >= Power(Base, l.n) /\ Power(Base, l.n) \in Nat
    BY <1>0, <1>2, <2>1, ValueIs, Places
  <2>3. x + y < Power(Base, l.n)
    BY <1>0, <1>2, <1>5
  <2>4. x + y - z < 0
    BY <2>2, <2>3
  <2> QED BY <1>1, <1>2, <1>5, <2>4 DEF SignOf
<1>6. CASE ~(l.n + 1 < c.n) /\ ~(l.n > c.n) /\ ~(p.n < l.n /\ l.n < c.n)
  <2>1. LeadUpto(l, p, c, c.n) = z - x - y
    <3>1. \A u \in Numbers : WellFormed(u) /\ u.n <= c.n => Upto(u, c.n) = Value(u)
      <4>1. SUFFICES ASSUME NEW u \in Numbers, WellFormed(u), u.n <= c.n
                     PROVE  Upto(u, c.n) = Value(u)
        OBVIOUS
      <4>2. u.n \in 0..MaxBigits /\ c.n \in 0..MaxBigits /\ c.n >= u.n
        BY <1>0, <4>1, DigitsAre
      <4>3. \A k \in 0..(MaxBigits - 1) : k >= u.n => u.bigits[k] = 0
        BY <4>1 DEF WellFormed, ZeroAbove, Indices
      <4> QED BY <4>2, <4>3, UptoZeros DEF Value
    <3>2. l.n <= c.n /\ p.n <= c.n /\ c.n <= c.n
      BY <1>0, <1>6
    <3> QED BY <1>2, <3>1, <3>2 DEF LeadUpto
  <2>2. \A j \in 0..c.n : r[j] \in Int /\ (r[j] < 0 => z - x - y < 0)
                                      /\ (r[j] > 1 => z - x - y > 0)
    BY <2>1, RestIs, RestDecides
  <2> HIDE DEF r
  <2>3. CASE \E j \in 0..(c.n - 1) : Decides(j)
    <3> DEFINE D == {j \in 0..(c.n - 1) : Decides(j)}
               h == Highest(c.n, Decides)
    <3>1. \E j \in 0..(c.n - 1) : j \in D /\ \A k \in (j + 1)..(c.n - 1) : k \notin D
      <4>1. \E j \in 0..(c.n - 1) : j \in D
        BY <2>3
      <4> HIDE DEF D
      <4> QED BY <1>0, <4>1, HighestExists
    <3>2. PICK j \in 0..(c.n - 1) : Decides(j) /\ \A k \in (j + 1)..(c.n - 1) : ~Decides(k)
      <4>1. PICK j \in 0..(c.n - 1) : j \in D /\ \A k \in (j + 1)..(c.n - 1) : k \notin D
        BY <3>1
      <4>2. \A k \in (j + 1)..(c.n - 1) : k \in 0..(c.n - 1)
        BY <1>0
      <4> QED BY <4>1, <4>2
    <3>3. h \in 0..(c.n - 1) /\ Decides(h)
      BY <3>2, Zenon DEF Highest
    <3>4. r[h] < 0 \/ r[h] > 1
      BY <3>3 DEF OutOfReach
    <3> HIDE DEF h
    <3>5. h \in 0..c.n
      BY <1>0, <3>3
    <3>6. r[h] \in Int /\ (r[h] < 0 => z - x - y < 0) /\ (r[h] > 1 => z - x - y > 0)
      BY <2>2, <3>5
    <3>7. PlusCompareLonger(l, p, c) = IF r[h] < 0 THEN 1 ELSE -1
      BY <1>1, <1>6, <2>3, Zenon DEF h
    <3>8. CASE r[h] < 0
      <4>1. x + y - z > 0 /\ ~(x + y - z < 0)
        BY <3>6, <3>8
      <4> QED BY <1>2, <3>7, <3>8, <4>1 DEF SignOf
    <3>9. CASE r[h] > 1
      <4>1. x + y - z < 0 /\ ~(r[h] < 0)
        BY <3>6, <3>9
      <4> QED BY <1>2, <3>7, <4>1 DEF SignOf
    <3> QED BY <3>4, <3>8, <3>9
  <2>4. CASE ~\E j \in 0..(c.n - 1) : Decides(j)
    <3>1. PlusCompareLonger(l, p, c) = IF r[0] > 0 THEN -1 ELSE 0
      BY <1>1, <1>6, <2>4, Zenon
    <3>2. r[0] \in {0, 1}
      <4>1. CASE c.n = 0
        <5>1. r[0] = 0
          BY <4>1, RestIs DEF r
        <5> QED BY <5>1
      <4>2. CASE c.n > 0
        <5>1. 0 \in 0..(c.n - 1) /\ 0 \in 0..c.n
          BY <1>0, <4>2
        <5>2. ~(r[0] < 0) /\ ~(r[0] > 1)
          BY <2>4, <5>1 DEF OutOfReach
        <5> QED BY <2>2, <5>1, <5>2
      <4> QED BY <1>0, <4>1, <4>2
    <3>3. z - x - y = r[0]
      <4>1. 0 \in 0..c.n
        BY <1>0
      <4>2. LeadUpto(l, p, c, c.n) = r[0] * Power(Base, 0) + LeadUpto(l, p, c, 0)
        BY <4>1, RestSplits DEF r
      <4>3. Power(Base, 0) = 1 /\ LeadUpto(l, p, c, 0) = 0
        BY Places, LeadUptoIs
      <4> QED BY <2>1, <3>2, <4>2, <4>3
    <3>4. CASE r[0] = 0
      <4>1. x + y - z = 0
        BY <3>3, <3>4
      <4> QED BY <1>2, <3>1, <3>4, <4>1 DEF SignOf
    <3>5. CASE r[0] = 1
      <4>1. x + y - z < 0
        BY <3>3, <3>5
      <4> QED BY <1>2, <3>1, <3>5, <4>1 DEF SignOf
    <3> QED BY <3>2, <3>4, <3>5
  <2> QED BY <2>3, <2>4
<1> QED BY <1>0, <1>3, <1>4, <1>5, <1>6

(* Comparisons of the two numbers, and of their sum with a third, are      *)
(* those of the natural numbers they stand for, unless a carry makes the   *)
(* sum of operands of unlike lengths longer than both.                     *)
THEOREM ComparisonsAreExact == Spec => []ComparisonsExact
<1>1. ASSUME lhs \in Numbers, rhs \in Numbers, WellFormed(lhs), WellFormed(rhs)
      PROVE  ComparisonsExact
  <2>1. Compare(lhs, rhs) = SignOf(Value(lhs) - Value(rhs))
    BY <1>1, CompareExact DEF WellFormed
  <2>2. ASSUME SumInLength, NEW v \in AroundSum PROVE PlusCompareAgrees(v)
    <3>1. lhs.n \in Nat /\ rhs.n \in Nat /\ Value(lhs) \in Nat /\ Value(rhs) \in Nat
      BY <1>1, DigitsAre, ValueIs
    <3>2. v \in Nat /\ v < Power(Base, MaxBigits)
      BY <2>2, <3>1 DEF AroundSum, Fits
    <3>3. PICK c \in Numbers : c = OfValue(v) /\ WellFormed(c) /\ Value(c) = v
      BY <3>2, OfValueExact
    <3>4. CASE lhs.n < rhs.n
      <4>1. Value(lhs) + Value(rhs) < Power(Base, rhs.n)
        BY <2>2, <3>1, <3>4 DEF SumInLength
      <4>2. Value(rhs) + Value(lhs) < Power(Base, rhs.n) /\ lhs.n <= rhs.n
        BY <3>1, <3>4, <4>1
      <4>3. PlusCompareLonger(rhs, lhs, c) = SignOf(Value(rhs) + Value(lhs) - Value(c))
        BY <1>1, <3>3, <4>2, PlusCompareLongerExact
      <4>4. Value(rhs) + Value(lhs) - v = Value(lhs) + Value(rhs) - v
        BY <3>1, <3>2
      <4>5. PlusCompare(lhs, rhs, c) = PlusCompareLonger(rhs, lhs, c)
        BY <3>4 DEF PlusCompare
      <4> QED BY <3>3, <4>3, <4>4, <4>5 DEF PlusCompareAgrees
    <3>5. CASE ~(lhs.n < rhs.n)
      <4>1. lhs.n = rhs.n \/ Value(lhs) + Value(rhs) < Power(Base, lhs.n)
        BY <2>2, <3>1, <3>5 DEF SumInLength
      <4>2. rhs.n <= lhs.n
        BY <3>1, <3>5
      <4>3. PlusCompareLonger(lhs, rhs, c) = SignOf(Value(lhs) + Value(rhs) - Value(c))
        BY <1>1, <3>3, <4>1, <4>2, PlusCompareLongerExact
      <4>4. PlusCompare(lhs, rhs, c) = PlusCompareLonger(lhs, rhs, c)
        BY <3>5 DEF PlusCompare
      <4> QED BY <3>3, <4>3, <4>4 DEF PlusCompareAgrees
    <3> QED BY <3>4, <3>5
  <2> QED BY <2>1, <2>2 DEF ComparisonsExact
<1>2. IInv => ComparisonsExact
  <2>1. SUFFICES ASSUME IInv, pc = "idle" PROVE ComparisonsExact
    BY DEF ComparisonsExact
  <2>2. lhs \in Numbers /\ rhs \in Numbers /\ WellFormed(lhs) /\ WellFormed(rhs)
    BY <2>1 DEF IInv, Machine
  <2> QED BY <1>1, <2>2
<1> QED BY <1>2, Invariance, PTL

=============================================================================
