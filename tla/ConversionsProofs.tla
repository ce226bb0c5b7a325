------------------------- MODULE ConversionsProofs -------------------------
(***************************************************************************)
(* Theorems about Conversions, for every set of jobs and bytes of two to   *)
(* eight bits: which values come back from a device as they were written,  *)
(* that descriptions are stable, that requests are understood, and what    *)
(* the forms of Modbus are completed to.                                   *)
(***************************************************************************)
EXTENDS Conversions, WellFoundedInduction, TLAPS

-----------------------------------------------------------------------------
(* Numbers in digits                                                       *)

Radices == {4, 8, 16, 32, 64, 128, 256}

LEMMA RadixIs == Radix \in Radices
<1>1. CASE Bits = 2
  BY <1>1 DEF Radix, Radices
<1>2. CASE Bits = 3
  BY <1>2 DEF Radix, Radices
<1>3. CASE Bits = 4
  BY <1>3 DEF Radix, Radices
<1>4. CASE Bits = 5
  BY <1>4 DEF Radix, Radices
<1>5. CASE Bits = 6
  BY <1>5 DEF Radix, Radices
<1>6. CASE Bits = 7
  BY <1>6 DEF Radix, Radices
<1>7. CASE Bits = 8
  BY <1>7 DEF Radix, Radices
<1>8. QED
  BY BitsAssumption, <1>1, <1>2, <1>3, <1>4, <1>5, <1>6, <1>7

\* The powers that occur; the provers know them of numerals only.
LEMMA Powers ==
    ASSUME NEW R \in Radices
    PROVE  R ^ 0 = 1 /\ R ^ 1 = R /\ R ^ 2 = R * R /\ R ^ 3 = R * R * R /\ R ^ 4 = R * R * R * R
<1>1. CASE R = 4
  BY <1>1, SMT
<1>2. CASE R = 8
  BY <1>2, SMT
<1>3. CASE R = 16
  BY <1>3, SMT
<1>4. CASE R = 32
  BY <1>4, SMT
<1>5. CASE R = 64
  BY <1>5, SMT
<1>6. CASE R = 128
  BY <1>6, SMT
<1>7. CASE R = 256
  BY <1>7, SMT
<1>8. QED
  BY <1>1, <1>2, <1>3, <1>4, <1>5, <1>6, <1>7 DEF Radices

LEMMA Division ==
    ASSUME NEW R \in Nat, R >= 4, NEW u \in Nat
    PROVE  /\ u \div R \in Nat /\ u % R \in 0 .. R - 1
           /\ (u \div R) * R + (u % R) = u
           /\ \A m \in Nat : u < m * R => u \div R < m
           /\ \A m \in Nat \ {0} : u \div (m * R) = (u \div R) \div m
<1>1. u \div R \in Nat /\ u % R \in 0 .. R - 1 /\ (u \div R) * R + (u % R) = u
  BY SMT
<1>2. \A m \in Nat : u < m * R => u \div R < m
  BY SMT
<1>3. \A m \in Nat \ {0} : u \div (m * R) = (u \div R) \div m
  BY SMT
<1>4. QED
  BY <1>1, <1>2, <1>3

LEMMA TwoDigits ==
    ASSUME NEW R \in Nat, R >= 4, NEW u \in Nat, u < R * R
    PROVE  ((u \div R) % R) * R + (u % R) = u
<1>1. u \div R \in Nat /\ u \div R < R
  BY Division
<1>2. (u \div R) % R = u \div R
  BY <1>1, SMT
<1>3. QED
  BY <1>2, Division

LEMMA FourDigits ==
    ASSUME NEW R \in Nat, R >= 4, NEW u \in Nat, u < R * R * R * R
    PROVE  ((((u \div (R * R * R)) % R) * R + ((u \div (R * R)) % R)) * R + ((u \div R) % R)) * R
             + (u % R) = u
<1> DEFINE v == u \div R
           w == v \div R
<1>1. v \in Nat /\ v * R + (u % R) = u /\ u \div (R * R) = v \div R
      /\ u \div (R * R * R) = v \div (R * R) /\ v < R * R * R
  <2>1. R * R \in Nat \ {0} /\ R \in Nat \ {0} /\ R * R * R \in Nat /\ u < (R * R * R) * R
    BY SMT
  <2>2. QED
    BY <2>1, Division
<1> HIDE DEF v
<1>2. w \in Nat /\ w * R + (v % R) = v /\ v \div (R * R) = w \div R /\ w < R * R
  <2>1. R * R \in Nat /\ R \in Nat \ {0} /\ v < (R * R) * R
    BY <1>1, SMT
  <2>2. QED
    BY <1>1, <2>1, Division
<1> HIDE DEF w
<1>3. ((w \div R) % R) * R + (w % R) = w
  BY <1>2, TwoDigits
<1>4. /\ (u \div (R * R * R)) % R = (w \div R) % R
      /\ (u \div (R * R)) % R = w % R
      /\ (u \div R) % R = v % R
  BY <1>1, <1>2 DEF v, w
<1>5. QED
  BY <1>1, <1>2, <1>3, <1>4

-----------------------------------------------------------------------------
(* Bytes                                                                   *)

\* What holds of 0 and passes from each number to the next, holds up to n.
LEMMA CountUp ==
    ASSUME NEW S, NEW n \in Nat, 0 \in S, \A k \in 1..n : k - 1 \in S => k \in S
    PROVE  \A k \in 0..n : k \in S
<1> DEFINE Missing == {k \in 0..n : k \notin S}
<1>1. Missing \subseteq Nat
  OBVIOUS
<1>2. ASSUME Missing # {} PROVE FALSE
  <2>1. IsWellFoundedOn(OpToRel(<, Nat), Nat)
    BY NatLessThanWellFounded
  <2>2. PICK m \in Missing : \A k \in Missing : ~(<<k, m>> \in OpToRel(<, Nat))
    BY <1>1, <1>2, <2>1, WFMin
  <2>3. \A k \in Missing : ~(k < m)
    BY <1>1, <2>2 DEF OpToRel
  <2>4. m \in 0..n /\ m # 0 /\ m \notin S
    BY <2>2
  <2>5. m \in 1..n /\ m - 1 \in 0..n /\ m - 1 < m
    BY <2>4
  <2>6. m - 1 \in S
    BY <2>3, <2>5
  <2>7. QED
    BY <2>4, <2>5, <2>6
<1>3. QED
  BY <1>2

\* Reversing a sequence permutes its elements; reversing it again restores it.
LEMMA ReverseType ==
    ASSUME NEW S, NEW n \in Nat, NEW s \in [1..n -> S]
    PROVE  Reverse(s) \in [1..n -> S]
<1>1. Len(s) = n /\ s \in Seq(S)
  OBVIOUS
<1>2. \A i \in 1..n : n - i + 1 \in 1..n
  OBVIOUS
<1>3. [i \in 1..n |-> s[n - i + 1]] \in [1..n -> S]
  BY <1>2
<1>4. Reverse(s) = [i \in 1..Len(s) |-> s[Len(s) - i + 1]]
  BY DEF Reverse
<1>5. Reverse(s) = [i \in 1..n |-> s[n - i + 1]]
  BY <1>1, <1>4
<1>6. QED
  BY <1>3, <1>5

LEMMA ReverseAt ==
    ASSUME NEW S, NEW n \in Nat, NEW s \in [1..n -> S]
    PROVE  /\ \A i \in 1..n : n - i + 1 \in 1..n
           /\ Reverse(s) = [i \in 1..n |-> s[n - i + 1]]
<1>1. Len(s) = n /\ s \in Seq(S)
  OBVIOUS
<1>2. Reverse(s) = [i \in 1..Len(s) |-> s[Len(s) - i + 1]]
  BY DEF Reverse
<1>3. QED
  BY <1>1, <1>2

LEMMA ReverseBack ==
    ASSUME NEW S, NEW n \in Nat, NEW s \in [1..n -> S]
    PROVE  /\ Reverse(Reverse(s)) = s
           /\ n = 1 => Reverse(s) = s
<1> DEFINE r == Reverse(s)
<1>a. r = [i \in 1..n |-> s[n - i + 1]]
  BY ReverseAt
<1>b. r \in [1..n -> S]
  BY ReverseType
<1> HIDE DEF r
<1>1. r \in [1..n -> S] /\ \A i \in 1..n : n - i + 1 \in 1..n /\ r[i] = s[n - i + 1]
  BY <1>a, <1>b
<1>2. Reverse(r) = [i \in 1..n |-> r[n - i + 1]]
  BY <1>1, ReverseAt
<1>3. \A i \in 1..n : r[n - i + 1] = s[i]
  <2>1. \A i \in 1..n : r[n - i + 1] = s[n - (n - i + 1) + 1]
    BY <1>1
  <2>2. \A i \in 1..n : n - (n - i + 1) + 1 = i
    OBVIOUS
  <2>3. QED
    BY <2>1, <2>2
<1>4. Reverse(r) = s
  BY <1>2, <1>3
<1>5. ASSUME n = 1 PROVE r = s
  <2>1. r[1] = s[1]
    BY <1>1, <1>5
  <2>2. QED
    BY <1>1, <1>5, <2>1
<1>6. QED
  BY <1>4, <1>5 DEF r

AreSums(f, b, n) ==
    f = [i \in 0 .. n |-> IF i = 0 THEN 0 ELSE f[i - 1] * Radix + b[i]]

LEMMA SumsExist ==
    ASSUME NEW b, NEW n \in Nat
    PROVE  \E f : AreSums(f, b, n)
<1> DEFINE Next1(k, t) == t * Radix + b[k]
           IsSum(f, m) == f = [k \in 0..m |-> IF k = 0 THEN 0 ELSE Next1(k, f[k - 1])]
           Has == {m \in Nat : \E f : IsSum(f, m)}
<1> HIDE DEF Next1
<1>1. 0 \in Has
  <2> DEFINE f == [k \in 0..0 |-> 0]
  <2>1. IsSum(f, 0)
    OBVIOUS
  <2>2. QED
    BY <2>1
<1>2. ASSUME NEW m \in 1..n, m - 1 \in Has PROVE m \in Has
  <2>1. PICK f : IsSum(f, m - 1)
    BY <1>2
  <2> DEFINE g == [k \in 0..m |-> IF k = m THEN Next1(m, f[m - 1]) ELSE f[k]]
  <2>2. ASSUME NEW k \in 0..m
        PROVE  g[k] = IF k = 0 THEN 0 ELSE Next1(k, g[k - 1])
    <3>1. CASE k = 0
      <4>1. 0 \in 0..(m - 1) /\ 0 # m
        BY <1>2
      <4>2. f[0] = 0
        BY <2>1, <4>1
      <4>3. QED
        BY <3>1, <4>1, <4>2
    <3>2. CASE k # 0
      <4>1. k - 1 \in 0..m /\ k - 1 # m /\ k - 1 \in 0..(m - 1)
        BY <1>2, <3>2
      <4>2. g[k - 1] = f[k - 1]
        BY <4>1
      <4>3. CASE k = m
        BY <4>2, <4>3, <3>2
      <4>4. CASE k # m
        <5>1. k \in 0..(m - 1)
          BY <1>2, <4>4
        <5>2. f[k] = Next1(k, f[k - 1])
          BY <2>1, <3>2, <5>1
        <5>3. QED
          BY <3>2, <4>2, <4>4, <5>2
      <4>5. QED
        BY <4>3, <4>4
    <3>3. QED
      BY <3>1, <3>2
  <2>3. IsSum(g, m)
    <3>1. g = [k \in 0..m |-> g[k]]
      OBVIOUS
    <3> HIDE DEF g
    <3>2. QED
      BY <2>2, <3>1
  <2> HIDE DEF g
  <2>4. QED
    BY <1>2, <2>3
<1>3. n \in Has
  <2> HIDE DEF Has
  <2>1. \A k \in 0..n : k \in Has
    BY <1>1, <1>2, CountUp
  <2>2. QED
    BY <2>1
<1>4. QED
  BY <1>3 DEF Next1, AreSums

\* What one, two and four bytes accumulate to.
LEMMA AccumulatedIs ==
    ASSUME NEW n \in Nat, NEW b \in [1 .. n -> Int]
    PROVE  /\ n = 1 => Accumulated(b) = b[1]
           /\ n = 2 => Accumulated(b) = b[1] * Radix + b[2]
           /\ n = 4 => Accumulated(b)
                        = ((b[1] * Radix + b[2]) * Radix + b[3]) * Radix + b[4]
<1> DEFINE sum == CHOOSE f : AreSums(f, b, n)
<1>1. Len(b) = n
  OBVIOUS
<1>2. Accumulated(b) = sum[n]
  BY <1>1 DEF Accumulated, AreSums
<1>3. AreSums(sum, b, n)
  BY SumsExist
<1> HIDE DEF sum
<1>4. sum = [i \in 0 .. n |-> IF i = 0 THEN 0 ELSE sum[i - 1] * Radix + b[i]]
  BY <1>3 DEF AreSums
<1>5. sum[0] = 0
  BY <1>4
<1>6. ASSUME NEW i \in 1 .. n
      PROVE  sum[i] = sum[i - 1] * Radix + b[i]
  <2>1. i \in 0 .. n /\ i # 0
    OBVIOUS
  <2>2. QED
    BY <1>4, <2>1
<1>7. Radix \in Nat
  BY RadixIs DEF Radices
<1>8. ASSUME n >= 1 PROVE sum[1] = b[1]
  <2>1. sum[1] = 0 * Radix + b[1] /\ b[1] \in Int
    BY <1>5, <1>6, <1>8
  <2>2. QED
    BY <1>7, <2>1
<1>9. ASSUME n >= 2 PROVE sum[2] = sum[1] * Radix + b[2]
  BY <1>6, <1>9
<1>10. ASSUME n >= 3 PROVE sum[3] = sum[2] * Radix + b[3]
  BY <1>6, <1>10
<1>11. ASSUME n >= 4 PROVE sum[4] = sum[3] * Radix + b[4]
  BY <1>6, <1>11
<1>12. QED
  BY <1>2, <1>8, <1>9, <1>10, <1>11

\* The digits of a number, which the buffer writes one byte each.
Digits(u, length) ==
    [i \in 1 .. length |-> (u \div Radix ^ (length - i)) % Radix]

LEMMA DigitsBack ==
    ASSUME NEW length \in {1, 2, 4}, NEW u \in 0 .. Radix ^ length - 1
    PROVE  /\ Digits(u, length) \in [1 .. length -> Int]
           /\ Accumulated(Digits(u, length)) = u
<1> DEFINE b == Digits(u, length)
<1>1. Radix \in Radices /\ Radix \in Nat /\ Radix >= 4
  BY RadixIs DEF Radices
<1>2. /\ Radix ^ 0 = 1 /\ Radix ^ 1 = Radix /\ Radix ^ 2 = Radix * Radix
      /\ Radix ^ 3 = Radix * Radix * Radix /\ Radix ^ 4 = Radix * Radix * Radix * Radix
  BY <1>1, Powers
<1>3. u \in Nat
  BY <1>1, <1>2
<1>4. CASE length = 1
  <2>1. u < Radix /\ 1 - 1 = 0
    BY <1>1, <1>2, <1>4
  <2>2. b = [i \in 1 .. 1 |-> (u \div Radix ^ (1 - i)) % Radix]
    BY <1>4 DEF Digits
  <2>3. b[1] = (u \div 1) % Radix
    BY <1>2, <2>1, <2>2
  <2>4. b[1] = u
    BY <1>1, <1>3, <2>1, <2>3
  <2>5. b \in [1 .. 1 -> Int]
    BY <1>3, <2>2, <2>4
  <2> HIDE DEF b
  <2>6. Accumulated(b) = u
    BY <2>4, <2>5, AccumulatedIs
  <2>7. QED
    BY <1>4, <2>5, <2>6 DEF b
<1>5. CASE length = 2
  <2>1. u < Radix * Radix /\ 2 - 1 = 1 /\ 2 - 2 = 0
    BY <1>1, <1>2, <1>5
  <2>2. b = [i \in 1 .. 2 |-> (u \div Radix ^ (2 - i)) % Radix]
    BY <1>5 DEF Digits
  <2>3. b[1] = (u \div Radix) % Radix /\ b[2] = (u \div 1) % Radix
    BY <1>2, <2>1, <2>2
  <2>4. u \div 1 = u
    BY <1>3
  <2>5. b[1] \in Int /\ b[2] \in Int
    BY <1>1, <1>3, <2>3, <2>4
  <2>6. b \in [1 .. 2 -> Int]
    <3>1. \A i \in 1 .. 2 : i = 1 \/ i = 2
      OBVIOUS
    <3>2. QED
      BY <2>2, <2>5, <3>1
  <2>7. b[1] * Radix + b[2] = u
    BY <1>1, <1>3, <2>1, <2>3, <2>4, TwoDigits
  <2> HIDE DEF b
  <2>8. Accumulated(b) = u
    BY <2>6, <2>7, AccumulatedIs
  <2>9. QED
    BY <1>5, <2>6, <2>8 DEF b
<1>6. CASE length = 4
  <2>1. /\ u < Radix * Radix * Radix * Radix
        /\ 4 - 1 = 3 /\ 4 - 2 = 2 /\ 4 - 3 = 1 /\ 4 - 4 = 0
    BY <1>1, <1>2, <1>6
  <2>2. b = [i \in 1 .. 4 |-> (u \div Radix ^ (4 - i)) % Radix]
    BY <1>6 DEF Digits
  <2>3. /\ b[1] = (u \div (Radix * Radix * Radix)) % Radix
        /\ b[2] = (u \div (Radix * Radix)) % Radix
        /\ b[3] = (u \div Radix) % Radix
        /\ b[4] = (u \div 1) % Radix
    BY <1>2, <2>1, <2>2
  <2>4. u \div 1 = u
    BY <1>3
  <2>5. \A d \in Int : d % Radix \in Int
    BY <1>1
  <2>6. /\ u \div (Radix * Radix * Radix) \in Int /\ u \div (Radix * Radix) \in Int
        /\ u \div Radix \in Int /\ u \div 1 \in Int
    <3>1. \A m \in Nat \ {0} : u \div m \in Int
      BY <1>3
    <3>2. Radix * Radix * Radix \in Nat \ {0} /\ Radix * Radix \in Nat \ {0} /\ Radix \in Nat \ {0}
      BY <1>1, SMT
    <3>3. QED
      BY <3>1, <3>2
  <2>7. b[1] \in Int /\ b[2] \in Int /\ b[3] \in Int /\ b[4] \in Int
    BY <2>3, <2>5, <2>6
  <2>8. b \in [1 .. 4 -> Int]
    <3>1. \A i \in 1 .. 4 : i = 1 \/ i = 2 \/ i = 3 \/ i = 4
      OBVIOUS
    <3>2. QED
      BY <2>2, <2>7, <3>1
  <2>9. ((b[1] * Radix + b[2]) * Radix + b[3]) * Radix + b[4] = u
    BY <1>1, <1>3, <2>1, <2>3, <2>4, FourDigits
  <2> HIDE DEF b
  <2>10. Accumulated(b) = u
    BY <2>8, <2>9, AccumulatedIs
  <2>11. QED
    BY <1>6, <2>8, <2>10 DEF b
<1>7. QED
  BY <1>4, <1>5, <1>6

-----------------------------------------------------------------------------
(* Integers                                                                *)

\* There is an even number of integers of a length.
LEMMA Modulus ==
    ASSUME NEW length \in {1, 2, 4}
    PROVE  Radix ^ length \in Nat /\ \E h \in Nat : h >= 2 /\ Radix ^ length = 2 * h
<1>1. PICK r \in Nat : r >= 2 /\ Radix = 2 * r
  <2>1. \A R \in Radices : \E r \in Nat : r >= 2 /\ R = 2 * r
    BY SMT DEF Radices
  <2>2. QED
    BY <2>1, RadixIs
<1>2. /\ Radix ^ 1 = Radix /\ Radix ^ 2 = Radix * Radix
      /\ Radix ^ 4 = Radix * Radix * Radix * Radix
  BY RadixIs, Powers
<1>3. CASE length = 1
  BY <1>1, <1>2, <1>3
<1>4. CASE length = 2
  <2>1. r * Radix \in Nat /\ r * Radix >= 2 /\ Radix * Radix = 2 * (r * Radix)
    BY <1>1, SMT
  <2>2. Radix ^ length \in Nat
    BY <1>1, <1>2, <1>4
  <2>3. QED
    BY <1>2, <1>4, <2>1, <2>2
<1>5. CASE length = 4
  <2>1. Radix * Radix \in Nat /\ Radix * Radix >= 2
    BY <1>1, SMT
  <2>2. r * Radix \in Nat /\ r * Radix >= 2 /\ Radix * Radix = 2 * (r * Radix)
    BY <1>1, SMT
  <2>3. \A q, x \in Nat : q >= 2 /\ x >= 2 => q * x \in Nat /\ q * x >= 2
    BY SMT
  <2>4. (r * Radix) * (Radix * Radix) \in Nat /\ (r * Radix) * (Radix * Radix) >= 2
    BY <2>1, <2>2, <2>3
  <2>5. Radix * Radix * Radix * Radix = 2 * ((r * Radix) * (Radix * Radix))
    BY <1>1, SMT
  <2>6. QED
    BY <1>2, <1>5, <2>4, <2>5
<1>6. QED
  BY <1>3, <1>4, <1>5

\* The complement of a number gives the number back.
LEMMA Complement ==
    ASSUME NEW M \in Nat, NEW h \in Nat, h >= 2, M = 2 * h, NEW n \in Int
    PROVE  /\ n % M \in 0 .. M - 1 /\ M \div 2 = h
           /\ n \in 0 .. M - 1 => n % M = n
           /\ n \in -h .. h - 1 => n = IF n % M >= h THEN (n % M) - M ELSE n % M
<1>1. n % M \in 0 .. M - 1 /\ M \div 2 = h
  BY SMT
<1>2. n \in 0 .. M - 1 => n % M = n
  BY SMT
<1>3. n \in -h .. h - 1 => n = IF n % M >= h THEN (n % M) - M ELSE n % M
  BY SMT
<1>4. QED
  BY <1>1, <1>2, <1>3

\* Bytes for the integers of a range, except the greatest unsigned one.
KeptInRange(n, length, signed, big) ==
    IF InRange(n, length, signed) /\ ~(~signed /\ n = Radix ^ length - 1)
    THEN \E b \in [1 .. length -> Int] :
            /\ WriteInteger(n, length, signed, big) = Octets(b)
            /\ ReadInteger(b, length, signed, big) = Number(n)
    ELSE WriteInteger(n, length, signed, big) = Fails

\* An integer of one, two or four bytes that is in the range of its sign is
\* written as bytes that are read as this integer, in either order of bytes, which
\* have two to eight bits each; any other one, and the greatest unsigned one, is
\* refused by the codec.
THEOREM IntegersBack ==
    ASSUME NEW length \in {1, 2, 4}, NEW n \in Int,
           NEW signed \in BOOLEAN, NEW big \in BOOLEAN
    PROVE  KeptInRange(n, length, signed, big)
<1> DEFINE M == Radix ^ length
           u == n % M
           digits == Digits(u, length)
           b == IF big THEN digits ELSE Reverse(digits)
<1>1. M \in Nat
  BY Modulus
<1>2. PICK h \in Nat : h >= 2 /\ M = 2 * h
  BY Modulus
<1>3. length \in Nat /\ length # NaN /\ length >= 1
  BY DEF NaN
<1>4. WriteInteger(n, length, signed, big)
        = IF n >= M - 1 \/ n < (IF signed THEN -(M - 1) ELSE 0) \/ ~InRange(n, length, signed)
          THEN Fails ELSE Octets(b)
  BY <1>3 DEF WriteInteger, Digits
<1>5. InRange(n, length, signed)
        <=> IF signed THEN n \in -(M \div 2) .. M \div 2 - 1 ELSE n \in 0 .. M - 1
  BY DEF InRange
<1>6. digits \in [1 .. length -> Int] /\ (u \in 0 .. M - 1 => Accumulated(digits) = u)
  <2>1. u \in 0 .. M - 1
    <3> HIDE DEF M
    <3>1. QED
      BY <1>1, <1>2, Complement
  <2> HIDE DEF u
  <2>2. QED
    BY <2>1, DigitsBack
<1>7. ReadInteger(b, length, signed, big)
        = Number(IF signed /\ Accumulated(digits) >= M \div 2
                 THEN Accumulated(digits) - M ELSE Accumulated(digits))
      /\ b \in [1 .. length -> Int]
  <2> HIDE DEF digits, M
  <2>1. b \in [1 .. length -> Int]
    BY <1>3, <1>6, ReverseType
  <2>2. (IF big THEN b ELSE Reverse(b)) = digits
    BY <1>3, <1>6, ReverseBack
  <2> HIDE DEF b
  <2>3. Len(b) = length /\ SubSeq(b, 1, length) = b
    <3>1. b \in Seq(Int) /\ Len(b) = length
      BY <1>3, <2>1
    <3>2. QED
      BY <1>3, <2>1, <3>1
  <2>4. ~(Len(b) < length)
    BY <1>3, <2>3
  <2>5. ReadInteger(b, length, signed, big)
          = LET sum == Accumulated(IF big THEN SubSeq(b, 1, length)
                                   ELSE Reverse(SubSeq(b, 1, length)))
            IN  Number(IF signed /\ sum >= M \div 2 THEN sum - M ELSE sum)
    BY <2>4 DEF ReadInteger, M
  <2>6. QED
    BY <2>1, <2>2, <2>3, <2>5
<1> HIDE DEF M, digits, b, u
<1>8. /\ u \in 0 .. M - 1 /\ M \div 2 = h
      /\ n \in 0 .. M - 1 => u = n
      /\ n \in -h .. h - 1 => n = IF u >= h THEN u - M ELSE u
  BY <1>1, <1>2, Complement DEF u
<1>9. CASE InRange(n, length, signed) /\ ~(~signed /\ n = M - 1)
  <2>1. WriteInteger(n, length, signed, big) = Octets(b)
    <3>1. ~(n >= M - 1)
      BY <1>1, <1>2, <1>5, <1>8, <1>9
    <3>2. ~(n < (IF signed THEN -(M - 1) ELSE 0))
      BY <1>1, <1>2, <1>5, <1>8, <1>9
    <3>3. QED
      BY <1>4, <1>9, <3>1, <3>2
  <2>2. ReadInteger(b, length, signed, big)
          = Number(IF signed /\ u >= h THEN u - M ELSE u)
    BY <1>6, <1>7, <1>8
  <2>3. (IF signed /\ u >= h THEN u - M ELSE u) = n
    BY <1>5, <1>8, <1>9
  <2>4. QED
    BY <1>7, <1>9, <2>1, <2>2, <2>3 DEF KeptInRange, M
<1>10. CASE ~(InRange(n, length, signed) /\ ~(~signed /\ n = M - 1))
  <2>1. n >= M - 1 \/ ~InRange(n, length, signed)
    BY <1>1, <1>10
  <2>2. QED
    BY <1>4, <1>10, <2>1 DEF KeptInRange, M
<1>11. QED
  BY <1>9, <1>10

-----------------------------------------------------------------------------
(* Codecs                                                                  *)

\* JSON text is the value it stands for, unless a field "value" is unwrapped.
LEMMA JsonBack ==
    ASSUME NEW v, Ordinary(v)
    PROVE  JsonBytes(v) # Fails /\ JsonValue(JsonBytes(v)) = v
<1>1. JsonBytes(v) = <<"json", v>> /\ JsonBytes(v) # Empty /\ JsonBytes(v) # Fails
  BY DEF Ordinary, JsonBytes, Json, Empty, Octets, Fails
<1> DEFINE bytes == JsonBytes(v)
<1>2. bytes[1] = "json" /\ bytes[2] = v
  BY <1>1
<1> HIDE DEF bytes
<1>3. Characters(bytes, "utf8") = <<"printed", v>>
  BY <1>1, <1>2 DEF Characters, bytes
<1>4. Parsed(bytes) = v
  BY <1>1, <1>3 DEF Parsed, bytes
<1>5. JsonValue(bytes) = v
  BY <1>4 DEF JsonValue, Unwrapped, Ordinary
<1>6. QED
  BY <1>1, <1>5 DEF bytes

\* A string in a charset of Unicode is read back in it.
LEMMA EncodedBack ==
    ASSUME NEW v, v[1] = "string", NEW charset \in {"utf8", "utf16le"}
    PROVE  /\ TextBytes(v, charset) = Encoded(v, charset) /\ Encoded(v, charset) # Fails
           /\ Encoded(v, charset) # Empty /\ Encoded(v, charset)[1] = "text"
           /\ Characters(Encoded(v, charset), charset) = v
<1>1. v # Undefined
  BY DEF Undefined
<1>2. TextBytes(v, charset) = Encoded(v, charset)
  BY <1>1 DEF TextBytes
<1> DEFINE bytes == Encoded(v, charset)
<1>3. /\ bytes # Empty /\ bytes # Fails
      /\ bytes[1] = "text" /\ bytes[2] = v /\ bytes[3] = charset
  BY DEF Encoded, Empty, Octets, Fails
<1> HIDE DEF bytes
<1>4. Characters(bytes, charset) = v
  BY <1>3 DEF Characters
<1>5. QED
  BY <1>2, <1>3, <1>4 DEF bytes

\* A string is its own text, and as text without a content type it is no JSON.
LEMMA TextBack ==
    ASSUME NEW v, v[1] = "string"
    PROVE  /\ TextBytes(v, "utf8") = Text(v) /\ Text(v) # Fails /\ v # Undefined
           /\ Characters(Text(v), "utf8") = v /\ JsonValue(Text(v)) = v
<1>1. v # Undefined
  BY DEF Undefined
<1> DEFINE bytes == Text(v)
<1>2. /\ TextBytes(v, "utf8") = bytes
      /\ bytes # Empty /\ bytes # Fails /\ bytes[1] = "text"
      /\ Characters(bytes, "utf8") = v
  BY EncodedBack DEF Text
<1>3. bytes # Empty /\ bytes # Fails /\ bytes[1] = "text"
  BY <1>2
<1> HIDE DEF bytes
<1>4. Characters(bytes, "utf8") = v
  BY <1>2
<1>5. Parsed(bytes) = v
  BY <1>3, <1>4 DEF Parsed
<1>6. JsonValue(bytes) = v
  BY <1>5 DEF JsonValue, Unwrapped, Field
<1>7. QED
  BY <1>1, <1>2, <1>3, <1>4, <1>6 DEF bytes

\* A node answers a value that was written to it with the value.
LEMMA OpcuaBack ==
    ASSUME NEW v, v # Undefined, NEW schema, OpcuaBytes(v, schema) # Fails
    PROVE  /\ OpcuaReply(OpcuaBytes(v, schema)) # Fails
           /\ OpcuaValue(OpcuaReply(OpcuaBytes(v, schema))) = v
<1> DEFINE bytes == OpcuaBytes(v, schema)
<1>1. PICK fields : /\ bytes = Json(Object(fields))
                    /\ "payload" \in DOMAIN fields /\ fields.payload = v
  <2>1. CASE schema.class = "property"
    <3>1. bytes = Json(Object([payload |-> v, dataType |-> DataType(schema.dataType)]))
      BY <2>1 DEF OpcuaBytes
    <3>2. QED
      BY <3>1
  <2>2. CASE schema.class # "property" /\ schema.class = "action"
    <3>1. bytes = Json(Object([payload |-> v,
                               inputArguments |-> InputArguments(v, schema.input)]))
      BY <2>2 DEF OpcuaBytes
    <3>2. QED
      BY <3>1
  <2>3. CASE schema.class # "property" /\ schema.class # "action"
    <3>1. bytes = Json(Object([payload |-> v]))
      BY <2>3 DEF OpcuaBytes
    <3>2. QED
      BY <3>1
  <2>4. QED
    BY <2>1, <2>2, <2>3
<1> HIDE DEF bytes
<1>2. ASSUME NEW x PROVE Parsed(Json(x)) = x /\ Json(x) # Empty /\ Json(x) # Fails
  <2> DEFINE text == Json(x)
  <2>1. text # Empty /\ text # Fails /\ text[1] = "json" /\ text[2] = x
    BY DEF Json, Empty, Octets, Fails
  <2> HIDE DEF text
  <2>2. Characters(text, "utf8") = <<"printed", x>>
    BY <2>1 DEF Characters
  <2>3. Parsed(text) = x
    BY <2>1, <2>2 DEF Parsed
  <2>4. QED
    BY <2>1, <2>3 DEF text
<1>3. ASSUME NEW f, NEW key, key \in DOMAIN f
      PROVE  Field(Object(f), key) = f[key]
  BY <1>3 DEF Field, Object, Given
<1>4. Field(Parsed(bytes), "payload") = v /\ bytes # Empty
  BY <1>1, <1>2, <1>3
<1> DEFINE inner == Object([value |-> v])
           reply == Json(Object([value |-> inner]))
<1>5. OpcuaReply(bytes) = reply
  BY <1>4 DEF OpcuaReply
<1>6. Field(inner, "value") = v
  <2>1. "value" \in DOMAIN [value |-> v] /\ [value |-> v]["value"] = v
    OBVIOUS
  <2>2. QED
    BY <2>1, <1>3
<1> HIDE DEF inner
<1>7. Field(Parsed(reply), "value") = inner /\ reply # Empty /\ reply # Fails
  <2>1. "value" \in DOMAIN [value |-> inner] /\ [value |-> inner]["value"] = inner
    OBVIOUS
  <2>2. QED
    BY <2>1, <1>2, <1>3
<1> HIDE DEF reply
<1>8. OpcuaValue(reply) = v
  BY <1>6, <1>7 DEF OpcuaValue, Unwrapped
<1>9. QED
  BY <1>5, <1>7, <1>8 DEF bytes

\* A string as octets of utf8 is its text, and refused if another length is
\* asked for.
LEMMA StringBack ==
    ASSUME NEW v, v[1] = "string", NEW parameters, CharsetOf(parameters) = "utf8"
    PROVE  /\ ValueToBytes(v, "string", parameters) = Text(v)
           /\ LET back == BytesToValue(Text(v), "string", parameters)
              IN  back = v \/ ("length" \in DOMAIN parameters /\ back = Fails)
<1>1. v # Undefined /\ StringOf(v) = v
  BY DEF Undefined, StringOf
<1>2. \A sign, length : Shape("string", sign, length) = <<sign, "string", length>>
  BY DEF Shape, Typed
<1>3. \A sign, length : Shape("string", sign, length)[2] = "string"
  BY <1>2
<1>4. ValueToBytes(v, "string", parameters) = Text(v)
  BY <1>1, <1>3 DEF ValueToBytes
<1>5. Characters(Text(v), "utf8") = v
  BY TextBack
<1>6. CASE "length" \in DOMAIN parameters /\ parameters.length # LengthOf(Text(v))
  BY <1>4, <1>6 DEF BytesToValue
<1>7. CASE ~("length" \in DOMAIN parameters /\ parameters.length # LengthOf(Text(v)))
  <2>1. BytesToValue(Text(v), "string", parameters) = v
    BY <1>3, <1>5, <1>7 DEF BytesToValue
  <2>2. QED
    BY <1>4, <2>1
<1>8. QED
  BY <1>6, <1>7

\* A boolean of a length is written as that many bytes, all of them ones or zeros.
LEMMA BooleanBack ==
    ASSUME NEW v \in {Boolean(TRUE), Boolean(FALSE)}, NEW parameters,
           Given(parameters, "length", 0) \in Nat \ {0}
    PROVE  /\ ValueToBytes(v, "boolean", parameters) # Fails
           /\ BytesToValue(ValueToBytes(v, "boolean", parameters), "boolean", parameters) = v
<1> DEFINE length == Given(parameters, "length", 0)
           byte == IF Truthy(v) THEN Radix - 1 ELSE 0
           b == [i \in 1 .. length |-> byte]
<1>1. v # Undefined /\ (Truthy(v) <=> v = Boolean(TRUE)) /\ Boolean(TRUE) # Boolean(FALSE)
  <2>1. Boolean(TRUE) # Boolean(FALSE)
    BY DEF Boolean
  <2>2. v = <<"boolean", TRUE>> \/ v = <<"boolean", FALSE>>
    BY DEF Boolean
  <2>3. ASSUME NEW x
        PROVE  LET w == <<"boolean", x>>
               IN  /\ w # <<"undefined">> /\ w # <<"null">>
                   /\ w # <<"number", 0>> /\ w # <<"string", "">>
    OBVIOUS
  <2>4. v # <<"undefined">> /\ v # <<"null">> /\ v # <<"number", 0>> /\ v # <<"string", "">>
    BY <2>2, <2>3, Zenon
  <2>5. v # Undefined /\ v # Null /\ v # Number(0)
    BY <2>4 DEF Undefined, Null, Number
  <2>6. QED
    BY <2>1, <2>4, <2>5 DEF Truthy
<1>2. \A sign, n : Shape("boolean", sign, n) = <<sign, "boolean", n>>
  BY DEF Shape, Typed
<1>3. \A sign, n : Shape("boolean", sign, n)[2] = "boolean" /\ Shape("boolean", sign, n)[3] = n
  BY <1>2
<1>4. length # 0 /\ length \in Nat
  OBVIOUS
<1>5. ValueToBytes(v, "boolean", parameters) = Octets(b)
  BY <1>1, <1>3, <1>4 DEF ValueToBytes
<1>6. "length" \in DOMAIN parameters /\ parameters.length = length
  BY <1>4 DEF Given
<1> HIDE DEF length
<1>7. Octets(b)[1] = "octets" /\ Octets(b)[2] = b /\ Octets(b) # Fails
  BY DEF Octets, Fails
<1>8. LengthOf(Octets(b)) = length
  <2>1. Len(b) = length
    BY <1>4
  <2> HIDE DEF b
  <2>2. QED
    BY <1>7, <2>1 DEF LengthOf
<1>9. (\E i \in DOMAIN b : b[i] # 0) <=> v = Boolean(TRUE)
  <2>1. 1 \in 1 .. length
    BY <1>4
  <2>2. Radix - 1 # 0
    BY RadixIs DEF Radices
  <2>3. byte # 0 <=> v = Boolean(TRUE)
    BY <1>1, <2>2
  <2>4. DOMAIN b = 1 .. length /\ \A i \in 1 .. length : b[i] = byte
    OBVIOUS
  <2> HIDE DEF byte, b
  <2>5. ASSUME byte # 0 PROVE \E i \in DOMAIN b : b[i] # 0
    BY <2>1, <2>4, <2>5
  <2>6. ASSUME NEW i \in DOMAIN b, b[i] # 0 PROVE byte # 0
    BY <2>4, <2>6
  <2>7. QED
    BY <2>3, <2>5, <2>6
<1>10. BytesToValue(Octets(b), "boolean", parameters) = Boolean(\E i \in DOMAIN b : b[i] # 0)
  <2> DEFINE bytes == Octets(b)
  <2>1. bytes[2] = b /\ LengthOf(bytes) = length
    BY <1>7, <1>8
  <2> HIDE DEF b, bytes
  <2>2. ~("length" \in DOMAIN parameters /\ parameters.length # LengthOf(bytes))
    BY <1>6, <2>1
  <2>3. BytesToValue(bytes, "boolean", parameters)
          = Boolean(\E i \in DOMAIN bytes[2] : bytes[2][i] # 0)
    BY <1>3, <2>2 DEF BytesToValue
  <2>4. QED
    BY <2>1, <2>3 DEF bytes
<1>11. Boolean(\E i \in DOMAIN b : b[i] # 0) = v
  <2>1. CASE v = Boolean(TRUE)
    <3>1. \E i \in DOMAIN b : b[i] # 0
      BY <1>9, <2>1
    <3>2. (\E i \in DOMAIN b : b[i] # 0) = TRUE
      BY <3>1
    <3>3. QED
      BY <2>1, <3>2
  <2>2. CASE v = Boolean(FALSE)
    <3>1. ~ \E i \in DOMAIN b : b[i] # 0
      BY <1>1, <1>9, <2>2
    <3>2. (\E i \in DOMAIN b : b[i] # 0) = FALSE
      BY <3>1
    <3>3. QED
      BY <2>2, <3>2
  <2>3. QED
    BY <2>1, <2>2
<1>12. QED
  BY <1>5, <1>7, <1>10, <1>11

-----------------------------------------------------------------------------
(* The way of a value                                                      *)

Sent == ValueToContent(job.value, job.schema, job.type)
Back == ContentToValue(Reply(Sent), job.schema, job.type)

Returns == Sent # Fails /\ Reply(Sent) # Fails /\ Back # Fails /\ Back = job.value
Ends == Sent = Fails \/ Reply(Sent) = Fails \/ Back = Fails

\* What is known of a value on its way.
Carried ==
    job.kind = "value" =>
        /\ job \in ValueJobs
        /\ stage \in {"given", "sent", "received", "decoded", "refused"}
        /\ stage = "sent" => data = Sent /\ Sent # Fails
        /\ stage = "received" => data = Reply(Sent) /\ Sent # Fails /\ Reply(Sent) # Fails
        /\ stage = "decoded" =>
             data = Back /\ Sent # Fails /\ Reply(Sent) # Fails /\ Back # Fails
        /\ stage = "refused" => Ends

LEMMA JobFacts ==
    ASSUME NEW j \in ValueJobs
    PROVE  /\ j.kind = "value" /\ j.value # Fails
           /\ j.value[1] = "number" => j.value = Number(j.value[2]) /\ j.value[2] \in Int
           /\ j.value[1] = "boolean" => j.value \in {Boolean(TRUE), Boolean(FALSE)}
           /\ Given(j.type.parameters, "length", 0) \in Nat
           /\ Given(j.type.parameters, "signed", TRUE) \in BOOLEAN
           /\ Given(j.type.parameters, "bigendian", TRUE) \in BOOLEAN
  BY JobsAssumption

LEMMA CarriedInitially == Init => Carried
<1> SUFFICES ASSUME Init, job.kind = "value"
             PROVE  job \in ValueJobs /\ stage = "given"
  BY DEF Carried
<1>1. stage = "given"
  BY DEF Init
<1>2. ~(job \in HttpJobs \union DocumentJobs \union OldJobs) /\ job \notin ModbusJobs
  BY JobsAssumption, ModbusAssumption
<1>3. QED
  BY <1>1, <1>2 DEF Init

LEMMA CarriedStep == Carried /\ [Next]_vars => Carried'
<1> SUFFICES ASSUME Carried, [Next]_vars
             PROVE  Carried'
  OBVIOUS
<1>1. ASSUME job' = job
      PROVE  /\ job'.kind = job.kind /\ (job \in ValueJobs)' = (job \in ValueJobs)
             /\ Sent' = Sent /\ Reply(Sent)' = Reply(Sent) /\ Back' = Back /\ Ends' = Ends
  <2>1. Sent' = Sent
    BY <1>1 DEF Sent
  <2>2. Reply(Sent)' = Reply(Sent)
    BY <1>1, <2>1 DEF Reply
  <2>3. Back' = Back
    BY <1>1, <2>2 DEF Back
  <2>4. QED
    BY <1>1, <2>1, <2>2, <2>3 DEF Ends
<1>2. CASE UNCHANGED vars
  BY <1>1, <1>2 DEF Carried, vars
<1>3. CASE Encode
  <2>1. job' = job /\ stage' = (IF Sent = Fails THEN "refused" ELSE "sent") /\ data' = Sent
    BY <1>3 DEF Encode, Step, Sent
  <2>2. QED
    BY <1>1, <2>1 DEF Carried, Ends
<1>4. CASE Carry
  <2>1. /\ job' = job /\ job.kind = "value" /\ stage = "sent"
        /\ stage' = (IF Reply(data) = Fails THEN "refused" ELSE "received")
        /\ data' = Reply(data)
    BY <1>4 DEF Carry, Step
  <2>2. data = Sent /\ Sent # Fails
    BY <2>1 DEF Carried
  <2>3. data' = Reply(Sent) /\ stage' = (IF Reply(Sent) = Fails THEN "refused" ELSE "received")
    BY <2>1, <2>2
  <2>4. QED
    BY <1>1, <2>1, <2>2, <2>3 DEF Carried, Ends
<1>5. CASE Decode
  <2>1. /\ job' = job /\ job.kind = "value" /\ stage = "received"
        /\ LET value == ContentToValue(data, job.schema, job.type)
           IN  stage' = (IF value = Fails THEN "refused" ELSE "decoded") /\ data' = value
    BY <1>5 DEF Decode, Step
  <2>2. data = Reply(Sent) /\ Sent # Fails /\ Reply(Sent) # Fails
    BY <2>1 DEF Carried
  <2>3. data' = Back /\ stage' = (IF Back = Fails THEN "refused" ELSE "decoded")
    BY <2>1, <2>2 DEF Back
  <2>4. QED
    BY <1>1, <2>1, <2>2, <2>3 DEF Carried, Ends
<1>6. ASSUME job' = job, job.kind # "value" PROVE Carried'
  BY <1>6 DEF Carried
<1>7. CASE ExposeThing \/ Describe \/ Consume \/ Request \/ Serve
  BY <1>6, <1>7 DEF ExposeThing, Describe, Consume, Request, Serve, Step
<1>8. CASE Parse \/ Serialize \/ Fill \/ Answered \/ Transform
  BY <1>6, <1>8 DEF Parse, Serialize, Fill, Answered, Transform, Step
<1>9. CASE Done
  BY <1>2, <1>9 DEF Done
<1>10. QED
  BY <1>2, <1>3, <1>4, <1>5, <1>7, <1>8, <1>9 DEF Next

\* The media types have different codecs; one without a type has none.
LEMMA Media ==
    /\ Reply(Sent) = CASE Codec = "opcua" -> OpcuaReply(Sent)
                       [] Codec = "netconf" -> NetconfReply(Sent, job.schema.steps)
                       [] OTHER -> Sent
    /\ job.type.media = "" => Codec = "none"
<1>1. job.type.media = "" => Codec = "none"
  BY DEF Codec, CodecOf
<1>2. QED
  BY <1>1 DEF Reply, Codec

LEMMA JsonReturns ==
    ASSUME job \in ValueJobs, Codec = "json", Ordinary(job.value)
    PROVE  Returns
<1>1. Sent = JsonBytes(job.value) /\ Sent # Fails /\ JsonValue(Sent) = job.value
  BY JsonBack DEF Sent, ValueToContent, Codec
<1>2. Reply(Sent) = Sent
  BY Media
<1> HIDE DEF Sent
<1>3. Back = JsonValue(Sent)
  BY <1>2 DEF Back, ContentToValue, Codec
<1>4. QED
  BY <1>1, <1>2, <1>3, JobFacts DEF Returns

LEMMA TextReturns ==
    ASSUME job \in ValueJobs, Codec = "none", job.value[1] = "string"
    PROVE  Returns
<1> DEFINE v == job.value
<1>1. /\ TextBytes(v, "utf8") = Text(v) /\ Text(v) # Fails /\ v # Undefined
      /\ Characters(Text(v), "utf8") = v /\ JsonValue(Text(v)) = v
  <2> HIDE DEF v
  <2>1. v[1] = "string"
    BY DEF v
  <2>2. QED
    BY <2>1, TextBack
<1>2. Sent = Text(v)
  BY <1>1 DEF Sent, ValueToContent, Codec
<1>3. Reply(Sent) = Sent
  BY Media
<1>4. Back = v
  <2>1. CASE job.type.media = ""
    BY <1>1, <1>2, <1>3, <2>1 DEF Back, ContentToValue
  <2>2. CASE job.type.media # ""
    BY <1>1, <1>2, <1>3, <2>2 DEF Back, ContentToValue, Codec
  <2>3. QED
    BY <2>1, <2>2
<1>5. QED
  BY <1>1, <1>2, <1>3, <1>4, JobFacts DEF Returns

LEMMA CharsetReturns ==
    ASSUME job \in ValueJobs, Codec = "text", job.value[1] = "string",
           CharsetAsked \in {"utf8", "utf16le"}
    PROVE  Returns
<1> DEFINE v == job.value
           charset == CharsetAsked
           bytes == Encoded(v, charset)
<1>1. /\ TextBytes(v, charset) = bytes /\ bytes # Fails
      /\ Characters(bytes, charset) = v
  <2> HIDE DEF v, charset
  <2>1. v[1] = "string" /\ charset \in {"utf8", "utf16le"}
    BY DEF v, charset
  <2>2. QED
    BY <2>1, EncodedBack
<1>2. Sent = TextBytes(v, charset)
  BY DEF Sent, ValueToContent, Codec, CharsetAsked
<1>3. Reply(Sent) = Sent
  BY Media
<1>4. Back = Characters(Sent, charset)
  <2>1. job.type.media # ""
    BY Media
  <2>2. QED
    BY <1>3, <2>1 DEF Back, ContentToValue, Codec, CharsetAsked
<1>5. QED
  BY <1>1, <1>2, <1>3, <1>4, JobFacts DEF Returns

LEMMA OpcuaReturns ==
    ASSUME job \in ValueJobs, Codec = "opcua", job.value # Undefined
    PROVE  Returns \/ Ends
<1>1. Sent = OpcuaBytes(job.value, job.schema)
  BY DEF Sent, ValueToContent, Codec
<1>2. Reply(Sent) = OpcuaReply(Sent)
  BY Media
<1>3. Back = OpcuaValue(Reply(Sent))
  BY Media DEF Back, ContentToValue, Codec
<1>4. QED
  BY <1>1, <1>2, <1>3, OpcuaBack, JobFacts DEF Returns, Ends

\* The way of a value as octets.
LEMMA OctetsWay ==
    ASSUME Codec = "octets"
    PROVE  /\ Sent = ValueToBytes(job.value, job.schema.type, job.type.parameters)
           /\ Reply(Sent) = Sent
           /\ Back = BytesToValue(Sent, job.schema.type, job.type.parameters)
<1>1. Sent = ValueToBytes(job.value, job.schema.type, job.type.parameters)
  BY DEF Sent, ValueToContent, Codec
<1>2. Reply(Sent) = Sent
  BY Media
<1>3. Back = BytesToValue(Reply(Sent), job.schema.type, job.type.parameters)
  BY Media DEF Back, ContentToValue, Codec
<1>4. QED
  BY <1>1, <1>2, <1>3

LEMMA StringReturns ==
    ASSUME job \in ValueJobs, Codec = "octets", job.schema.type = "string",
           job.value[1] = "string", CharsetAsked = "utf8"
    PROVE  Returns \/ ("length" \in DOMAIN job.type.parameters /\ Ends)
<1>1. Sent = Text(job.value) /\ Sent # Fails /\ Reply(Sent) = Sent
  BY OctetsWay, StringBack, TextBack DEF CharsetAsked
<1>2. Back = job.value \/ ("length" \in DOMAIN job.type.parameters /\ Back = Fails)
  BY <1>1, OctetsWay, StringBack DEF CharsetAsked
<1>3. QED
  BY <1>1, <1>2, JobFacts DEF Returns, Ends

LEMMA BooleanReturns ==
    ASSUME job \in ValueJobs, Codec = "octets", job.schema.type = "boolean",
           job.value[1] = "boolean", Given(job.type.parameters, "length", 0) # 0
    PROVE  Returns
<1>1. /\ job.value \in {Boolean(TRUE), Boolean(FALSE)}
      /\ Given(job.type.parameters, "length", 0) \in Nat \ {0}
  BY JobFacts
<1>2. QED
  BY <1>1, OctetsWay, BooleanBack, JobFacts DEF Returns

\* A type that has a sign is signed or not.
LEMMA TypedSigns == \A t \in DOMAIN Typed : Typed[t][1] \in BOOLEAN
<1> DEFINE Signed(t) == Typed[t][1] \in BOOLEAN
<1>1. ASSUME NEW x \in BOOLEAN, NEW y, NEW z, NEW t, Typed[t] = <<x, y, z>>
      PROVE  Signed(t)
  <2>1. <<x, y, z>>[1] = x
    OBVIOUS
  <2>2. QED
    BY <1>1, <2>1, Zenon
<1>2. TRUE \in BOOLEAN /\ FALSE \in BOOLEAN
  OBVIOUS
<1>3. /\ Typed["int8"] = <<TRUE, "int", 1>>
      /\ Typed["uint8"] = <<FALSE, "int", 1>>
      /\ Typed["int16"] = <<TRUE, "int", 2>>
      /\ Typed["uint16"] = <<FALSE, "int", 2>>
      /\ Typed["int32"] = <<TRUE, "int", 4>>
      /\ Typed["uint32"] = <<FALSE, "int", 4>>
      /\ Typed["short"] = <<TRUE, "short", NaN>>
      /\ Typed["byte"] = <<TRUE, "byte", NaN>>
      /\ Typed["float16"] = <<TRUE, "float", 2>>
      /\ Typed["float32"] = <<TRUE, "float", 4>>
  BY DEF Typed
<1> HIDE DEF Signed
<1>4. Signed("int8") /\ Signed("uint8") /\ Signed("int16") /\ Signed("uint16") /\ Signed("int32")
  BY <1>1, <1>2, <1>3, Zenon
<1>5. Signed("uint32") /\ Signed("short") /\ Signed("byte") /\ Signed("float16") /\ Signed("float32")
  BY <1>1, <1>2, <1>3, Zenon
<1>6. DOMAIN Typed = {"int8", "uint8", "int16", "uint16", "int32", "uint32", "short",
                     "byte", "float16", "float32"}
  BY DEF Typed
<1>7. \A t \in DOMAIN Typed : Signed(t)
  BY <1>4, <1>5, <1>6
<1>8. QED
  BY <1>7 DEF Signed

\* The way of an integer whose type or parameters say its shape.
LEMMA IntegerReturns ==
    ASSUME job \in ValueJobs, IsInteger
    PROVE  LET n == job.value[2]
               length == IntegerShape[3]
               greatest == ~IntegerShape[1] /\ n = Radix ^ length - 1
           IN  IF InRange(n, length, IntegerShape[1]) /\ ~greatest THEN Returns ELSE Ends
<1> DEFINE n == job.value[2]
           type == job.schema.type
           parameters == job.type.parameters
           big == Given(parameters, "bigendian", TRUE)
           signed == IntegerShape[1]
           length == IntegerShape[3]
<1>1. /\ Codec = "octets" /\ job.value[1] = "number"
      /\ IntegerShape[2] \in {"int", "integer"} /\ length \in {1, 2, 4}
      /\ Given(parameters, "length", length) = length
      /\ type \in DOMAIN Typed \/ "signed" \in DOMAIN parameters
  BY DEF IsInteger
<1>2. job.value = Number(n) /\ n \in Int /\ big \in BOOLEAN
  BY <1>1, JobFacts
<1>3. IntegerShape = Shape(type, Given(parameters, "signed", FALSE), Given(parameters, "length", 0))
  BY DEF IntegerShape
<1>4. IntegerShape = Shape(type, Given(parameters, "signed", TRUE), Given(parameters, "length", 0))
  <2>1. CASE type \in DOMAIN Typed
    BY <1>3, <2>1 DEF Shape
  <2>2. CASE "signed" \in DOMAIN parameters
    BY <1>3, <2>2 DEF Given
  <2>3. QED
    BY <1>1, <2>1, <2>2
<1>5. IntegerShape = Shape(type, Given(parameters, "signed", FALSE), length)
  <2>1. CASE type \in DOMAIN Typed
    BY <1>3, <2>1 DEF Shape
  <2>2. CASE type \notin DOMAIN Typed
    <3>1. IntegerShape
            = <<Given(parameters, "signed", FALSE), type, Given(parameters, "length", 0)>>
      BY <1>3, <2>2 DEF Shape
    <3>2. length = Given(parameters, "length", 0)
      BY <3>1
    <3>3. QED
      BY <1>3, <3>2
  <2>3. QED
    BY <2>1, <2>2
<1>6. signed \in BOOLEAN
  <2>1. CASE type \in DOMAIN Typed
    <3>1. IntegerShape = Typed[type]
      BY <1>3, <2>1 DEF Shape
    <3>2. QED
      BY <2>1, <3>1, TypedSigns
  <2>2. CASE type \notin DOMAIN Typed
    <3>1. signed = Given(parameters, "signed", FALSE)
      BY <1>3, <2>2 DEF Shape
    <3>2. Given(parameters, "signed", TRUE) \in BOOLEAN
      BY JobFacts
    <3>3. "signed" \in DOMAIN parameters
      BY <1>1, <2>2
    <3>4. QED
      BY <3>1, <3>2, <3>3 DEF Given
  <2>3. QED
    BY <2>1, <2>2
<1>7. IntegerShape[2] \notin {"boolean", "float", "number", "string", "array", "object"}
  BY <1>1
<1>8. Number(n)[1] = "number" /\ Number(n)[2] = n /\ Number(n) # Undefined
  BY DEF Number, Undefined
<1> DEFINE written == WriteInteger(n, length, signed, big)
<1>9. ValueToBytes(Number(n), type, parameters) = written
  <2> HIDE DEF n, type, parameters
  <2>1. length # 0
    BY <1>1
  <2>2. QED
    BY <1>1, <1>4, <1>7, <1>8, <2>1 DEF ValueToBytes
<1>10. Sent = written /\ Reply(Sent) = written /\ Back = BytesToValue(written, type, parameters)
  BY <1>1, <1>2, <1>9, OctetsWay
<1>11. ASSUME NEW b \in [1 .. length -> Int], written = Octets(b),
              ReadInteger(b, length, signed, big) = Number(n)
       PROVE  Returns
  <2>1. /\ Octets(b)[1] = "octets" /\ Octets(b)[2] = b /\ Octets(b) # Fails
    BY DEF Octets, Fails
  <2>2. LengthOf(Octets(b)) = length
    <3>1. Len(b) = length
      BY <1>1, <1>11
    <3>2. QED
      BY <2>1, <3>1 DEF LengthOf
  <2>3. ~("length" \in DOMAIN parameters /\ parameters.length # length)
    BY <1>1 DEF Given
  <2>4. BytesToValue(Octets(b), type, parameters) = ReadInteger(b, length, signed, big)
    <3> HIDE DEF type, parameters
    <3>1. QED
      BY <1>1, <1>5, <1>7, <2>1, <2>2, <2>3 DEF BytesToValue
  <2>5. Back = job.value
    BY <1>2, <1>10, <1>11, <2>4
  <2>6. QED
    BY <1>10, <1>11, <2>1, <2>5, JobFacts DEF Returns
<1>12. ASSUME written = Fails PROVE Ends
  BY <1>10, <1>12 DEF Ends
<1> HIDE DEF n, signed, length, big, written
<1>13. IF InRange(n, length, signed) /\ ~(~signed /\ n = Radix ^ length - 1)
       THEN \E b \in [1 .. length -> Int] :
               written = Octets(b) /\ ReadInteger(b, length, signed, big) = Number(n)
       ELSE written = Fails
  <2>1. length \in {1, 2, 4} /\ n \in Int /\ signed \in BOOLEAN /\ big \in BOOLEAN
    BY <1>1, <1>2, <1>6
  <2>2. KeptInRange(n, length, signed, big)
    BY <2>1, IntegersBack
  <2>3. written = WriteInteger(n, length, signed, big)
    BY DEF written
  <2>4. QED
    BY <2>2, <2>3, Zenon DEF KeptInRange
<1>14. IF InRange(n, length, signed) /\ ~(~signed /\ n = Radix ^ length - 1)
       THEN Returns ELSE Ends
  BY <1>11, <1>12, <1>13
<1>15. QED
  BY <1>14 DEF n, signed, length

-----------------------------------------------------------------------------
(* The values that survive                                                 *)

\* What its way makes of a value shows at its end.
LEMMA AtTheEnd ==
    ASSUME Carried, job.kind = "value", stage \in {"decoded", "refused"}
    PROVE  /\ job \in ValueJobs
           /\ Returns => Kept
           /\ Ends => stage = "refused"
<1>1. ASSUME Returns PROVE Kept
  BY <1>1 DEF Carried, Returns, Ends, Kept
<1>2. ASSUME Ends PROVE stage = "refused"
  BY <1>2 DEF Carried, Ends
<1>3. QED
  BY <1>1, <1>2 DEF Carried

LEMMA CarriedSurvives ==
    ASSUME Carried, job.kind = "value" => Codec # "netconf"
    PROVE  ValuesSurvive
<1> SUFFICES ASSUME job.kind = "value", stage \in {"decoded", "refused"}
             PROVE  TextSurvives /\ OctetsSurvive /\ IntegersSurvive /\ SessionsSurvive
  BY DEF ValuesSurvive
<1>1. job \in ValueJobs /\ (Returns => Kept) /\ (Ends => stage = "refused")
  BY AtTheEnd
<1>2. TextSurvives
  BY <1>1, JsonReturns, TextReturns, CharsetReturns DEF TextSurvives
<1>3. OctetsSurvive
  <2>1. ASSUME Codec = "octets", job.schema.type = "string", job.value[1] = "string",
               CharsetAsked = "utf8"
        PROVE  IF "length" \in DOMAIN job.type.parameters THEN KeptOrRefused ELSE Kept
    BY <1>1, <2>1, StringReturns DEF KeptOrRefused
  <2>2. ASSUME Codec = "octets", job.schema.type = "boolean", job.value[1] = "boolean",
               Given(job.type.parameters, "length", 0) # 0
        PROVE  Kept
    BY <1>1, <2>2, BooleanReturns
  <2>3. QED
    BY <2>1, <2>2 DEF OctetsSurvive
<1>4. IntegersSurvive
  BY <1>1, IntegerReturns DEF IntegersSurvive
<1>5. SessionsSurvive
  BY <1>1, OpcuaReturns DEF SessionsSurvive, KeptOrRefused
<1>6. QED
  BY <1>2, <1>3, <1>4, <1>5

\* For all values, schemas and content types, and bytes of two to eight bits: what
\* comes back from a device is what was written to it, and integers that cannot
\* come back are refused; ValuesSurvive names the values it leaves out. The codec
\* of NETCONF, whose values are trees, is left to the model checker.
THEOREM ValuesTheorem ==
    Spec => []((job.kind = "value" => Codec # "netconf") => ValuesSurvive)
<1>1. Carried => ((job.kind = "value" => Codec # "netconf") => ValuesSurvive)
  BY CarriedSurvives
<1>2. QED
  BY <1>1, CarriedInitially, CarriedStep, PTL DEF Spec

-----------------------------------------------------------------------------
(* Forms of Modbus                                                         *)

\* What a completed form is to a job.
Complete(form, j) ==
    /\ form.entity \in Entities /\ EntityOf[form.function] = form.entity
    /\ form.length \in Nat /\ form.offset \in Nat /\ j.base <= form.offset
    /\ j.bytes > 0 => 2 * j.bytes = SizeOf(form.entity) * form.length

\* The function of an entity is a function of this entity.
LEMMA FunctionsFit ==
    ASSUME NEW entity \in Entities, NEW bytes \in Nat
    PROVE  EntityOf[FunctionOf(entity, bytes)] = entity
<1>1. CASE entity = "Coil"
  <2>1. FunctionOf(entity, bytes) \in {"readCoil", "writeSingleCoil", "writeMultipleCoils"}
    BY <1>1 DEF FunctionOf
  <2>2. QED
    BY <1>1, <2>1 DEF EntityOf
<1>2. CASE entity = "HoldingRegister"
  <2>1. FunctionOf(entity, bytes) \in {"readHoldingRegisters", "writeSingleHoldingRegister",
                                        "writeMultipleHoldingRegisters"}
    BY <1>2 DEF FunctionOf
  <2>2. QED
    BY <1>2, <2>1 DEF EntityOf
<1>3. CASE entity = "InputRegister"
  BY <1>3 DEF FunctionOf, EntityOf
<1>4. CASE entity = "DiscreteInput"
  BY <1>4 DEF FunctionOf, EntityOf
<1>5. QED
  BY <1>1, <1>2, <1>3, <1>4 DEF Entities

LEMMA EntitiesTyped == \A function \in DOMAIN EntityOf : EntityOf[function] \in Entities
  BY DEF EntityOf, Entities

LEMMA SizeIs == \A entity : SizeOf(entity) \in {1, 2}
  BY DEF SizeOf

\* The form that the client fills in by default.
LEMMA FilledForm ==
    ASSUME NEW form \in ModbusForms, NEW bytes \in Nat,
           ValidateAndFillDefaultForm(form, bytes) # Refused
    PROVE  LET filled == ValidateAndFillDefaultForm(form, bytes)
           IN  /\ filled = [form EXCEPT !.entity = filled.entity, !.length = filled.length,
                                        !.function = filled.function]
               /\ filled.entity \in Entities /\ EntityOf[filled.function] = filled.entity
               /\ filled.length \in Nat
               /\ form.offset \in Nat
<1> DEFINE entity == IF form.entity # "" THEN form.entity ELSE EntityOf[form.function]
           length == CASE form.length > 0 -> 2 * form.length
                       [] form.length <= 0 /\ bytes = 0 -> 2
                       [] OTHER -> (2 * bytes) \div SizeOf(entity)
           function == IF form.entity = "" THEN form.function ELSE FunctionOf(entity, bytes)
           refused == \/ form.entity = "" /\ form.function = ""
                      \/ form.function # "" /\ form.function \notin DOMAIN EntityOf
                      \/ form.offset = Unset
           filled == [form EXCEPT !.entity = entity, !.length = length, !.function = function]
<1>1. ValidateAndFillDefaultForm(form, bytes) = IF refused THEN Refused ELSE filled
  BY DEF ValidateAndFillDefaultForm
<1>2. ~refused /\ ValidateAndFillDefaultForm(form, bytes) = filled
  BY <1>1
<1>3. /\ form.entity \in Entities \union {""} /\ form.offset \in Nat \union {Unset}
      /\ form.length \in Nat
  BY DEF ModbusForms
<1>4. entity \in Entities /\ EntityOf[function] = entity
  <2>1. CASE form.entity # ""
    BY <1>3, <2>1, FunctionsFit
  <2>2. CASE form.entity = ""
    <3>1. form.function \in DOMAIN EntityOf
      BY <1>2, <2>2
    <3>2. QED
      BY <2>2, <3>1, EntitiesTyped
  <2>3. QED
    BY <2>1, <2>2
<1> HIDE DEF entity
<1>5. length \in Nat
  <2>1. (2 * bytes) \div SizeOf(entity) \in Nat
    <3>1. \A n \in Nat : n \div 1 \in Nat /\ n \div 2 \in Nat
      OBVIOUS
    <3>2. 2 * bytes \in Nat
      OBVIOUS
    <3>3. QED
      BY <3>1, <3>2, SizeIs
  <2> DEFINE quotient == (2 * bytes) \div SizeOf(entity)
  <2> DEFINE given == form.length
  <2>2. given \in Nat
    BY DEF ModbusForms
  <2>3. length = CASE given > 0 -> 2 * given
                   [] given <= 0 /\ bytes = 0 -> 2
                   [] OTHER -> quotient
    OBVIOUS
  <2> HIDE DEF given, length, quotient
  <2>4. CASE given > 0
    BY <2>2, <2>3, <2>4
  <2>5. CASE ~(given > 0) /\ bytes = 0
    BY <2>2, <2>3, <2>5
  <2>6. CASE ~(given > 0) /\ bytes # 0
    <3>1. length = quotient
      BY <2>2, <2>3, <2>6
    <3>2. QED
      BY <2>1, <3>1 DEF quotient
  <2>7. QED
    BY <2>4, <2>5, <2>6
<1>6. form.offset \in Nat
  BY <1>2, <1>3
<1> HIDE DEF length, function
<1>7. filled.entity = entity /\ filled.length = length /\ filled.function = function
  BY DEF ModbusForms
<1>8. QED
  BY <1>2, <1>4, <1>5, <1>6, <1>7

\* The form that the client performs an operation with.
LEMMA PerformedForm ==
    ASSUME NEW j \in ModbusJobs, PerformOperation(j.form, j.bytes) # Refused
    PROVE  Complete(PerformOperation(j.form, j.bytes), j)
<1> DEFINE filled == ValidateAndFillDefaultForm(j.form, j.bytes)
           final == OverrideFormFromURLPath(filled)
<1>1. /\ j.form \in ModbusForms /\ j.bytes \in Nat /\ j.base \in Nat
      /\ j.form.offset # Unset => j.base <= j.form.offset
      /\ j.form.url.offset > 0 => j.base <= j.form.url.offset
  BY ModbusAssumption
<1>2. /\ filled # Refused /\ ValidateContentLength(final, j.bytes)
      /\ PerformOperation(j.form, j.bytes) = final
  BY DEF PerformOperation
<1>3. /\ filled = [j.form EXCEPT !.entity = filled.entity, !.length = filled.length,
                                 !.function = filled.function]
      /\ filled.entity \in Entities /\ EntityOf[filled.function] = filled.entity
      /\ filled.length \in Nat /\ j.form.offset \in Nat
  BY <1>1, <1>2, FilledForm
<1> HIDE DEF filled
<1>4. /\ filled.offset = j.form.offset /\ filled.url = j.form.url
      /\ j.form.url.offset \in Nat /\ j.form.url.length \in Nat
      /\ filled = [filled EXCEPT !.unitID = filled.unitID]
      /\ {"unitID", "offset", "length", "entity", "function"} \subseteq DOMAIN filled
  BY <1>1, <1>3 DEF ModbusForms
<1>5. /\ final.entity = filled.entity /\ final.function = filled.function
      /\ final.offset = (IF j.form.url.offset > 0 THEN j.form.url.offset ELSE filled.offset)
      /\ final.length = IF j.form.url.length > 0 THEN 2 * j.form.url.length ELSE filled.length
  BY <1>4 DEF OverrideFormFromURLPath
<1> HIDE DEF final
<1>6. final.offset \in Nat /\ j.base <= final.offset
  BY <1>1, <1>3, <1>4, <1>5 DEF Unset
<1>7. final.length \in Nat
  BY <1>3, <1>4, <1>5
<1>8. j.bytes > 0 => 2 * j.bytes = SizeOf(final.entity) * final.length
  BY <1>2 DEF ValidateContentLength
<1>9. QED
  BY <1>2, <1>3, <1>5, <1>6, <1>7, <1>8 DEF Complete

\* The values of consecutive cells, and a part of them.
LEMMA PartOf ==
    ASSUME NEW n \in Nat, NEW base \in Nat, NEW from \in Nat, NEW count \in Nat,
           from + count <= n
    PROVE  SubSeq([i \in 1 .. n |-> base + i], from + 1, from + count)
             = [i \in 1 .. count |-> base + from + i]
<1> DEFINE s == [i \in 1 .. n |-> base + i]
<1>1. s \in Seq(Int) /\ Len(s) = n /\ \A i \in 1 .. n : s[i] = base + i
  OBVIOUS
<1> HIDE DEF s
<1>2. SubSeq(s, from + 1, from + count) = [i \in 1 .. count |-> s[from + i]]
  BY <1>1
<1>3. \A i \in 1 .. count : s[from + i] = base + from + i
  BY <1>1
<1>4. QED
  BY <1>2, <1>3 DEF s

\* The part of a reply that belongs to a form: registers from any offset, coils
\* from the one that the device was read from.
LEMMA SliceBelongs ==
    ASSUME NEW form, form.length \in Nat, form.offset \in Nat,
           NEW base \in Nat, base <= form.offset,
           SizeOf(form.entity) = 2 \/ form.offset = base
    PROVE  LET size == SizeOf(form.entity)
               cells == form.offset - base + form.length \div 2
               reply == [i \in 1 .. size * cells |-> size * base + i]
           IN  SliceOf(reply, form, base)
                 = [i \in 1 .. size * (form.length \div 2) |-> size * form.offset + i]
<1> DEFINE size == SizeOf(form.entity)
           from == form.offset - base
           length == form.length \div 2
           reply == [i \in 1 .. size * (from + length) |-> size * base + i]
<1>1. from \in Nat /\ length \in Nat /\ size \in {1, 2} /\ from + base = form.offset
  BY SizeIs
<1>2. SliceOf(reply, form, base) = IF size = 2 THEN SubSeq(reply, 2 * from + 1, 2 * (from + length))
                                   ELSE SubSeq(reply, from + 1, length)
  BY DEF SliceOf
<1> HIDE DEF size, from, length
<1>3. CASE size = 2
  <2>1. /\ 2 * (from + length) \in Nat /\ 2 * base \in Nat /\ 2 * from \in Nat /\ 2 * length \in Nat
        /\ 2 * from + 2 * length = 2 * (from + length)
        /\ 2 * base + 2 * from = 2 * form.offset
    BY <1>1
  <2>2. SubSeq([i \in 1 .. 2 * (from + length) |-> 2 * base + i], 2 * from + 1, 2 * from + 2 * length)
          = [i \in 1 .. 2 * length |-> 2 * base + 2 * from + i]
    <3> DEFINE n == 2 * (from + length)
               b == 2 * base
               f == 2 * from
               c == 2 * length
    <3>1. n \in Nat /\ b \in Nat /\ f \in Nat /\ c \in Nat /\ f + c <= n
      BY <2>1
    <3> HIDE DEF n, b, f, c
    <3>2. SubSeq([i \in 1 .. n |-> b + i], f + 1, f + c) = [i \in 1 .. c |-> b + f + i]
      BY <3>1, PartOf
    <3>3. QED
      BY <3>2 DEF n, b, f, c
  <2>3. SliceOf(reply, form, base) = [i \in 1 .. 2 * length |-> 2 * form.offset + i]
    BY <1>2, <1>3, <2>1, <2>2
  <2>4. QED
    BY <1>3, <2>3 DEF size, from, length
<1>4. CASE size = 1
  <2>1. form.offset = base /\ from = 0
    BY <1>1, <1>4 DEF size
  <2>2. SubSeq([i \in 1 .. length |-> base + i], 0 + 1, 0 + length) = [i \in 1 .. length |-> base + 0 + i]
    BY <1>1, PartOf
  <2>3. 1 * (from + length) = length /\ 1 * base = base /\ base + 0 = base /\ 1 * length = length
        /\ 0 + length = length
    BY <1>1, <2>1
  <2>4. SliceOf(reply, form, base) = SubSeq(reply, 0 + 1, 0 + length)
    BY <1>2, <1>4, <2>1, <2>3
  <2>5. reply = [i \in 1 .. length |-> base + i]
    BY <1>4, <2>3
  <2>6. [i \in 1 .. length |-> base + 0 + i] = [i \in 1 .. 1 * length |-> 1 * form.offset + i]
    BY <2>1, <2>3
  <2>7. SliceOf(reply, form, base) = [i \in 1 .. 1 * length |-> 1 * form.offset + i]
    BY <2>2, <2>4, <2>5, <2>6
  <2>8. QED
    BY <1>4, <2>7 DEF size, from, length
<1>5. QED
  BY <1>1, <1>3, <1>4

\* What is known of a form of Modbus on its way.
Completed ==
    /\ job.kind = "modbus" => job \in ModbusJobs
    /\ stage \in {"filled", "answered"} => job.kind = "modbus"
    /\ stage = "filled" => Complete(data, job)
    /\ stage = "answered" =>
         LET form == data.form
             size == SizeOf(form.entity)
         IN  size = 2 \/ form.offset = job.base =>
               data.content = [i \in 1 .. size * (form.length \div 2) |->
                                 size * form.offset + i]

LEMMA CompletedInitially == Init => Completed
<1> SUFFICES ASSUME Init PROVE job.kind = "modbus" => job \in ModbusJobs
  BY DEF Init, Completed
<1>1. job \in ValueJobs => job.kind = "value"
  BY JobFacts
<1>2. job \in HttpJobs \union DocumentJobs \union OldJobs => job.kind # "modbus"
  BY JobsAssumption
<1>3. QED
  BY <1>1, <1>2 DEF Init

LEMMA CompletedStep == Completed /\ [Next]_vars => Completed'
<1> SUFFICES ASSUME Completed, [Next]_vars
             PROVE  Completed'
  OBVIOUS
<1>1. CASE UNCHANGED vars
  BY <1>1 DEF Completed, Complete, vars
<1>2. ASSUME job' = job, stage' \notin {"filled", "answered"} PROVE Completed'
  BY <1>2 DEF Completed
<1>3. CASE Fill
  <2>1. /\ job' = job /\ job.kind = "modbus" /\ data' = PerformOperation(job.form, job.bytes)
        /\ stage' = IF PerformOperation(job.form, job.bytes) = Refused THEN "refused" ELSE "filled"
    BY <1>3 DEF Fill, Step
  <2>2. CASE PerformOperation(job.form, job.bytes) = Refused
    BY <1>2, <2>1, <2>2
  <2>3. CASE PerformOperation(job.form, job.bytes) # Refused
    <3>1. job \in ModbusJobs
      BY <2>1 DEF Completed
    <3>2. Complete(PerformOperation(job.form, job.bytes), job)
      BY <2>3, <3>1, PerformedForm
    <3>3. Complete(data, job)' /\ stage' = "filled"
      BY <2>1, <2>3, <3>2 DEF Complete
    <3>4. QED
      BY <2>1, <3>1, <3>3 DEF Completed
  <2>4. QED
    BY <2>2, <2>3
<1>4. CASE Answered
  <2> DEFINE size == SizeOf(data.entity)
             cells == data.offset - job.base + data.length \div 2
             reply == [i \in 1 .. size * cells |-> size * job.base + i]
  <2>1. /\ job' = job /\ job.kind = "modbus" /\ stage = "filled" /\ stage' = "answered"
        /\ data' = [form |-> data, content |-> SliceOf(reply, data, job.base)]
    BY <1>4 DEF Answered, Step
  <2>2. /\ job \in ModbusJobs /\ job.base \in Nat
        /\ data.length \in Nat /\ data.offset \in Nat /\ job.base <= data.offset
    BY <2>1, ModbusAssumption DEF Completed, Complete
  <2>3. data'.form = data /\ data'.content = SliceOf(reply, data, job.base)
    BY <2>1
  <2>4. ASSUME size = 2 \/ data.offset = job.base
        PROVE  SliceOf(reply, data, job.base)
                 = [i \in 1 .. size * (data.length \div 2) |-> size * data.offset + i]
    BY <2>2, <2>4, SliceBelongs
  <2> HIDE DEF reply
  <2>5. QED
    BY <2>1, <2>2, <2>3, <2>4 DEF Completed
<1>5. CASE Encode \/ Carry \/ Decode
  BY <1>2, <1>5 DEF Encode, Carry, Decode, Step
<1>6. CASE ExposeThing \/ Describe \/ Consume \/ Request \/ Serve
  BY <1>2, <1>6 DEF ExposeThing, Describe, Consume, Request, Serve, Step
<1>7. CASE Parse \/ Serialize \/ Transform
  BY <1>2, <1>7 DEF Parse, Serialize, Transform, Step
<1>8. CASE Done
  BY <1>1, <1>8 DEF Done
<1>9. QED
  BY <1>1, <1>3, <1>4, <1>5, <1>6, <1>7, <1>8 DEF Next

LEMMA CompletedUnderstood == Completed /\ stage # "handled" => RequestsUnderstood
  BY DEF Completed, Complete, RequestsUnderstood

-----------------------------------------------------------------------------
(* Descriptions                                                            *)

\* The provers do not know that a given name is a string.
Entries == ({"iri", "lang"} \X STRING) \union {DefaultContext, <<"lang", "en">>}
Names == STRING \union {DefaultType}
HasTerms(td) ==
    {"context", "type", "security", "definitions", "base", "affordances"} \subseteq DOMAIN td
IsAffordance(a) == {"kind", "flags", "forms"} \subseteq DOMAIN a
IsFcn(f) == f = [x \in DOMAIN f |-> f[x]]

\* A value that is a term is one of the three.
LEMMA OptionalIs ==
    ASSUME NEW S, NEW c \in Optional(S)
    PROVE  \/ c = None
           \/ \E v \in S : c = One(v) /\ c[1] = "one" /\ c[2] = v /\ c # None
           \/ \E s \in Seq(S) : c = List(s) /\ c[1] = "list" /\ c[2] = s /\ c # None
  BY DEF Optional, None, One, List

LEMMA OptionalGrows ==
    ASSUME NEW S, NEW T, S \subseteq T, NEW c \in Optional(S)
    PROVE  c \in Optional(T)
<1>1. \A s \in Seq(S) : s \in Seq(T)
  OBVIOUS
<1>2. QED
  BY <1>1 DEF Optional

\* A context with the default and a language is left as it is, and every context
\* that is an array comes to be one.
LEMMA ContextWhole ==
    ASSUME NEW s \in Seq(Entries), Contains(s, DefaultContext), Languages(s) # {}
    PROVE  WithLanguage(ContextOf(List(s))) = List(s)
<1>1. List(s)[1] = "list" /\ List(s)[2] = s /\ List(s) # None
  BY DEF List, None
<1>2. ContextOf(List(s)) = List(s)
  BY <1>1 DEF ContextOf
<1>3. QED
  BY <1>1, <1>2 DEF WithLanguage

LEMMA LanguageGiven ==
    ASSUME NEW s \in Seq(Entries), Contains(s, DefaultContext)
    PROVE  \E t \in Seq(Entries) : /\ WithLanguage(List(s)) = List(t)
                                   /\ Contains(t, DefaultContext) /\ Languages(t) # {}
<1>1. List(s)[1] = "list" /\ List(s)[2] = s
  BY DEF List
<1>2. CASE Languages(s) # {}
  BY <1>1, <1>2 DEF WithLanguage
<1>3. CASE Languages(s) = {}
  <2> DEFINE t == Append(s, <<"lang", "en">>)
  <2>1. WithLanguage(List(s)) = List(t)
    BY <1>1, <1>3 DEF WithLanguage
  <2>2. <<"lang", "en">> \in Entries
    BY DEF Entries
  <2>3. t \in Seq(Entries) /\ Len(t) = Len(s) + 1 /\ t[Len(s) + 1] = <<"lang", "en">>
        /\ \A i \in 1 .. Len(s) : t[i] = s[i]
    BY <2>2
  <2>4. Contains(t, DefaultContext)
    BY <2>3 DEF Contains
  <2>5. Len(s) + 1 \in DOMAIN t /\ t[Len(s) + 1][1] = "lang"
    BY <2>3
  <2>6. Languages(t) # {}
    BY <2>5 DEF Languages
  <2>7. QED
    BY <2>1, <2>3, <2>4, <2>6
<1>4. QED
  BY <1>2, <1>3

LEMMA ContextFixed ==
    ASSUME NEW c \in Optional(Entries)
    PROVE  WithLanguage(ContextOf(WithLanguage(ContextOf(c)))) = WithLanguage(ContextOf(c))
<1>1. DefaultContext \in Entries
  BY DEF Entries
<1>2. ASSUME NEW s \in Seq(Entries), ContextOf(c) = List(s), Contains(s, DefaultContext)
      PROVE  WithLanguage(ContextOf(WithLanguage(ContextOf(c)))) = WithLanguage(ContextOf(c))
  BY <1>2, LanguageGiven, ContextWhole
<1>3. CASE c = None
  <2>1. ContextOf(c) = List(<<DefaultContext>>)
    BY <1>3 DEF ContextOf, None
  <2>2. <<DefaultContext>> \in Seq(Entries) /\ Contains(<<DefaultContext>>, DefaultContext)
    BY <1>1 DEF Contains
  <2>3. QED
    BY <1>2, <2>1, <2>2
<1>4. ASSUME NEW v \in Entries, c = One(v), c[1] = "one", c[2] = v, c # None
      PROVE  WithLanguage(ContextOf(WithLanguage(ContextOf(c)))) = WithLanguage(ContextOf(c))
  <2>1. CASE v = DefaultContext
    <3>1. ContextOf(c) = c
      BY <1>4, <2>1 DEF ContextOf
    <3>2. WithLanguage(c) = c
      BY <1>4 DEF WithLanguage
    <3>3. QED
      BY <3>1, <3>2
  <2>2. CASE v # DefaultContext
    <3>1. ContextOf(c) = List(<<v, DefaultContext>>)
      BY <1>4, <2>2 DEF ContextOf
    <3>2. <<v, DefaultContext>> \in Seq(Entries) /\ Contains(<<v, DefaultContext>>, DefaultContext)
      BY <1>1 DEF Contains
    <3>3. QED
      BY <1>2, <3>1, <3>2
  <2>3. QED
    BY <2>1, <2>2
<1>5. ASSUME NEW s \in Seq(Entries), c = List(s), c[1] = "list", c[2] = s, c # None
      PROVE  WithLanguage(ContextOf(WithLanguage(ContextOf(c)))) = WithLanguage(ContextOf(c))
  <2>1. CASE Contains(s, DefaultContext)
    <3>1. ContextOf(c) = List(s)
      BY <1>5, <2>1 DEF ContextOf
    <3>2. QED
      BY <1>2, <2>1, <3>1
  <2>2. CASE ~Contains(s, DefaultContext)
    <3> DEFINE t == Append(s, DefaultContext)
    <3>1. ContextOf(c) = List(t)
      BY <1>5, <2>2 DEF ContextOf
    <3>2. t \in Seq(Entries) /\ Len(t) = Len(s) + 1 /\ t[Len(s) + 1] = DefaultContext
      BY <1>1
    <3>3. Contains(t, DefaultContext)
      BY <3>2 DEF Contains
    <3>4. QED
      BY <1>2, <3>1, <3>2, <3>3
  <2>3. QED
    BY <2>1, <2>2
<1>6. QED
  BY <1>3, <1>4, <1>5, OptionalIs

LEMMA TypeFixed ==
    ASSUME NEW c \in Optional(Names)
    PROVE  TypeOf(TypeOf(c)) = TypeOf(c)
<1>1. DefaultType \in Names
  BY DEF Names
<1>2. TypeOf(One(DefaultType)) = One(DefaultType)
  <2>1. One(DefaultType)[1] = "one" /\ One(DefaultType)[2] = DefaultType /\ One(DefaultType) # None
    BY DEF One, None
  <2>2. QED
    BY <2>1 DEF TypeOf
<1>3. ASSUME NEW s \in Seq(Names), Contains(s, DefaultType) PROVE TypeOf(List(s)) = List(s)
  <2>1. List(s)[1] = "list" /\ List(s)[2] = s /\ List(s) # None
    BY DEF List, None
  <2>2. QED
    BY <1>3, <2>1 DEF TypeOf
<1>4. CASE c = None
  BY <1>2, <1>4 DEF TypeOf, None
<1>5. ASSUME NEW v \in Names, c = One(v), c[1] = "one", c[2] = v, c # None
      PROVE  TypeOf(TypeOf(c)) = TypeOf(c)
  <2>1. CASE v = DefaultType
    BY <1>2, <1>5, <2>1
  <2>2. CASE v # DefaultType
    <3>1. TypeOf(c) = List(<<DefaultType, v>>)
      BY <1>5, <2>2 DEF TypeOf
    <3>2. <<DefaultType, v>> \in Seq(Names) /\ Contains(<<DefaultType, v>>, DefaultType)
      BY <1>1 DEF Contains
    <3>3. QED
      BY <1>3, <3>1, <3>2
  <2>3. QED
    BY <2>1, <2>2
<1>6. ASSUME NEW s \in Seq(Names), c = List(s), c[1] = "list", c[2] = s, c # None
      PROVE  TypeOf(TypeOf(c)) = TypeOf(c)
  <2>1. CASE Contains(s, DefaultType)
    BY <1>3, <1>6, <2>1
  <2>2. CASE ~Contains(s, DefaultType)
    <3> DEFINE t == <<DefaultType>> \o s
    <3>1. TypeOf(c) = List(t)
      BY <1>6, <2>2 DEF TypeOf
    <3>2. <<DefaultType>> \in Seq(Names)
      BY <1>1
    <3>3. t \in Seq(Names) /\ Len(t) = 1 + Len(s) /\ t[1] = DefaultType
      BY <1>1, <3>2
    <3>4. Contains(t, DefaultType)
      BY <3>3 DEF Contains
    <3>5. QED
      BY <1>3, <3>1, <3>3, <3>4
  <2>3. QED
    BY <2>1, <2>2
<1>7. QED
  BY <1>4, <1>5, <1>6, OptionalIs

LEMMA FlagsFixed ==
    ASSUME NEW a, IsAffordance(a)
    PROVE  /\ IsAffordance(WithFlags(a)) /\ IsFcn(WithFlags(a))
           /\ WithFlags(a).forms = a.forms /\ WithFlags(a).kind = a.kind
           /\ WithFlags(WithFlags(a)) = WithFlags(a)
<1> DEFINE set == FlagsOf(a.kind)
           flags(g) == [name \in set \union DOMAIN g |->
                          IF name \in set
                          THEN IF name \in DOMAIN g /\ g[name] = "true" THEN "true" ELSE "false"
                          ELSE g[name]]
           b == WithFlags(a)
<1>1. b = [a EXCEPT !.flags = flags(a.flags)]
  BY DEF WithFlags
<1>2. DOMAIN b = DOMAIN a /\ b.forms = a.forms /\ b.kind = a.kind /\ b.flags = flags(a.flags)
  BY <1>1 DEF IsAffordance
<1>3. WithFlags(b) = [b EXCEPT !.flags = flags(b.flags)]
  BY <1>2 DEF WithFlags
<1>4. b = [x \in DOMAIN b |-> b[x]]
  BY <1>1
<1>5. flags(flags(a.flags)) = flags(a.flags)
  <2> DEFINE f == flags(a.flags)
  <2> HIDE DEF set
  <2>1. DOMAIN f = set \union DOMAIN a.flags
    OBVIOUS
  <2>2. \A name \in set : f[name] \in {"true", "false"}
    OBVIOUS
  <2>3. flags(f) = [name \in DOMAIN f |-> f[name]]
    BY <2>1, <2>2
  <2>4. QED
    BY <2>3
<1> HIDE DEF b, flags
<1>6. WithFlags(b) = b
  BY <1>2, <1>3, <1>4, <1>5
<1>7. QED
  BY <1>2, <1>4, <1>6 DEF b, IsAffordance, IsFcn

\* An affordance as the parser leaves it.
FormsParsed(forms, base) ==
    [i \in DOMAIN forms |-> IF base = "" THEN forms[i] ELSE BasedOn(forms[i], base)]
AffordanceParsed(a, base) ==
    [WithFlags(a) EXCEPT !.forms = List(FormsParsed(FormsOf(WithFlags(a)), base))]

LEMMA ListIs ==
    ASSUME NEW a, NEW s, a.forms = List(s)
    PROVE  FormsOf(a) = s /\ a.forms # None
  BY DEF List, None, FormsOf

LEMMA AffordanceLeft ==
    ASSUME NEW a, IsAffordance(a), NEW base
    PROVE  LET b == AffordanceParsed(a, base)
           IN  /\ IsAffordance(b) /\ IsFcn(b) /\ b.kind = a.kind
               /\ b.forms = List(FormsParsed(FormsOf(a), base))
               /\ FormsOf(b) = FormsParsed(FormsOf(a), base)
<1> DEFINE b == AffordanceParsed(a, base)
<1>1. /\ IsAffordance(WithFlags(a)) /\ WithFlags(a).kind = a.kind
      /\ FormsOf(WithFlags(a)) = FormsOf(a)
  BY FlagsFixed DEF FormsOf
<1>2. b = [WithFlags(a) EXCEPT !.forms = List(FormsParsed(FormsOf(a), base))]
  BY <1>1 DEF AffordanceParsed
<1>3. IsAffordance(b) /\ IsFcn(b) /\ b.kind = a.kind /\ b.forms = List(FormsParsed(FormsOf(a), base))
  BY <1>1, <1>2 DEF IsAffordance, IsFcn
<1>4. QED
  BY <1>3, ListIs

LEMMA ParsedShape ==
    ASSUME NEW td, ParseTD(td) # Refused
    PROVE  /\ \A name \in DOMAIN td.affordances : ~RefusedForms(td.affordances[name], td.base)
           /\ ParseTD(td) = [td EXCEPT
                !.context = WithLanguage(ContextOf(@)),
                !.type = TypeOf(@),
                !.security = IF @[1] = "one" THEN List(<<@[2]>>) ELSE @,
                !.affordances = [name \in DOMAIN td.affordances |->
                                   AffordanceParsed(td.affordances[name], td.base)]]
<1>1. \A name \in DOMAIN td.affordances : ~RefusedForms(td.affordances[name], td.base)
  BY DEF ParseTD
<1>2. QED
  BY <1>1 DEF ParseTD, AffordanceParsed, FormsParsed

LEMMA ParsedIs ==
    ASSUME NEW td, HasTerms(td), ParseTD(td) # Refused
    PROVE  LET p == ParseTD(td)
           IN  /\ HasTerms(p) /\ IsFcn(p)
               /\ p.context = WithLanguage(ContextOf(td.context))
               /\ p.type = TypeOf(td.type)
               /\ p.security = (IF td.security[1] = "one" THEN List(<<td.security[2]>>)
                                ELSE td.security)
               /\ p.base = td.base /\ p.definitions = td.definitions
               /\ "forms" \in DOMAIN td => p.forms = td.forms /\ "forms" \in DOMAIN p
               /\ p.affordances = [name \in DOMAIN td.affordances |->
                                     AffordanceParsed(td.affordances[name], td.base)]
               /\ \A name \in DOMAIN td.affordances : ~RefusedForms(td.affordances[name], td.base)
<1> DEFINE p == ParseTD(td)
           affordances == [name \in DOMAIN td.affordances |->
                             AffordanceParsed(td.affordances[name], td.base)]
<1>1. \A name \in DOMAIN td.affordances : ~RefusedForms(td.affordances[name], td.base)
  BY ParsedShape
<1>2. p = [td EXCEPT
             !.context = WithLanguage(ContextOf(@)),
             !.type = TypeOf(@),
             !.security = IF @[1] = "one" THEN List(<<@[2]>>) ELSE @,
             !.affordances = affordances]
  BY ParsedShape
<1> HIDE DEF p, affordances
<1>3. /\ HasTerms(p) /\ IsFcn(p)
      /\ p.context = WithLanguage(ContextOf(td.context))
      /\ p.type = TypeOf(td.type)
      /\ p.security = (IF td.security[1] = "one" THEN List(<<td.security[2]>>) ELSE td.security)
      /\ p.base = td.base /\ p.definitions = td.definitions
      /\ "forms" \in DOMAIN td => p.forms = td.forms /\ "forms" \in DOMAIN p
      /\ p.affordances = affordances
  BY <1>2 DEF HasTerms, IsFcn
<1>4. QED
  BY <1>1, <1>3 DEF p, affordances

\* The description of a description: its security, and the flags once more.
LEMMA SerializedIs ==
    ASSUME NEW td, HasTerms(td)
    PROVE  LET s == SerializeTD(td)
           IN  /\ HasTerms(s) /\ IsFcn(s)
               /\ s.context = td.context /\ s.type = td.type /\ s.base = td.base
               /\ s.security = (IF td.security = None \/ td.security = List(<<>>)
                                THEN List(<<"nosec_sc">>) ELSE td.security)
               /\ td.security # None /\ td.security # List(<<>>) =>
                    s.definitions = td.definitions
               /\ "forms" \in DOMAIN td => s.forms = td.forms /\ "forms" \in DOMAIN s
               /\ s.affordances = [name \in DOMAIN td.affordances |->
                                     WithFlags(td.affordances[name])]
<1> DEFINE s == SerializeTD(td)
           definitions == IF td.security = None \/ td.security = List(<<>>)
                          THEN "nosec_sc" :> "nosec" ELSE td.definitions
<1>1. s = [td EXCEPT
             !.security = IF @ = None \/ @ = List(<<>>) THEN List(<<"nosec_sc">>) ELSE @,
             !.definitions = definitions,
             !.affordances = [name \in DOMAIN @ |-> WithFlags(@[name])]]
  BY DEF SerializeTD, HasTerms
<1> HIDE DEF s, definitions
<1>2. QED
  BY <1>1 DEF s, definitions, HasTerms, IsFcn

\* Forms as the parser leaves them.
Settled(form) == form.href.kind # "relative"
AllSettled(forms) == \A i \in DOMAIN forms : Settled(forms[i])

LEMMA SettledStay ==
    ASSUME NEW forms, IsFcn(forms), AllSettled(forms), NEW base
    PROVE  FormsParsed(forms, base) = forms
<1>1. \A i \in DOMAIN forms : BasedOn(forms[i], base) = forms[i]
  BY DEF BasedOn, AllSettled, Settled
<1>2. FormsParsed(forms, base) = [i \in DOMAIN forms |-> forms[i]]
  BY <1>1 DEF FormsParsed
<1>3. QED
  BY <1>2 DEF IsFcn

LEMMA ParsingSettles ==
    ASSUME NEW a, NEW base, ~RefusedForms(a, base),
           \A form \in ToSet(FormsOf(a)) :
              "href" \in DOMAIN form /\ {"kind", "host"} \subseteq DOMAIN form.href
    PROVE  IsFcn(FormsParsed(FormsOf(a), base)) /\ AllSettled(FormsParsed(FormsOf(a), base))
<1> DEFINE forms == FormsOf(a)
           parsed == FormsParsed(forms, base)
<1>1. DOMAIN parsed = DOMAIN forms /\ IsFcn(parsed)
      /\ \A i \in DOMAIN forms :
            parsed[i] = IF base = "" THEN forms[i] ELSE BasedOn(forms[i], base)
  BY DEF FormsParsed, IsFcn
<1>2. \A i \in DOMAIN forms : forms[i] \in ToSet(forms)
  BY DEF ToSet
<1> HIDE DEF forms, parsed
<1>3. ASSUME NEW i \in DOMAIN forms PROVE Settled(parsed[i])
  <2>1. base = "" => forms[i].href.kind = "absolute"
    BY <1>2 DEF RefusedForms, IsAbsolute, forms
  <2>2. Settled(BasedOn(forms[i], base))
    <3>1. CASE forms[i].href.kind # "relative"
      BY <3>1 DEF BasedOn, Settled
    <3>2. CASE forms[i].href.kind = "relative"
      <4>1. "href" \in DOMAIN forms[i] /\ {"kind", "host"} \subseteq DOMAIN forms[i].href
        BY <1>2 DEF forms
      <4>2. BasedOn(forms[i], base).href.kind = "absolute"
        BY <3>2, <4>1 DEF BasedOn
      <4>3. QED
        BY <4>2 DEF Settled
    <3>3. QED
      BY <3>1, <3>2
  <2>3. QED
    BY <1>1, <2>1, <2>2 DEF Settled
<1>4. QED
  BY <1>1, <1>3 DEF AllSettled, parsed, forms

\* What the parser and the serializer leave in a document stays as it is when it
\* is parsed once more.
LEMMA DocumentReturns ==
    ASSUME NEW td, WellFormed(td), ParseTD(td) # Refused,
           ParseTD(SerializeTD(ParseTD(td))) # Refused
    PROVE  ParseTD(SerializeTD(ParseTD(td))) = SerializeTD(ParseTD(td))
<1> DEFINE p == ParseTD(td)
           s == SerializeTD(p)
           r == ParseTD(s)
<1>1. /\ HasTerms(td) /\ td.context \in Optional(Entries) /\ td.type \in Optional(Names)
      /\ td.security \in Optional(STRING)
      /\ \A name \in DOMAIN td.affordances : IsAffordance(td.affordances[name])
  <2>1. td.context \in Optional(Entries)
    BY OptionalGrows DEF WellFormed, Entries
  <2>2. td.type \in Optional(Names)
    BY OptionalGrows DEF WellFormed, Names
  <2>3. QED
    BY <2>1, <2>2 DEF WellFormed, HasTerms, IsAffordance
<1>2. /\ HasTerms(p) /\ p.base = td.base
      /\ p.context = WithLanguage(ContextOf(td.context))
      /\ p.type = TypeOf(td.type)
      /\ p.security = (IF td.security[1] = "one" THEN List(<<td.security[2]>>) ELSE td.security)
      /\ p.affordances = [name \in DOMAIN td.affordances |->
                            AffordanceParsed(td.affordances[name], td.base)]
      /\ \A name \in DOMAIN td.affordances : ~RefusedForms(td.affordances[name], td.base)
  BY <1>1, ParsedIs
<1> HIDE DEF p
<1>3. /\ HasTerms(s) /\ IsFcn(s)
      /\ s.context = p.context /\ s.type = p.type /\ s.base = p.base
      /\ s.security = (IF p.security = None \/ p.security = List(<<>>)
                       THEN List(<<"nosec_sc">>) ELSE p.security)
      /\ s.affordances = [name \in DOMAIN p.affordances |-> WithFlags(p.affordances[name])]
  BY <1>2, SerializedIs
<1> HIDE DEF s
<1>4. /\ HasTerms(r) /\ IsFcn(r)
      /\ r.context = WithLanguage(ContextOf(s.context))
      /\ r.type = TypeOf(s.type)
      /\ r.security = (IF s.security[1] = "one" THEN List(<<s.security[2]>>) ELSE s.security)
      /\ r.base = s.base
      /\ r.affordances = [name \in DOMAIN s.affordances |->
                            AffordanceParsed(s.affordances[name], s.base)]
  <2>1. ParseTD(s) # Refused
    BY DEF s, p
  <2>2. QED
    BY <1>3, <2>1, ParsedIs
<1>5. r.context = s.context
  BY <1>1, <1>2, <1>3, <1>4, ContextFixed
<1>6. r.type = s.type
  BY <1>1, <1>2, <1>3, <1>4, TypeFixed
<1>7. r.security = s.security
  <2>1. p.security = None \/ p.security[1] = "list"
    <3>1. td.security = None \/ td.security[1] \in {"one", "list"}
      BY <1>1, OptionalIs
    <3>2. \A v : List(v)[1] = "list"
      BY DEF List
    <3>3. None[1] = "none"
      BY DEF None
    <3>4. QED
      BY <1>2, <3>1, <3>2, <3>3
  <2>2. List(<<"nosec_sc">>)[1] = "list"
    BY DEF List
  <2>3. s.security[1] = "list"
    BY <1>3, <2>1, <2>2
  <2>4. QED
    BY <1>4, <2>3
<1>8. ASSUME NEW name \in DOMAIN td.affordances
      PROVE  AffordanceParsed(s.affordances[name], s.base) = s.affordances[name]
  <2> DEFINE a == td.affordances[name]
             b == AffordanceParsed(a, td.base)
             c == WithFlags(b)
             forms == FormsParsed(FormsOf(a), td.base)
  <2>1. s.affordances[name] = c
    BY <1>2, <1>3
  <2>2. IsFcn(forms) /\ AllSettled(forms)
    <3>1. ~RefusedForms(a, td.base)
      BY <1>2
    <3>2. \A form \in ToSet(FormsOf(a)) :
             "href" \in DOMAIN form /\ {"kind", "host"} \subseteq DOMAIN form.href
      BY <3>1 DEF WellFormed, RefusedForms
    <3>3. QED
      BY <3>1, <3>2, ParsingSettles
  <2>3. IsAffordance(b) /\ b.forms = List(forms)
    BY <1>1, AffordanceLeft
  <2> HIDE DEF b, forms
  <2>4. IsAffordance(c) /\ IsFcn(c) /\ c.forms = List(forms) /\ WithFlags(c) = c
    BY <2>3, FlagsFixed
  <2> HIDE DEF c
  <2>5. AffordanceParsed(c, s.base) = [c EXCEPT !.forms = List(FormsParsed(FormsOf(c), s.base))]
    BY <2>4 DEF AffordanceParsed
  <2>6. FormsParsed(FormsOf(c), s.base) = forms
    BY <2>2, <2>4, ListIs, SettledStay
  <2>7. AffordanceParsed(c, s.base) = [c EXCEPT !.forms = c.forms]
    BY <2>4, <2>5, <2>6
  <2>8. AffordanceParsed(c, s.base) = c
    BY <2>4, <2>7 DEF IsFcn, IsAffordance
  <2>9. QED
    BY <2>1, <2>8
<1>9. r.affordances = s.affordances
  <2>1. DOMAIN s.affordances = DOMAIN td.affordances
        /\ s.affordances = [name \in DOMAIN s.affordances |-> s.affordances[name]]
    BY <1>2, <1>3
  <2>2. QED
    BY <1>4, <1>8, <2>1
<1>10. r = [s EXCEPT
              !.context = WithLanguage(ContextOf(@)),
              !.type = TypeOf(@),
              !.security = IF @[1] = "one" THEN List(<<@[2]>>) ELSE @,
              !.affordances = r.affordances]
  <2>1. ParseTD(s) # Refused
    BY DEF s, p
  <2>2. QED
    BY <1>3, <1>4, <2>1, ParsedShape
<1>11. DOMAIN r = DOMAIN s
  BY <1>10
<1> HIDE DEF r
<1>12. \A x \in DOMAIN s : r[x] = s[x]
  <2>1. ASSUME NEW x \in DOMAIN s, x \notin {"context", "type", "security", "affordances"}
        PROVE  r[x] = s[x]
    BY <1>10, <2>1
  <2>2. QED
    BY <1>5, <1>6, <1>7, <1>9, <2>1
<1>13. r = s
  BY <1>3, <1>4, <1>11, <1>12 DEF IsFcn
<1>14. QED
  BY <1>13 DEF r, s, p

\* The address of a form below the path of a thing.
Below(form, a, base) ==
    /\ form.href.thing = EncodeURIComponent(base.urlPath)
    /\ form.href.variables = {EncodeURIComponent(v) : v \in a.uriVariables}

\* What a form must have to be routed as one of an affordance: it names its
\* operation, or it is one of the cloud.
Suits(form, name, a, base) ==
    /\ form.href.kind = "absolute"
    /\ \/ base.cloud /\ form.href.host = base.host
       \/ /\ a.kind = "properties"
          /\ form.op \subseteq {"readproperty", "writeproperty", "observeproperty",
                                "unobserveproperty"}
          /\ "readproperty" \in form.op => form.method \in {"", "GET"}
          /\ "writeproperty" \in form.op =>
               /\ form.method \in {"", "PUT"} /\ ~Is(a, "readOnly")
               /\ form.media = TemplateMedia(a, "application/json")
          /\ "readproperty" \in form.op \/ "writeproperty" \in form.op =>
               form.href.path = <<"properties", EncodeURIComponent(name)>> /\ Below(form, a, base)
          /\ "observeproperty" \in form.op =>
               /\ form.href.path = <<"properties", EncodeURIComponent(name), "observable">>
               /\ form.href.thing = EncodeURIComponent(base.urlPath) /\ form.method = ""
       \/ /\ a.kind = "actions" /\ form.op = {"invokeaction"} /\ form.method = "POST"
          /\ form.href.path = <<"actions", EncodeURIComponent(name)>> /\ Below(form, a, base)
          /\ form.media = TemplateMedia(a, "application/json")
       \/ /\ a.kind = "events" /\ form.op = {"subscribeevent", "unsubscribeevent"}
          /\ form.method = ""
          /\ form.href.path = <<"events", EncodeURIComponent(name)>> /\ Below(form, a, base)

\* Forms that a server gives an affordance.
RoutedOf(S, forms, name, a, base) ==
    forms \in Seq(S) /\ \A form \in S : Suits(form, name, a, base)
Routed(forms, name, a, base) == \E S : RoutedOf(S, forms, name, a, base)

LEMMA RoutedForm ==
    ASSUME NEW form, NEW name, NEW a, NEW base, Suits(form, name, a, base)
    PROVE  Routed(<<form>>, name, a, base)
<1>1. RoutedOf({form}, <<form>>, name, a, base)
  BY DEF RoutedOf
<1>2. QED
  BY <1>1 DEF Routed

LEMMA RoutedNone == ASSUME NEW name, NEW a, NEW base PROVE Routed(<<>>, name, a, base)
<1>1. RoutedOf({}, <<>>, name, a, base)
  BY DEF RoutedOf
<1>2. QED
  BY <1>1 DEF Routed

LEMMA RoutedJoin ==
    ASSUME NEW name, NEW a, NEW base, NEW s, NEW t,
           Routed(s, name, a, base), Routed(t, name, a, base)
    PROVE  Routed(s \o t, name, a, base)
<1>1. PICK S : s \in Seq(S) /\ \A form \in S : Suits(form, name, a, base)
  BY DEF Routed, RoutedOf
<1>2. PICK T : t \in Seq(T) /\ \A form \in T : Suits(form, name, a, base)
  BY DEF Routed, RoutedOf
<1>3. s \in Seq(S \union T) /\ t \in Seq(S \union T)
  BY <1>1, <1>2
<1>4. RoutedOf(S \union T, s \o t, name, a, base)
  BY <1>1, <1>2, <1>3 DEF RoutedOf
<1>5. QED
  BY <1>4 DEF Routed

LEMMA RoutedIs ==
    ASSUME NEW name, NEW a, NEW base, NEW s, Routed(s, name, a, base)
    PROVE  /\ DOMAIN s \subseteq Nat /\ \A i \in DOMAIN s : Suits(s[i], name, a, base)
           /\ IsFcn(s) /\ AllSettled(s)
<1>1. PICK S : s \in Seq(S) /\ \A form \in S : Suits(form, name, a, base)
  BY DEF Routed, RoutedOf
<1>2. DOMAIN s = 1 .. Len(s) /\ Len(s) \in Nat /\ \A i \in DOMAIN s : s[i] \in S
  BY <1>1
<1>3. s = [i \in DOMAIN s |-> s[i]]
  BY <1>1
<1>4. \A i \in DOMAIN s : Suits(s[i], name, a, base)
  BY <1>1, <1>2
<1>5. AllSettled(s)
  BY <1>4 DEF AllSettled, Settled, Suits
<1>6. QED
  BY <1>2, <1>3, <1>4, <1>5 DEF IsFcn

LEMMA JoinAt ==
    ASSUME NEW S, NEW s \in Seq(S), NEW t \in Seq(S)
    PROVE  /\ s \o t \in Seq(S) /\ Len(s \o t) = Len(s) + Len(t)
           /\ \A i \in 1 .. Len(s) + Len(t) :
                (s \o t)[i] = IF i <= Len(s) THEN s[i] ELSE t[i - Len(s)]
  OBVIOUS

LEMMA PathOfThree == ASSUME NEW a, NEW b, NEW c PROVE <<a, b>> \o <<c>> = <<a, b, c>>
<1> DEFINE u == <<a, b>> \o <<c>>
           S == {a, b, c}
           m == Len(<<a, b>>)
           n == Len(<<c>>)
<1>1. <<a, b>> \in Seq(S) /\ <<c>> \in Seq(S)
  OBVIOUS
<1>2. /\ u \in Seq(S) /\ Len(u) = m + n
      /\ \A i \in 1 .. m + n : u[i] = IF i <= m THEN <<a, b>>[i] ELSE <<c>>[i - m]
  BY <1>1, JoinAt
<1>3. m = 2 /\ n = 1
  OBVIOUS
<1> HIDE DEF u, m, n, S
<1>4. Len(u) = 3 /\ \A i \in 1 .. 3 : u[i] = IF i <= 2 THEN <<a, b>>[i] ELSE <<c>>[i - 2]
  BY <1>2, <1>3
<1>5. u[1] = a /\ u[2] = b /\ u[3] = c
  <2>1. u[1] = <<a, b>>[1] /\ u[2] = <<a, b>>[2] /\ u[3] = <<c>>[1]
    BY <1>4
  <2>2. QED
    BY <2>1
<1>6. u = <<a, b, c>>
  <2>1. u = [i \in 1 .. Len(u) |-> u[i]]
    BY <1>2
  <2>2. u = [i \in 1 .. 3 |-> u[i]]
    BY <1>4, <2>1
  <2>3. <<a, b, c>> = [i \in 1 .. 3 |-> <<a, b, c>>[i]]
    OBVIOUS
  <2>4. \A i \in 1 .. 3 : u[i] = <<a, b, c>>[i]
    BY <1>5
  <2>5. QED
    BY <2>2, <2>3, <2>4
<1>7. QED
  BY <1>6 DEF u

LEMMA PropertyRouted ==
    ASSUME NEW name, NEW property, property.kind = "properties", NEW base
    PROVE  Routed(PropertyForms(name, property, base, "application/json"), name, property, base)
<1> DEFINE media == "application/json"
           fits(forms) == Routed(forms, name, property, base)
           href == Href(base, base.host, "properties", name, property)
           typed == TemplateMedia(property, media)
           cloud(path) == [href EXCEPT !.path = <<path, Unescaped(name)>>, !.variables = {}]
           watched == [href EXCEPT !.path = @ \o <<"observable">>, !.variables = {}]
           observable == NewForm(watched, {"observeproperty", "unobserveproperty"}, "", media)
           read == NewForm(href, {"readproperty"}, "GET", typed)
           written == NewForm(href, {"writeproperty"}, "PUT", typed)
           both == NewForm(href, {"readproperty", "writeproperty"}, "", typed)
           plain == CASE Is(property, "readOnly") -> <<read>>
                      [] ~Is(property, "readOnly") /\ Is(property, "writeOnly") -> <<written>>
                      [] OTHER -> <<both>>
           status == NewForm(cloud("status"), {"readproperty"}, "GET", media)
           commands == NewForm(cloud("commands"), {"writeproperty"}, "POST", media)
           reads == IF Is(property, "writeOnly") THEN <<>> ELSE <<status>>
           writes == IF Is(property, "readOnly") THEN <<>> ELSE <<commands>>
           own == IF base.cloud THEN reads \o writes ELSE plain
           observed == IF Is(property, "observable") THEN <<observable>> ELSE <<>>
<1>1. /\ href.kind = "absolute" /\ href.path = <<"properties", EncodeURIComponent(name)>>
      /\ href.variables = {EncodeURIComponent(v) : v \in property.uriVariables}
      /\ href.thing = EncodeURIComponent(base.urlPath) /\ watched.thing = href.thing
      /\ \A path : cloud(path).kind = "absolute" /\ cloud(path).host = base.host
      /\ watched.kind = "absolute"
      /\ watched.path = <<"properties", EncodeURIComponent(name), "observable">>
  BY PathOfThree DEF Href
<1>2. PropertyForms(name, property, base, media) = own \o observed
  BY DEF PropertyForms
<1> HIDE DEF href, watched, cloud, typed
<1>3. base.cloud => Suits(status, name, property, base) /\ Suits(commands, name, property, base)
  BY <1>1 DEF Suits, NewForm
<1>4. Suits(observable, name, property, base)
  BY <1>1 DEF Suits, NewForm
<1>5. Suits(read, name, property, base)
  BY <1>1 DEF Suits, Below, NewForm
<1>6. /\ ~Is(property, "readOnly") => Suits(written, name, property, base)
      /\ ~Is(property, "readOnly") => Suits(both, name, property, base)
  BY <1>1 DEF Suits, Below, NewForm, typed
<1> HIDE DEF status, commands, observable, read, written, both
<1>7. base.cloud => fits(reads) /\ fits(writes)
  BY <1>3, RoutedForm, RoutedNone
<1>8. fits(plain)
  BY <1>5, <1>6, RoutedForm
<1>9. fits(observed)
  BY <1>4, RoutedForm, RoutedNone
<1> HIDE DEF reads, writes, plain, observed
<1>10. fits(own)
  BY <1>7, <1>8, RoutedJoin
<1> HIDE DEF own
<1>11. fits(own \o observed)
  BY <1>9, <1>10, RoutedJoin
<1>12. QED
  BY <1>2, <1>11

\* The forms a server gives an affordance.
EndpointForms(affordances, name, base) ==
    LET own(dir, affordance) ==
            Href(base, IF base.cloud THEN base.second ELSE base.host, dir, name, affordance)
        a == affordances[name]
        typed == TemplateMedia(a, "application/json")
    IN  CASE a.kind = "properties" -> PropertyForms(name, a, base, "application/json")
          [] a.kind = "actions" ->
               <<NewForm(own("actions", a), {"invokeaction"}, "POST", typed)>>
          [] a.kind = "events" ->
               <<NewForm(own("events", a), {"subscribeevent", "unsubscribeevent"},
                         "", typed)>>

LEMMA EndpointsRouted ==
    ASSUME NEW affordances, NEW name, NEW base,
           affordances[name].kind \in {"properties", "actions", "events"}
    PROVE  Routed(EndpointForms(affordances, name, base), name, affordances[name], base)
<1> DEFINE a == affordances[name]
           host == IF base.cloud THEN base.second ELSE base.host
           typed == TemplateMedia(a, "application/json")
           invoked == NewForm(Href(base, host, "actions", name, a), {"invokeaction"}, "POST", typed)
           subscribed == NewForm(Href(base, host, "events", name, a),
                                 {"subscribeevent", "unsubscribeevent"}, "", typed)
<1>1. CASE a.kind = "properties"
  BY <1>1, PropertyRouted DEF EndpointForms
<1>2. CASE a.kind = "actions"
  <2>1. Suits(invoked, name, a, base)
    BY <1>2 DEF Suits, Below, NewForm, Href
  <2>2. EndpointForms(affordances, name, base) = <<invoked>>
    BY <1>2 DEF EndpointForms
  <2> HIDE DEF invoked
  <2>3. QED
    BY <2>1, <2>2, RoutedForm
<1>3. CASE a.kind = "events"
  <2>1. Suits(subscribed, name, a, base)
    BY <1>3 DEF Suits, Below, NewForm, Href
  <2>2. EndpointForms(affordances, name, base) = <<subscribed>>
    BY <1>3 DEF EndpointForms
  <2> HIDE DEF subscribed
  <2>3. QED
    BY <2>1, <2>2, RoutedForm
<1>4. QED
  BY <1>1, <1>2, <1>3

WithEndpoints(affordances, base) ==
    [name \in DOMAIN affordances |->
       [affordances[name] EXCEPT !.forms = List(EndpointForms(affordances, name, base))]]
PropertiesOf(affordances) ==
    {affordances[n] : n \in {m \in DOMAIN affordances : affordances[m].kind = "properties"}}

\* Whether the code loses its way in the affordances of a thing.
Lost(affordances, base) ==
    \/ \E p \in PropertiesOf(affordances) : p.endpoints /\ ~base.cloud
                   /\ ~Is(p, "readOnly") /\ ~Is(p, "writeOnly")
    \/ /\ base.cloud /\ PropertiesOf(affordances) # {}
       /\ \A p \in PropertiesOf(affordances) : Is(p, "writeOnly")
       /\ \E p \in PropertiesOf(affordances) : ~Is(p, "readOnly")

LEMMA AddedIs ==
    ASSUME NEW thing, HasTerms(thing), NEW base
    PROVE  LET added == AddEndpoint(thing, base, "application/json")
           IN  /\ added = Refused <=> Lost(thing.affordances, base)
               /\ added # Refused =>
                    /\ HasTerms(added) /\ added.base = thing.base
                    /\ added.context = thing.context /\ added.type = thing.type
                    /\ added.definitions = thing.definitions
                    /\ added.affordances = WithEndpoints(thing.affordances, base)
                    /\ "forms" \in DOMAIN thing =>
                         /\ "forms" \in DOMAIN added
                         /\ added.forms = ThingForms(PropertiesOf(thing.affordances), base,
                                                     "application/json")
<1> DEFINE properties == PropertiesOf(thing.affordances)
           forms == ThingForms(properties, base, "application/json")
           affordances == WithEndpoints(thing.affordances, base)
           added == [thing EXCEPT !.forms = forms, !.affordances = affordances]
<1>1. AddEndpoint(thing, base, "application/json")
        = IF Lost(thing.affordances, base) THEN Refused ELSE added
  BY DEF AddEndpoint, EndpointForms, WithEndpoints, Lost, PropertiesOf
<1> HIDE DEF forms, affordances
<1>2. /\ HasTerms(added) /\ added.base = thing.base
      /\ added.context = thing.context /\ added.type = thing.type
      /\ added.definitions = thing.definitions /\ added.affordances = affordances
      /\ "forms" \in DOMAIN thing => "forms" \in DOMAIN added /\ added.forms = forms
  BY DEF HasTerms
<1>3. added # Refused
  BY <1>2 DEF HasTerms, Refused
<1> HIDE DEF added
<1>4. QED
  BY <1>1, <1>2, <1>3 DEF forms, affordances

\* One scheme is defined, and it is named.
SecuredBy(thing, scheme) ==
    \E n : thing.definitions = [m \in {n} |-> scheme] /\ thing.security = List(<<n>>)

LEMMA SecuredIs ==
    ASSUME NEW thing, HasTerms(thing), NEW scheme
    PROVE  LET secured == FillSecurityScheme(thing, scheme)
           IN  /\ secured = Refused <=>
                    /\ thing.definitions # NoDefinitions
                    /\ \A n \in DOMAIN thing.definitions : thing.definitions[n] # scheme
               /\ secured # Refused =>
                    /\ HasTerms(secured) /\ secured.base = thing.base
                    /\ secured.context = thing.context /\ secured.type = thing.type
                    /\ secured.affordances = thing.affordances
                    /\ "forms" \in DOMAIN thing =>
                         "forms" \in DOMAIN secured /\ secured.forms = thing.forms
                    /\ thing.definitions # NoDefinitions => SecuredBy(secured, scheme)
<1> DEFINE found == {n \in DOMAIN thing.definitions : thing.definitions[n] = scheme}
           with(definitions, security) ==
             [thing EXCEPT !.definitions = definitions, !.security = security]
<1>1. ASSUME NEW definitions, NEW security
      PROVE  LET secured == with(definitions, security)
             IN  /\ HasTerms(secured) /\ secured.base = thing.base
                 /\ secured.context = thing.context /\ secured.type = thing.type
                 /\ secured.affordances = thing.affordances
                 /\ "forms" \in DOMAIN thing =>
                      "forms" \in DOMAIN secured /\ secured.forms = thing.forms
                 /\ secured.definitions = definitions /\ secured.security = security
                 /\ secured # Refused
  BY DEF HasTerms, Refused
<1>2. CASE thing.definitions = NoDefinitions
  <2>1. \E definitions, security :
          FillSecurityScheme(thing, scheme) = with(definitions, security)
    BY <1>2 DEF FillSecurityScheme
  <2> HIDE DEF with
  <2>2. QED
    BY <1>1, <1>2, <2>1
<1>3. CASE thing.definitions # NoDefinitions /\ found = {}
  BY <1>3 DEF FillSecurityScheme
<1>4. CASE thing.definitions # NoDefinitions /\ found # {}
  <2> DEFINE chosen == CHOOSE n \in found : TRUE
             definitions == [m \in {chosen} |-> scheme]
             security == List(<<chosen>>)
  <2>1. FillSecurityScheme(thing, scheme) = with(definitions, security)
    BY <1>4 DEF FillSecurityScheme
  <2>2. ~(\A n \in DOMAIN thing.definitions : thing.definitions[n] # scheme)
    BY <1>4
  <2> HIDE DEF with, chosen, definitions, security
  <2>3. LET secured == with(definitions, security)
        IN  /\ HasTerms(secured) /\ secured.base = thing.base
            /\ secured.context = thing.context /\ secured.type = thing.type
            /\ secured.affordances = thing.affordances
            /\ "forms" \in DOMAIN thing =>
                 "forms" \in DOMAIN secured /\ secured.forms = thing.forms
            /\ secured.definitions = definitions /\ secured.security = security
            /\ secured # Refused
    BY <1>1
  <2>4. \E n : definitions = [m \in {n} |-> scheme] /\ security = List(<<n>>)
    BY DEF definitions, security
  <2>5. QED
    BY <1>4, <2>1, <2>2, <2>3, <2>4 DEF SecuredBy
<1>5. QED
  BY <1>2, <1>3, <1>4

\* What is exposed, when the code does not refuse it.
LEMMA ExposedIs ==
    ASSUME NEW thing, HasTerms(thing), NEW server, Expose(thing, server) # Refused
    PROVE  LET e == Expose(thing, server)
           IN  /\ HasTerms(e) /\ e.base = thing.base
               /\ e.context = thing.context /\ e.type = thing.type
               /\ e.affordances = WithEndpoints(thing.affordances, server.base)
               /\ "forms" \in DOMAIN thing =>
                    /\ "forms" \in DOMAIN e
                    /\ e.forms = ThingForms(PropertiesOf(thing.affordances), server.base,
                                            "application/json")
               /\ Named(server) /\ thing.definitions # NoDefinitions => SecuredBy(e, server.scheme)
<1> DEFINE added == AddEndpoint(thing, server.base, "application/json")
<1>1. added # Refused
  BY DEF Expose
<1>2. /\ HasTerms(added) /\ added.base = thing.base
      /\ added.context = thing.context /\ added.type = thing.type
      /\ added.definitions = thing.definitions
      /\ added.affordances = WithEndpoints(thing.affordances, server.base)
      /\ "forms" \in DOMAIN thing =>
           /\ "forms" \in DOMAIN added
           /\ added.forms = ThingForms(PropertiesOf(thing.affordances), server.base,
                                       "application/json")
  BY <1>1, AddedIs
<1>3. Expose(thing, server) = IF Named(server) THEN FillSecurityScheme(added, server.scheme) ELSE added
  BY <1>1 DEF Expose
<1> HIDE DEF added
<1>4. CASE ~Named(server)
  BY <1>2, <1>3, <1>4
<1>5. CASE Named(server)
  <2>1. Expose(thing, server) = FillSecurityScheme(added, server.scheme)
    BY <1>3, <1>5
  <2>2. FillSecurityScheme(added, server.scheme) # Refused
    BY <2>1
  <2>3. LET secured == FillSecurityScheme(added, server.scheme)
        IN  /\ HasTerms(secured) /\ secured.base = added.base
            /\ secured.context = added.context /\ secured.type = added.type
            /\ secured.affordances = added.affordances
            /\ "forms" \in DOMAIN added =>
                 "forms" \in DOMAIN secured /\ secured.forms = added.forms
            /\ added.definitions # NoDefinitions => SecuredBy(secured, server.scheme)
    BY <1>2, <2>2, SecuredIs
  <2>4. QED
    BY <1>2, <2>1, <2>3
<1>6. QED
  BY <1>4, <1>5

\* Only the affordances and the definitions of a thing can make the code refuse it.
LEMMA ExposedAlike ==
    ASSUME NEW one, HasTerms(one), NEW other, HasTerms(other), NEW server,
           one.affordances = other.affordances, one.definitions = other.definitions,
           Expose(one, server) # Refused
    PROVE  Expose(other, server) # Refused
<1> DEFINE added(thing) == AddEndpoint(thing, server.base, "application/json")
<1>1. added(one) # Refused
  BY DEF Expose
<1>2. added(other) # Refused
  BY <1>1, AddedIs
<1>3. HasTerms(added(one)) /\ HasTerms(added(other))
      /\ added(one).definitions = one.definitions /\ added(other).definitions = one.definitions
  BY <1>1, <1>2, AddedIs
<1>4. ASSUME NEW thing, added(thing) # Refused
      PROVE  Expose(thing, server) = IF Named(server) THEN FillSecurityScheme(added(thing), server.scheme)
                                     ELSE added(thing)
  BY <1>4 DEF Expose
<1> HIDE DEF added
<1>5. CASE ~Named(server)
  BY <1>2, <1>4, <1>5
<1>6. CASE Named(server)
  <2>1. FillSecurityScheme(added(one), server.scheme) # Refused
    BY <1>1, <1>4, <1>6
  <2>2. FillSecurityScheme(added(other), server.scheme) # Refused
    BY <1>3, <2>1, SecuredIs
  <2>3. QED
    BY <1>2, <1>4, <1>6, <2>2
<1>7. QED
  BY <1>5, <1>6

\* A language changes titles and the context only.
LEMMA NegotiatedIs ==
    ASSUME NEW thing, HasTerms(thing), NEW asked
    PROVE  LET d == Negotiated(thing, asked)
           IN  /\ HasTerms(d) /\ DOMAIN d.affordances = DOMAIN thing.affordances
               /\ d.security = thing.security /\ d.definitions = thing.definitions
               /\ "forms" \in DOMAIN thing => d.forms = thing.forms /\ "forms" \in DOMAIN d
               /\ \A name \in DOMAIN thing.affordances :
                    IsAffordance(thing.affordances[name]) =>
                      /\ IsAffordance(d.affordances[name])
                      /\ d.affordances[name].forms = thing.affordances[name].forms
<1> DEFINE reset == ResetMultiLangThing(thing, asked)
           affordances == [name \in DOMAIN thing.affordances |->
                             ResetMultiLangInteraction(thing.affordances[name], asked)]
<1>1. \E context, title, titles :
        reset = [thing EXCEPT !.context = context, !.title = title, !.titles = titles,
                              !.affordances = affordances]
  BY DEF ResetMultiLangThing, HasTerms
<1> HIDE DEF affordances
<1>2. /\ HasTerms(reset) /\ reset.affordances = affordances
      /\ reset.security = thing.security /\ reset.definitions = thing.definitions
      /\ "forms" \in DOMAIN thing => reset.forms = thing.forms /\ "forms" \in DOMAIN reset
  BY <1>1 DEF HasTerms
<1>3. ASSUME NEW name \in DOMAIN thing.affordances, IsAffordance(thing.affordances[name])
      PROVE  /\ IsAffordance(affordances[name])
             /\ affordances[name].forms = thing.affordances[name].forms
  <2>1. affordances[name] = [thing.affordances[name] EXCEPT
                               !.title = Titled(thing.affordances[name].titles, "", asked),
                               !.titles = <<>>]
    BY DEF affordances, ResetMultiLangInteraction
  <2>2. QED
    BY <1>3, <2>1 DEF IsAffordance
<1>4. DOMAIN affordances = DOMAIN thing.affordances
  BY DEF affordances
<1>5. QED
  BY <1>2, <1>3, <1>4 DEF Negotiated

\* The thing that a consumer makes of the description of an exposed one.
LEMMA ConsumedIs ==
    ASSUME NEW thing, WellFormed(thing), NEW server, NEW language,
           NEW exposed, exposed = Expose([thing EXCEPT !.context = WithLanguage(@)], server),
           exposed # Refused,
           NEW consumed, consumed = ParseTD(Negotiated(SerializeTD(exposed), language)),
           consumed # Refused
    PROVE  /\ Expose(thing, server).affordances = WithEndpoints(thing.affordances, server.base)
           /\ DOMAIN consumed.affordances = DOMAIN thing.affordances
           /\ \A name \in DOMAIN thing.affordances :
                FormsOf(consumed.affordances[name])
                  = EndpointForms(thing.affordances, name, server.base)
           /\ "forms" \in DOMAIN thing =>
                consumed.forms = ThingForms(PropertiesOf(thing.affordances), server.base,
                                            "application/json")
           /\ Named(server) /\ thing.definitions # NoDefinitions => SecuredBy(consumed, server.scheme)
<1> DEFINE named == [thing EXCEPT !.context = WithLanguage(@)]
           forms(name) == EndpointForms(thing.affordances, name, server.base)
           together == ThingForms(PropertiesOf(thing.affordances), server.base, "application/json")
           described == SerializeTD(exposed)
           read == Negotiated(described, language)
<1>1. /\ HasTerms(thing) /\ HasTerms(named)
      /\ named.affordances = thing.affordances /\ named.definitions = thing.definitions
      /\ "forms" \in DOMAIN thing => "forms" \in DOMAIN named
      /\ \A name \in DOMAIN thing.affordances :
           /\ IsAffordance(thing.affordances[name])
           /\ thing.affordances[name].kind \in {"properties", "actions", "events"}
  BY DEF WellFormed, HasTerms, IsAffordance
<1> HIDE DEF named
<1>2. Expose(thing, server) # Refused
  BY <1>1, ExposedAlike DEF named
<1>3. /\ HasTerms(exposed)
      /\ exposed.affordances = WithEndpoints(thing.affordances, server.base)
      /\ "forms" \in DOMAIN thing => "forms" \in DOMAIN exposed /\ exposed.forms = together
      /\ Named(server) /\ thing.definitions # NoDefinitions => SecuredBy(exposed, server.scheme)
  <2>1. exposed = Expose(named, server)
    BY DEF named
  <2>2. QED
    BY <1>1, <2>1, ExposedIs
<1>4. Expose(thing, server).affordances = WithEndpoints(thing.affordances, server.base)
  BY <1>1, <1>2, ExposedIs
<1> HIDE DEF forms, together
<1>5. ASSUME NEW name \in DOMAIN thing.affordances
      PROVE  /\ name \in DOMAIN exposed.affordances
             /\ IsAffordance(exposed.affordances[name])
             /\ exposed.affordances[name].forms = List(forms(name))
  BY <1>1, <1>3 DEF IsAffordance, WithEndpoints, forms
<1>6. DOMAIN exposed.affordances = DOMAIN thing.affordances
  BY <1>3 DEF WithEndpoints
<1>7. /\ HasTerms(described)
      /\ described.affordances = [name \in DOMAIN exposed.affordances |->
                                    WithFlags(exposed.affordances[name])]
      /\ "forms" \in DOMAIN exposed => described.forms = exposed.forms /\ "forms" \in DOMAIN described
      /\ exposed.security # None /\ exposed.security # List(<<>>) =>
           described.definitions = exposed.definitions /\ described.security = exposed.security
  BY <1>3, SerializedIs
<1> HIDE DEF described
<1>8. ASSUME NEW name \in DOMAIN thing.affordances
      PROVE  /\ name \in DOMAIN described.affordances
             /\ IsAffordance(described.affordances[name])
             /\ described.affordances[name].forms = List(forms(name))
  BY <1>5, <1>7, FlagsFixed
<1>9. /\ HasTerms(read) /\ DOMAIN read.affordances = DOMAIN thing.affordances
      /\ \A name \in DOMAIN thing.affordances :
           IsAffordance(read.affordances[name]) /\ read.affordances[name].forms = List(forms(name))
      /\ "forms" \in DOMAIN described => read.forms = described.forms /\ "forms" \in DOMAIN read
      /\ read.definitions = described.definitions /\ read.security = described.security
  <2>1. /\ HasTerms(read) /\ DOMAIN read.affordances = DOMAIN described.affordances
        /\ \A name \in DOMAIN described.affordances :
             IsAffordance(described.affordances[name]) =>
               /\ IsAffordance(read.affordances[name])
               /\ read.affordances[name].forms = described.affordances[name].forms
        /\ "forms" \in DOMAIN described => read.forms = described.forms /\ "forms" \in DOMAIN read
        /\ read.definitions = described.definitions /\ read.security = described.security
    BY <1>7, NegotiatedIs
  <2> HIDE DEF read
  <2>2. DOMAIN described.affordances = DOMAIN thing.affordances
    BY <1>6, <1>7
  <2>3. QED
    BY <1>8, <2>1, <2>2
<1>10. /\ consumed.affordances = [name \in DOMAIN read.affordances |->
                                    AffordanceParsed(read.affordances[name], read.base)]
       /\ "forms" \in DOMAIN read => consumed.forms = read.forms
       /\ consumed.definitions = read.definitions
       /\ consumed.security = (IF read.security[1] = "one" THEN List(<<read.security[2]>>)
                               ELSE read.security)
  <2>1. consumed = ParseTD(read)
    BY DEF described
  <2> HIDE DEF read
  <2>2. QED
    BY <1>9, <2>1, ParsedIs
<1> HIDE DEF read
<1>11. ASSUME NEW name \in DOMAIN thing.affordances
       PROVE  FormsOf(consumed.affordances[name]) = forms(name)
  <2>1. FormsOf(read.affordances[name]) = forms(name)
    BY <1>9, ListIs
  <2>2. IsFcn(forms(name)) /\ AllSettled(forms(name))
    BY <1>1, EndpointsRouted, RoutedIs DEF forms
  <2>3. FormsOf(consumed.affordances[name]) = FormsParsed(forms(name), read.base)
    BY <1>9, <1>10, <2>1, AffordanceLeft
  <2>4. QED
    BY <2>2, <2>3, SettledStay
<1>12. Named(server) /\ thing.definitions # NoDefinitions => SecuredBy(consumed, server.scheme)
  <2> SUFFICES ASSUME Named(server) /\ thing.definitions # NoDefinitions
               PROVE  SecuredBy(consumed, server.scheme)
    OBVIOUS
  <2>1. PICK n : /\ exposed.definitions = [m \in {n} |-> server.scheme]
                 /\ exposed.security = List(<<n>>)
    BY <1>3 DEF SecuredBy
  <2>2. List(<<n>>) # None /\ List(<<n>>) # List(<<>>) /\ List(<<n>>)[1] # "one"
    BY DEF List, None
  <2>3. consumed.definitions = exposed.definitions /\ consumed.security = exposed.security
    BY <1>7, <1>9, <1>10, <2>1, <2>2
  <2>4. QED
    BY <2>1, <2>3 DEF SecuredBy
<1>13. "forms" \in DOMAIN thing => consumed.forms = together
  BY <1>3, <1>7, <1>9, <1>10
<1>14. DOMAIN consumed.affordances = DOMAIN thing.affordances
  BY <1>9, <1>10
<1>15. QED
  BY <1>4, <1>11, <1>12, <1>13, <1>14 DEF forms, together

\* Every form of an exposed thing reaches its consumer as it is.
LEMMA FormsReach ==
    ASSUME NEW thing, WellFormed(thing), NEW server, NEW language,
           NEW exposed, exposed = Expose([thing EXCEPT !.context = WithLanguage(@)], server),
           exposed # Refused,
           NEW consumed, consumed = ParseTD(Negotiated(SerializeTD(exposed), language)),
           consumed # Refused
    PROVE  /\ DOMAIN consumed.affordances = DOMAIN thing.affordances
           /\ \A name \in DOMAIN thing.affordances :
                LET forms == FormsOf(consumed.affordances[name])
                IN  /\ forms = FormsOf(Expose(thing, server).affordances[name])
                    /\ AllSettled(forms)
<1>1. /\ Expose(thing, server).affordances = WithEndpoints(thing.affordances, server.base)
      /\ DOMAIN consumed.affordances = DOMAIN thing.affordances
      /\ \A name \in DOMAIN thing.affordances :
           FormsOf(consumed.affordances[name]) = EndpointForms(thing.affordances, name, server.base)
  BY ConsumedIs
<1>2. ASSUME NEW name \in DOMAIN thing.affordances
      PROVE  /\ FormsOf(WithEndpoints(thing.affordances, server.base)[name])
                  = EndpointForms(thing.affordances, name, server.base)
             /\ AllSettled(EndpointForms(thing.affordances, name, server.base))
  <2>1. WithEndpoints(thing.affordances, server.base)[name].forms
          = List(EndpointForms(thing.affordances, name, server.base))
    BY DEF WithEndpoints, WellFormed
  <2>2. thing.affordances[name].kind \in {"properties", "actions", "events"}
    BY DEF WellFormed
  <2>3. QED
    BY <2>1, <2>2, ListIs, EndpointsRouted, RoutedIs
<1>3. QED
  BY <1>1, <1>2

\* A parsed document has no relative form left, before and after the second time.
LEMMA DocumentSettled ==
    ASSUME NEW td, WellFormed(td), ParseTD(td) # Refused
    PROVE  /\ DOMAIN ParseTD(td).affordances = DOMAIN SerializeTD(ParseTD(td)).affordances
           /\ \A name \in DOMAIN ParseTD(td).affordances :
                /\ AllSettled(FormsOf(ParseTD(td).affordances[name]))
                /\ AllSettled(FormsOf(SerializeTD(ParseTD(td)).affordances[name]))
<1> DEFINE p == ParseTD(td)
<1>1. HasTerms(td) /\ \A name \in DOMAIN td.affordances : IsAffordance(td.affordances[name])
  BY DEF WellFormed, HasTerms, IsAffordance
<1>2. /\ HasTerms(p)
      /\ p.affordances = [name \in DOMAIN td.affordances |->
                            AffordanceParsed(td.affordances[name], td.base)]
      /\ \A name \in DOMAIN td.affordances : ~RefusedForms(td.affordances[name], td.base)
  BY <1>1, ParsedIs
<1>3. SerializeTD(p).affordances = [name \in DOMAIN p.affordances |-> WithFlags(p.affordances[name])]
  BY <1>2, SerializedIs
<1> HIDE DEF p
<1>4. ASSUME NEW name \in DOMAIN td.affordances
      PROVE  /\ AllSettled(FormsOf(p.affordances[name]))
             /\ AllSettled(FormsOf(SerializeTD(p).affordances[name]))
  <2> DEFINE a == td.affordances[name]
             forms == FormsParsed(FormsOf(a), td.base)
  <2>1. \A form \in ToSet(FormsOf(a)) :
             "href" \in DOMAIN form /\ {"kind", "host"} \subseteq DOMAIN form.href
    BY <1>2 DEF WellFormed, RefusedForms
  <2>2. AllSettled(forms)
    BY <1>2, <2>1, ParsingSettles
  <2>3. IsAffordance(p.affordances[name]) /\ p.affordances[name].forms = List(forms)
    BY <1>1, <1>2, AffordanceLeft
  <2>4. SerializeTD(p).affordances[name].forms = List(forms)
    BY <1>2, <1>3, <2>3, FlagsFixed
  <2>5. QED
    BY <2>2, <2>3, <2>4, ListIs
<1>5. DOMAIN p.affordances = DOMAIN td.affordances
      /\ DOMAIN SerializeTD(p).affordances = DOMAIN td.affordances
  BY <1>2, <1>3
<1>6. QED
  BY <1>4, <1>5 DEF p

\* What the data of a job is at each stage of a description.
ThingServed == Expose([job.thing EXCEPT !.context = WithLanguage(@)], job.server)
ThingDescribed == Negotiated(SerializeTD(ThingServed), job.language)
Conveyed ==
    /\ job.kind = "document" => job \in DocumentJobs
    /\ job.kind = "http" => job \in HttpJobs
    /\ stage \in {"parsed", "serialized", "reparsed"} =>
         job.kind = "document" /\ ParseTD(job.td) # Refused
    /\ stage \in {"exposed", "described", "consumed"} =>
         job.kind = "http" /\ ThingServed # Refused
    /\ stage = "transformed" => job.kind = "old"
    /\ stage = "parsed" => data = ParseTD(job.td)
    /\ stage = "serialized" => data = SerializeTD(ParseTD(job.td))
    /\ stage = "reparsed" => data = ParseTD(SerializeTD(ParseTD(job.td))) /\ data # Refused
    /\ stage = "exposed" => data = ThingServed
    /\ stage = "described" => data = ThingDescribed
    /\ stage = "consumed" => data = ParseTD(ThingDescribed) /\ data # Refused

LEMMA ConveyedInitially == Init => Conveyed
<1> SUFFICES ASSUME Init
             PROVE  /\ job.kind = "document" => job \in DocumentJobs
                    /\ job.kind = "http" => job \in HttpJobs
  BY DEF Init, Conveyed
<1>1. job \in ValueJobs => job.kind = "value"
  BY JobFacts
<1>2. job \in ModbusJobs => job.kind = "modbus"
  BY ModbusAssumption
<1>3. /\ job \in HttpJobs => job.kind = "http"
      /\ job \in DocumentJobs => job.kind = "document"
      /\ job \in OldJobs => job.kind = "old"
  BY JobsAssumption
<1>4. QED
  BY <1>1, <1>2, <1>3 DEF Init

LEMMA ConveyedStep == Conveyed /\ [Next]_vars => Conveyed'
<1> SUFFICES ASSUME Conveyed, [Next]_vars
             PROVE  Conveyed'
  OBVIOUS
<1> DEFINE Ways == {"parsed", "serialized", "reparsed", "exposed", "described", "consumed",
                    "transformed"}
<1>1. CASE UNCHANGED vars
  BY <1>1 DEF Conveyed, ThingServed, ThingDescribed, vars
<1>2. ASSUME job' = job, stage' \notin Ways PROVE Conveyed'
  BY <1>2 DEF Conveyed
<1>3. CASE ExposeThing
  <2>1. /\ job' = job /\ job.kind = "http" /\ data' = ThingServed
        /\ stage' = IF ThingServed = Refused THEN "refused" ELSE "exposed"
    BY <1>3 DEF ExposeThing, Step, ThingServed
  <2>2. ThingServed' = ThingServed
    BY <2>1 DEF ThingServed
  <2>3. QED
    BY <1>2, <2>1, <2>2 DEF Conveyed
<1>4. CASE Describe
  <2>1. /\ job' = job /\ job.kind = "http" /\ stage = "exposed" /\ stage' = "described"
        /\ data' = Negotiated(SerializeTD(data), job.language)
    BY <1>4 DEF Describe, Step
  <2>2. ThingServed' = ThingServed /\ ThingDescribed' = ThingDescribed
    BY <2>1 DEF ThingServed, ThingDescribed
  <2>3. data' = ThingDescribed
    BY <2>1 DEF Conveyed, ThingDescribed
  <2>4. QED
    BY <2>1, <2>2, <2>3 DEF Conveyed
<1>5. CASE Consume
  <2>1. /\ job' = job /\ job.kind = "http" /\ stage = "described" /\ data' = ParseTD(data)
        /\ stage' = IF ParseTD(data) = Refused THEN "refused" ELSE "consumed"
    BY <1>5 DEF Consume, Step
  <2>2. ThingServed' = ThingServed /\ ThingDescribed' = ThingDescribed
    BY <2>1 DEF ThingServed, ThingDescribed
  <2>3. data' = ParseTD(ThingDescribed)
    BY <2>1 DEF Conveyed
  <2>4. QED
    BY <1>2, <2>1, <2>2, <2>3 DEF Conveyed
<1>6. CASE Parse
  <2>1. CASE stage = "given"
    <3>1. /\ job' = job /\ job.kind = "document" /\ data' = ParseTD(job.td)
          /\ stage' = IF ParseTD(job.td) = Refused THEN "refused" ELSE "parsed"
      BY <1>6, <2>1 DEF Parse, Step
    <3>2. QED
      BY <1>2, <3>1 DEF Conveyed
  <2>2. CASE stage # "given"
    <3>1. /\ job' = job /\ job.kind = "document" /\ stage = "serialized" /\ data' = ParseTD(data)
          /\ stage' = IF ParseTD(data) = Refused THEN "refused" ELSE "reparsed"
      BY <1>6, <2>2 DEF Parse, Step
    <3>2. QED
      BY <1>2, <3>1 DEF Conveyed
  <2>3. QED
    BY <2>1, <2>2
<1>7. CASE Serialize
  BY <1>7 DEF Serialize, Step, Conveyed
<1>8. CASE Transform
  <2>1. job' = job /\ job.kind = "old" /\ stage' = "transformed"
    BY <1>8 DEF Transform, Step
  <2>2. QED
    BY <2>1 DEF Conveyed
<1>9. CASE Encode \/ Carry \/ Decode
  BY <1>2, <1>9 DEF Encode, Carry, Decode, Step
<1>10. CASE Request \/ Serve
  BY <1>2, <1>10 DEF Request, Serve, Step
<1>11. CASE Fill \/ Answered
  BY <1>2, <1>11 DEF Fill, Answered, Step
<1>12. CASE Done
  BY <1>1, <1>12 DEF Done
<1>13. QED
  BY <1>1, <1>3, <1>4, <1>5, <1>6, <1>7, <1>8, <1>9, <1>10, <1>11, <1>12 DEF Next

LEMMA ConveyedStable == Conveyed => (job.kind # "old" => DescriptionsStable)
<1> SUFFICES ASSUME Conveyed, job.kind # "old"
             PROVE  DescriptionsStable
  OBVIOUS
<1>1. stage # "transformed"
  BY DEF Conveyed
<1>2. CASE stage \in {"parsed", "reparsed"}
  <2>1. job.kind = "document" /\ job \in DocumentJobs /\ ParseTD(job.td) # Refused
    BY <1>2 DEF Conveyed
  <2>2. WellFormed(job.td)
    BY <2>1, JobsAssumption
  <2>3. stage = "reparsed" => data = SerializeTD(ParseTD(job.td))
    BY <2>1, <2>2, DocumentReturns DEF Conveyed
  <2>4. data = ParseTD(job.td) \/ data = SerializeTD(ParseTD(job.td))
    BY <1>2, <2>3 DEF Conveyed
  <2>5. \A name \in DOMAIN data.affordances : AllSettled(FormsOf(data.affordances[name]))
    BY <2>1, <2>2, <2>4, DocumentSettled
  <2>6. QED
    BY <1>2, <2>3, <2>5 DEF DescriptionsStable, AllSettled, Settled
<1>3. CASE stage = "consumed"
  <2>1. job.kind = "http" /\ job \in HttpJobs /\ ThingServed # Refused
        /\ data = ParseTD(ThingDescribed) /\ data # Refused
    BY <1>3 DEF Conveyed
  <2>2. WellFormed(job.thing)
    BY <2>1, JobsAssumption
  <2>3. /\ DOMAIN data.affordances = DOMAIN job.thing.affordances
        /\ \A name \in DOMAIN job.thing.affordances :
             /\ FormsOf(data.affordances[name])
                  = FormsOf(Expose(job.thing, job.server).affordances[name])
             /\ AllSettled(FormsOf(data.affordances[name]))
    BY <2>1, <2>2, FormsReach DEF ThingServed, ThingDescribed
  <2>4. QED
    BY <1>3, <2>3 DEF DescriptionsStable, AllSettled, Settled
<1>4. QED
  BY <1>1, <1>2, <1>3 DEF DescriptionsStable

\* A parsed description stays as it is when it is serialized and parsed again,
\* whatever it leaves out, its affordances have no relative form left, and every
\* form of an affordance of an exposed thing reaches its consumer, in any
\* language. The transformation of older descriptions is left to the model
\* checker.
THEOREM DescriptionsTheorem ==
    Spec => [](job.kind # "old" => DescriptionsStable)
<1>1. QED
  BY ConveyedInitially, ConveyedStep, ConveyedStable, PTL DEF Spec

-----------------------------------------------------------------------------
(* Requests                                                                *)

\* A nonempty set of numbers has a least one.
LEMMA FirstOf == ASSUME NEW S, S \subseteq Nat, S # {} PROVE Min(S) \in S
<1>1. IsWellFoundedOn(OpToRel(<, Nat), Nat)
  BY NatLessThanWellFounded
<1>2. PICK m \in S : \A k \in S : ~(<<k, m>> \in OpToRel(<, Nat))
  BY <1>1, WFMin
<1>3. \A k \in S : ~(k < m)
  BY <1>2 DEF OpToRel
<1>4. \A k \in S : m <= k
  BY <1>3
<1>5. QED
  BY <1>4 DEF Min

\* A server accepts the credentials that it shares with a client.
LEMMA AcceptedIs ==
    ASSUME NEW request, NEW server,
           \/ server.scheme = "nosec"
           \/ /\ server.scheme \in {"basic", "bearer"}
              /\ request.authorization = CredentialOf(server.scheme, server.secret)
              /\ request.authorization # <<"refused">>
    PROVE  Accepted(request, server)
<1>1. CASE server.scheme = "nosec"
  BY <1>1 DEF Accepted
<1>2. CASE server.scheme = "basic"
  <2>1. request.authorization = <<"Basic", server.secret>>
    BY <1>2 DEF CredentialOf
  <2>2. QED
    BY <1>2, <2>1 DEF Accepted
<1>3. CASE server.scheme = "bearer"
  <2>1. request.authorization = <<"Bearer", server.secret>>
    BY <1>3 DEF CredentialOf
  <2>2. QED
    BY <1>3, <2>1 DEF Accepted
<1>4. QED
  BY <1>1, <1>2, <1>3

\* What a server makes of a name that was written into an address.
LEMMA NameSegments ==
    /\ \A v, w : Unescaped(v) = EncodeURIComponent(w) <=> v = w /\ w \notin Escaped
    /\ \A name : name \notin DOMAIN Undecoded => DecodeURI(EncodeURIComponent(name)) = name
  BY DEF Unescaped, EncodeURIComponent, DecodeURI

\* What a form that suits an affordance asks for is handled as its operation.
LEMMA FormUnderstood ==
    ASSUME NEW thing, NEW name \in DOMAIN thing.affordances, NEW a, NEW server, NEW form,
           Suits(form, name, a, server.base),
           thing.affordances[name].kind = a.kind, thing.affordances[name].flags = a.flags,
           thing.affordances[name].uriVariables = a.uriVariables,
           NEW op \in Operations \ WriteAll, op \in form.op,
           op \in Sends => TemplateMedia(a, "application/json") \in SupportedMedia,
           server.base.cloud => server.base.host # server.base.second,
           form.href.host = server.base.second, NEW credential, NEW variables,
           name \notin DOMAIN Undecoded, server.base.urlPath \notin DOMAIN Undecoded,
           Accepted(GenerateFetchRequest(form, op, credential, variables), server)
    PROVE  LET request == GenerateFetchRequest(form, op, credential, variables)
           IN  /\ Handled(request, thing, server) = op /\ op # "readmultipleproperties"
               /\ op # "observeproperty" =>
                    ParseUrlParameters(request, thing.affordances[name])
                      = (variables \intersect a.uriVariables) \ Escaped
<1> DEFINE request == GenerateFetchRequest(form, op, credential, variables)
           served == thing.affordances[name]
<1>1. /\ request.method = (IF form.method # "" THEN form.method ELSE DefaultMethod(op))
      /\ request.path = form.href.path /\ request.thing = form.href.thing
      /\ request.query = {v \in variables : Unescaped(v) \in form.href.variables}
      /\ request.media = IF op \in Sends THEN form.media ELSE ""
  BY DEF GenerateFetchRequest
<1>2. "" \in SupportedMedia
  BY DEF SupportedMedia
<1>3. Is(served, "readOnly") <=> Is(a, "readOnly")
  BY DEF Is
<1> HIDE DEF request, served
<1>4. Below(form, a, server.base) =>
        ParseUrlParameters(request, served) = (variables \intersect a.uriVariables) \ Escaped
  <2>1. \A v, w : Unescaped(v) = EncodeURIComponent(w) <=> v = w /\ w \notin Escaped
    BY NameSegments
  <2>2. SUFFICES ASSUME form.href.variables = {EncodeURIComponent(v) : v \in a.uriVariables}
                 PROVE  ParseUrlParameters(request, served)
                          = (variables \intersect a.uriVariables) \ Escaped
    BY DEF Below
  <2>3. \A v : Unescaped(v) \in form.href.variables <=> v \in a.uriVariables \ Escaped
    BY <2>1, <2>2
  <2>4. request.query = {v \in variables : v \in a.uriVariables \ Escaped}
    BY <1>1, <2>3
  <2>5. QED
    BY <2>4 DEF ParseUrlParameters, served
<1>5. ~(server.base.cloud /\ form.href.host = server.base.host)
  OBVIOUS
<1>6. DecodeURI(EncodeURIComponent(name)) = name
       /\ DecodeURI(EncodeURIComponent(server.base.urlPath)) = server.base.urlPath
  BY NameSegments
<1>7. CASE a.kind = "properties"
  <2>1. op \in {"readproperty", "writeproperty", "observeproperty"}
    BY <1>5, <1>7 DEF Suits, Operations, Reads, Writes, ReadAll, WriteAll
  <2>2. served.kind = "properties"
    BY <1>7 DEF served
  <2>3. CASE op = "readproperty"
    <3>1. /\ request.method = "GET" /\ request.path = <<"properties", EncodeURIComponent(name)>>
          /\ request.thing = EncodeURIComponent(server.base.urlPath)
          /\ Below(form, a, server.base)
      BY <1>1, <1>5, <1>7, <2>3 DEF Suits, DefaultMethod, Reads, Writes, ReadAll, WriteAll, Below
    <3>2. Len(request.path) # 3 /\ request.path[1] = "properties" /\ request.path[2] = EncodeURIComponent(name)
      BY <3>1
    <3>3. Handled(request, thing, server) = op
      BY <1>6, <2>2, <2>3, <3>1, <3>2 DEF Handled, request, served
    <3>4. QED
      BY <1>4, <2>3, <3>1, <3>3 DEF request, served
  <2>4. CASE op = "writeproperty"
    <3>0. /\ "writeproperty" \in form.op /\ form.method \in {"", "PUT"} /\ ~Is(a, "readOnly")
          /\ form.media = TemplateMedia(a, "application/json")
          /\ form.href.path = <<"properties", EncodeURIComponent(name)>>
          /\ Below(form, a, server.base)
      BY <1>5, <1>7, <2>4 DEF Suits
    <3>1. /\ request.method = "PUT" /\ request.path = <<"properties", EncodeURIComponent(name)>>
          /\ request.thing = EncodeURIComponent(server.base.urlPath)
          /\ Below(form, a, server.base) /\ ~Is(served, "readOnly")
          /\ request.media \in SupportedMedia
      <4>1. DefaultMethod(op) = "PUT" /\ op \in Sends
        BY <2>4 DEF DefaultMethod, Sends, Reads, Writes, ReadAll, WriteAll
      <4>2. QED
        BY <1>1, <1>3, <3>0, <4>1 DEF Below
    <3>2. Len(request.path) # 3 /\ request.path[1] = "properties" /\ request.path[2] = EncodeURIComponent(name)
      BY <3>1
    <3>3. Handled(request, thing, server) = op
      BY <1>6, <2>2, <2>4, <3>1, <3>2 DEF Handled, request, served
    <3>4. QED
      BY <1>4, <2>4, <3>1, <3>3 DEF request, served
  <2>5. CASE op = "observeproperty"
    <3>1. /\ request.method = "GET"
          /\ request.path = <<"properties", EncodeURIComponent(name), "observable">>
          /\ request.thing = EncodeURIComponent(server.base.urlPath)
      BY <1>1, <1>5, <1>7, <2>5 DEF Suits, DefaultMethod, Reads, Writes, ReadAll, WriteAll, Below
    <3>2. Len(request.path) = 3 /\ request.path[1] = "properties" /\ request.path[2] = EncodeURIComponent(name)
      BY <3>1
    <3>3. Handled(request, thing, server) = op
      BY <1>6, <2>2, <2>5, <3>1, <3>2 DEF Handled, request, served
    <3>4. QED
      BY <2>5, <3>3 DEF request, served
  <2>6. QED
    BY <2>1, <2>3, <2>4, <2>5
<1>8. CASE a.kind = "actions"
  <2>1. /\ op = "invokeaction" /\ request.method = "POST"
        /\ request.path = <<"actions", EncodeURIComponent(name)>>
        /\ request.thing = EncodeURIComponent(server.base.urlPath)
        /\ Below(form, a, server.base) /\ request.media \in SupportedMedia
    BY <1>1, <1>5, <1>8 DEF Suits, Sends, Below
  <2>2. request.path[1] = "actions" /\ request.path[2] = EncodeURIComponent(name) /\ served.kind = "actions"
    BY <1>8, <2>1 DEF served
  <2>3. Handled(request, thing, server) = op
    BY <1>6, <2>1, <2>2 DEF Handled, request, served
  <2>4. QED
    BY <1>4, <2>1, <2>3 DEF request, served
<1>9. CASE a.kind = "events"
  <2> DEFINE path == form.href.path
  <2>0. /\ form.op = {"subscribeevent", "unsubscribeevent"} /\ form.method = ""
        /\ path = <<"events", EncodeURIComponent(name)>> /\ Below(form, a, server.base)
        /\ request.thing = EncodeURIComponent(server.base.urlPath)
    BY <1>1, <1>5, <1>9 DEF Suits, Below
  <2>1. op = "subscribeevent"
    BY <2>0 DEF Operations, Reads, Writes, ReadAll, WriteAll
  <2>2. request.method = "GET"
    BY <1>1, <2>0, <2>1 DEF DefaultMethod, Reads, Writes, ReadAll, WriteAll
  <2> HIDE DEF path
  <2>3. path[1] = "events" /\ path[2] = EncodeURIComponent(name)
    BY <2>0
  <2>4. request.path[1] = "events" /\ request.path[2] = EncodeURIComponent(name)
        /\ served.kind = "events"
    BY <1>1, <1>9, <2>3 DEF served, path
  <2>5. Handled(request, thing, server) = op
    BY <1>6, <2>0, <2>1, <2>2, <2>4 DEF Handled, request, served
  <2>6. QED
    BY <1>4, <2>0, <2>1, <2>5 DEF request, served
<1>10. QED
  BY <1>5, <1>7, <1>8, <1>9 DEF Suits

\* The forms of a thing for all of its properties: one that is routed, or some of
\* the cloud.
OfCloud(S, forms, base) == forms \in Seq(S) /\ \A form \in S : form.href.host = base.host
OfAll(form, base) ==
    /\ form.href.path = <<"all", Unescaped("properties")>> /\ form.method = ""
    /\ form.href.thing = EncodeURIComponent(base.urlPath)
    /\ form.op \subseteq ReadAll \union WriteAll

LEMMA TogetherIs ==
    ASSUME NEW properties, NEW base, NEW media
    PROVE  LET forms == ThingForms(properties, base, media)
           IN  \/ forms = <<>>
               \/ \E form : forms = <<form>> /\ OfAll(form, base)
               \/ base.cloud /\ \E S : OfCloud(S, forms, base)
<1> DEFINE readOnly == \A p \in properties : Is(p, "readOnly")
           writeOnly == \A p \in properties : Is(p, "writeOnly")
           href(dir, name) == [kind |-> "absolute", host |-> base.host,
                               thing |-> EncodeURIComponent(base.urlPath),
                               path |-> <<dir, Unescaped(name)>>, variables |-> {}]
           ops == CASE readOnly -> ReadAll
                    [] ~readOnly /\ writeOnly -> WriteAll
                    [] OTHER -> ReadAll \union WriteAll
           status == NewForm(href("status", "all"), {"readallproperties"}, "GET", media)
           commands == NewForm(href("commands", "all"), WriteAll, "POST", media)
           all == NewForm(href("all", "properties"), ops, "", media)
           reads == IF writeOnly THEN <<>> ELSE <<status>>
           writes == IF readOnly THEN <<>> ELSE <<commands>>
           forms == ThingForms(properties, base, media)
           S == {status, commands}
<1>1. forms = CASE properties = {} -> <<>>
                [] properties # {} /\ ~base.cloud -> <<all>>
                [] OTHER -> reads \o writes
  BY DEF ThingForms
<1>2. \A form \in S : form.href.host = base.host
  BY DEF NewForm
<1>3. OfAll(all, base)
  BY DEF NewForm, OfAll
<1>4. reads \in Seq(S) /\ writes \in Seq(S)
  <2> HIDE DEF status, commands, readOnly, writeOnly
  <2>1. <<>> \in Seq(S) /\ <<status>> \in Seq(S) /\ <<commands>> \in Seq(S)
    OBVIOUS
  <2> HIDE DEF S
  <2>2. QED
    BY <2>1
<1> HIDE DEF all, reads, writes, forms, S
<1>5. reads \o writes \in Seq(S)
  BY <1>4, JoinAt
<1>6. CASE properties = {}
  BY <1>1, <1>6 DEF forms
<1>7. CASE properties # {} /\ ~base.cloud
  BY <1>1, <1>3, <1>7 DEF forms
<1>8. CASE properties # {} /\ base.cloud
  <2>1. OfCloud(S, forms, base)
    BY <1>1, <1>2, <1>5, <1>8 DEF OfCloud
  <2>2. QED
    BY <1>8, <2>1 DEF forms
<1>9. QED
  BY <1>6, <1>7, <1>8

LEMMA TogetherNumbered ==
    ASSUME NEW properties, NEW base, NEW media
    PROVE  DOMAIN ThingForms(properties, base, media) \subseteq Nat
<1> DEFINE forms == ThingForms(properties, base, media)
<1>1. \/ forms = <<>>
      \/ \E form : forms = <<form>>
      \/ \E S : forms \in Seq(S)
  BY TogetherIs DEF OfCloud
<1> HIDE DEF forms
<1>2. DOMAIN forms \subseteq Nat
  BY <1>1
<1>3. QED
  BY <1>2 DEF forms

\* The one form of a thing whose host is the server reads all of its properties.
LEMMA ThingUnderstood ==
    ASSUME NEW properties, NEW server, NEW i,
           server.base.cloud => server.base.host # server.base.second,
           i \in DOMAIN ThingForms(properties, server.base, "application/json"),
           NEW form, form = ThingForms(properties, server.base, "application/json")[i],
           form.href.host = server.base.second,
           NEW op \in Operations \ WriteAll, op \in form.op,
           server.base.urlPath \notin DOMAIN Undecoded, NEW thing, NEW credential, NEW variables,
           Accepted(GenerateFetchRequest(form, op, credential, variables), server)
    PROVE  /\ op \in ReadAll
           /\ Handled(GenerateFetchRequest(form, op, credential, variables), thing, server)
                = "readallproperties"
<1> DEFINE forms == ThingForms(properties, server.base, "application/json")
           request == GenerateFetchRequest(form, op, credential, variables)
<1>1. \/ forms = <<>>
      \/ \E f : forms = <<f>> /\ OfAll(f, server.base)
      \/ server.base.cloud /\ \E S : OfCloud(S, forms, server.base)
  BY TogetherIs
<1>2. i \in DOMAIN forms /\ form = forms[i]
  OBVIOUS
<1> HIDE DEF forms
<1>3. ~(server.base.cloud /\ \E S : OfCloud(S, forms, server.base))
  BY <1>2 DEF OfCloud
<1>4. OfAll(form, server.base)
  BY <1>1, <1>2, <1>3
<1>5. op \in ReadAll
  BY <1>4 DEF OfAll
<1>6. /\ request.method = "GET" /\ request.path = <<"all", Unescaped("properties")>>
      /\ DecodeURI(request.thing) = server.base.urlPath
  <2>1. /\ request.method = DefaultMethod(op) /\ request.path = <<"all", Unescaped("properties")>>
        /\ request.thing = EncodeURIComponent(server.base.urlPath)
    BY <1>4 DEF GenerateFetchRequest, OfAll
  <2>2. DefaultMethod(op) = "GET"
    BY <1>5 DEF DefaultMethod, Reads, Writes, ReadAll, WriteAll
  <2>3. QED
    BY <2>1, <2>2, NameSegments
<1>7. Accepted(request, server)
  OBVIOUS
<1> HIDE DEF request
<1>8. request.path[1] = "all"
  BY <1>6
<1>9. Handled(request, thing, server) = "readallproperties"
  BY <1>6, <1>7, <1>8 DEF Handled
<1>10. QED
  BY <1>5, <1>9 DEF request

\* What a job of HTTP asks for, once it asks.
ThingConsumed == ParseTD(ThingDescribed)
FormTaken == FormsAsked(ThingConsumed)[Min(Offering(ThingConsumed))]
CredentialTaken ==
    CredentialOf(ThingConsumed.definitions[Head(ThingConsumed.security[2])], job.credentials)
RequestSent == GenerateFetchRequest(FormTaken, job.op, CredentialTaken, job.variables)
ThingAsked == Expose(job.thing, job.server)

Requesting ==
    /\ stage \in {"requested", "handled"} =>
         /\ job.kind = "http" /\ ThingServed # Refused /\ ThingConsumed # Refused
         /\ Offering(ThingConsumed) # {} /\ CredentialTaken # <<"refused">>
    /\ stage = "requested" => data = RequestSent
    /\ stage = "handled" =>
         LET handled == Handled(RequestSent, ThingAsked, job.server)
         IN  /\ data.by = RequestSent.host /\ data.as = handled
             /\ handled # "401" /\ job.name # "" =>
                  data.variables = ParseUrlParameters(RequestSent,
                                                      ThingAsked.affordances[job.name])

LEMMA RequestingInitially == Init => Requesting
  BY DEF Init, Requesting

LEMMA RequestingStep == Conveyed /\ Requesting /\ [Next]_vars => Requesting'
<1> SUFFICES ASSUME Conveyed, Requesting, [Next]_vars
             PROVE  Requesting'
  OBVIOUS
<1> USE DEF ThingServed, ThingDescribed, ThingConsumed, FormsAsked, Offering, FormTaken,
            CredentialTaken, RequestSent, ThingAsked
<1>1. ASSUME stage' \notin {"requested", "handled"} PROVE Requesting'
  BY <1>1 DEF Requesting
<1>2. ASSUME job' = job
      PROVE  /\ ThingServed' = ThingServed /\ ThingConsumed' = ThingConsumed
             /\ Offering(ThingConsumed)' = Offering(ThingConsumed)
             /\ CredentialTaken' = CredentialTaken /\ RequestSent' = RequestSent
             /\ ThingAsked' = ThingAsked
  BY <1>2
<1>3. CASE Request
  <2> DEFINE offering == Offering(data)
             credential == CredentialOf(data.definitions[Head(data.security[2])], job.credentials)
             refused == offering = {} \/ credential = <<"refused">>
  <2>1. /\ job' = job /\ job.kind = "http" /\ stage = "consumed"
        /\ stage' = (IF refused THEN "refused" ELSE "requested")
        /\ data' = IF refused THEN <<"nothing">>
                   ELSE GenerateFetchRequest(FormsAsked(data)[Min(offering)], job.op, credential,
                                             job.variables)
    BY <1>3 DEF Request, Step
  <2>2. data = ThingConsumed /\ ThingServed # Refused /\ data # Refused
    BY <2>1 DEF Conveyed
  <2>3. CASE refused
    BY <1>1, <2>1, <2>3
  <2>4. CASE ~refused
    <3>1. Offering(ThingConsumed) # {} /\ CredentialTaken # <<"refused">>
      BY <2>2, <2>4
    <3>2. data' = RequestSent /\ stage' = "requested"
      BY <2>1, <2>2, <2>4
    <3> HIDE DEF ThingServed, ThingConsumed, Offering, CredentialTaken, RequestSent
    <3>3. QED
      BY <1>2, <2>1, <2>2, <3>1, <3>2 DEF Requesting
  <2>5. QED
    BY <2>3, <2>4
<1> HIDE DEF ThingServed, ThingDescribed, ThingConsumed, FormsAsked, Offering, FormTaken,
             CredentialTaken, RequestSent, ThingAsked
<1>4. CASE UNCHANGED vars
  <2>1. job' = job /\ stage' = stage /\ data' = data
    BY <1>4 DEF vars
  <2>2. QED
    BY <1>2, <2>1 DEF Requesting
<1>5. CASE Serve
  <2>1. /\ job' = job /\ stage = "requested" /\ stage' = "handled"
        /\ data'.by = data.host /\ data'.as = Handled(data, ThingAsked, job.server)
        /\ data'.as # "401" /\ job.name # "" =>
             data'.variables = ParseUrlParameters(data, ThingAsked.affordances[job.name])
    BY <1>5 DEF Serve, Step, ThingAsked
  <2>2. data = RequestSent
    BY <2>1 DEF Requesting
  <2>3. QED
    BY <1>2, <2>1, <2>2 DEF Requesting
<1>6. CASE Encode \/ Carry \/ Decode
  BY <1>1, <1>6 DEF Encode, Carry, Decode, Step
<1>7. CASE ExposeThing \/ Describe \/ Consume
  BY <1>1, <1>7 DEF ExposeThing, Describe, Consume, Step
<1>8. CASE Parse \/ Serialize \/ Transform
  BY <1>1, <1>8 DEF Parse, Serialize, Transform, Step
<1>9. CASE Fill \/ Answered
  BY <1>1, <1>9 DEF Fill, Answered, Step
<1>10. CASE Done
  BY <1>4, <1>10 DEF Done
<1>11. QED
  BY <1>4, <1>3, <1>5, <1>6, <1>7, <1>8, <1>9, <1>10 DEF Next

\* The credentials that the description of a thing asks for are accepted.
LEMMA AskedAccepted ==
    ASSUME job \in HttpJobs, ThingServed # Refused, ThingConsumed # Refused,
           CredentialTaken # <<"refused">>, job.credentials = job.server.secret,
           \/ job.server.scheme = "nosec"
           \/ /\ job.server.scheme \in {"basic", "bearer"}
              /\ Named(job.server) /\ job.thing.definitions # NoDefinitions
    PROVE  Accepted(RequestSent, job.server)
<1>1. RequestSent.authorization = CredentialTaken
  BY DEF RequestSent, GenerateFetchRequest
<1>2. CASE job.server.scheme = "nosec"
  BY <1>2, AcceptedIs
<1>3. CASE job.server.scheme # "nosec"
  <2>1. WellFormed(job.thing)
    BY JobsAssumption
  <2>2. SecuredBy(ThingConsumed, job.server.scheme)
    BY <1>3, <2>1, ConsumedIs DEF ThingConsumed, ThingDescribed, ThingServed
  <2>3. PICK n : /\ ThingConsumed.definitions = [m \in {n} |-> job.server.scheme]
                 /\ ThingConsumed.security = List(<<n>>)
    BY <2>2 DEF SecuredBy
  <2>4. Head(ThingConsumed.security[2]) = n
    BY <2>3 DEF List
  <2>5. CredentialTaken = CredentialOf(job.server.scheme, job.server.secret)
    BY <2>3, <2>4 DEF CredentialTaken
  <2>6. QED
    BY <1>1, <1>3, <2>5, AcceptedIs
<1>4. QED
  BY <1>2, <1>3

\* The form that is taken is one of the thing or of its affordance, and offers the
\* operation.
LEMMA TakenForm ==
    ASSUME job \in HttpJobs, ThingServed # Refused, ThingConsumed # Refused,
           Offering(ThingConsumed) # {}
    PROVE  /\ job.op \in FormTaken.op
           /\ ThingAsked.affordances = WithEndpoints(job.thing.affordances, job.server.base)
           /\ job.name = "" =>
                LET forms == ThingForms(PropertiesOf(job.thing.affordances), job.server.base,
                                        "application/json")
                IN  \E i \in DOMAIN forms : FormTaken = forms[i]
           /\ job.name # "" =>
                /\ job.name \in DOMAIN job.thing.affordances
                /\ Suits(FormTaken, job.name, job.thing.affordances[job.name], job.server.base)
<1> DEFINE affordances == job.thing.affordances
           own == EndpointForms(affordances, job.name, job.server.base)
           together == ThingForms(PropertiesOf(affordances), job.server.base, "application/json")
           forms == FormsAsked(ThingConsumed)
           i == Min(Offering(ThingConsumed))
<1>1. WellFormed(job.thing) /\ "forms" \in DOMAIN job.thing
  BY JobsAssumption
<1>2. /\ ThingAsked.affordances = WithEndpoints(affordances, job.server.base)
      /\ \A name \in DOMAIN affordances :
           FormsOf(ThingConsumed.affordances[name])
             = EndpointForms(affordances, name, job.server.base)
      /\ ThingConsumed.forms = together
  <2>1. ThingServed = Expose([job.thing EXCEPT !.context = WithLanguage(@)], job.server)
    BY DEF ThingServed
  <2>2. ThingConsumed = ParseTD(Negotiated(SerializeTD(ThingServed), job.language))
    BY DEF ThingConsumed, ThingDescribed
  <2>3. /\ Expose(job.thing, job.server).affordances
             = WithEndpoints(job.thing.affordances, job.server.base)
        /\ \A name \in DOMAIN job.thing.affordances :
             FormsOf(ThingConsumed.affordances[name])
               = EndpointForms(job.thing.affordances, name, job.server.base)
        /\ "forms" \in DOMAIN job.thing =>
             ThingConsumed.forms = ThingForms(PropertiesOf(job.thing.affordances),
                                              job.server.base, "application/json")
    BY <1>1, <2>1, <2>2, ConsumedIs
  <2>4. QED
    BY <1>1, <2>3 DEF ThingAsked
<1>3. job.name # "" => job.name \in DOMAIN affordances
  BY JobsAssumption
<1>4. forms = IF job.name = "" THEN together ELSE own
  BY <1>1, <1>2, <1>3 DEF FormsAsked
<1>5. ASSUME NEW name \in DOMAIN affordances
       PROVE  Routed(EndpointForms(affordances, name, job.server.base), name,
                     affordances[name], job.server.base)
  <2>1. affordances[name].kind \in {"properties", "actions", "events"}
    BY <1>1 DEF WellFormed
  <2> DEFINE base == job.server.base
  <2> HIDE DEF affordances, base
  <2>2. Routed(EndpointForms(affordances, name, base), name, affordances[name], base)
    BY <2>1, EndpointsRouted
  <2>3. QED
    BY <2>2 DEF base
<1>6. DOMAIN together \subseteq Nat
  BY TogetherNumbered
<1>7. job.name # "" =>
        /\ DOMAIN own \subseteq Nat
        /\ \A k \in DOMAIN own : Suits(own[k], job.name, affordances[job.name], job.server.base)
  <2>1. \A name \in DOMAIN affordances :
          LET these == EndpointForms(affordances, name, job.server.base)
          IN  /\ DOMAIN these \subseteq Nat
              /\ \A k \in DOMAIN these :
                   Suits(these[k], name, affordances[name], job.server.base)
    BY <1>5, RoutedIs
  <2>2. QED
    BY <1>3, <2>1
<1> HIDE DEF own, together, affordances
<1>8. Offering(ThingConsumed) \subseteq Nat
  BY <1>4, <1>6, <1>7 DEF Offering
<1>9. i \in Offering(ThingConsumed)
  BY <1>8, FirstOf
<1>10. i \in DOMAIN forms /\ job.op \in forms[i].op
  BY <1>9 DEF Offering
<1>11. FormTaken = forms[i]
  BY DEF FormTaken
<1> HIDE DEF forms, i
<1>12. /\ job.name = "" => i \in DOMAIN together /\ FormTaken = together[i]
       /\ job.name # "" => Suits(FormTaken, job.name, affordances[job.name], job.server.base)
  BY <1>4, <1>7, <1>10, <1>11
<1>13. QED
  BY <1>2, <1>3, <1>10, <1>11, <1>12 DEF together, affordances

\* A form of an affordance that suits it leads the request to the operation asked for.
LEMMA NamedUnderstood ==
    ASSUME job \in HttpJobs, job.name \in DOMAIN job.thing.affordances,
           job.op \in Operations \ WriteAll, job.op \in FormTaken.op,
           job.server.base.cloud => job.server.base.host # job.server.base.second,
           FormTaken.href.host = job.server.base.second,
           Suits(FormTaken, job.name, job.thing.affordances[job.name], job.server.base),
           ThingAsked.affordances = WithEndpoints(job.thing.affordances, job.server.base),
           job.op \in Sends =>
             TemplateMedia(job.thing.affordances[job.name], "application/json")
               \in SupportedMedia,
           job.name \notin DOMAIN Undecoded, job.server.base.urlPath \notin DOMAIN Undecoded,
           Accepted(RequestSent, job.server)
    PROVE  /\ Handled(RequestSent, ThingAsked, job.server) = job.op
           /\ job.op # "readmultipleproperties"
           /\ job.op # "observeproperty" =>
                ParseUrlParameters(RequestSent, ThingAsked.affordances[job.name])
                  = (job.variables \intersect job.thing.affordances[job.name].uriVariables) \ Escaped
<1> DEFINE name == job.name
           a == job.thing.affordances[name]
           served == ThingAsked.affordances[name]
           request == GenerateFetchRequest(FormTaken, job.op, CredentialTaken, job.variables)
<1>1. IsAffordance(a) /\ "uriVariables" \in DOMAIN a
  <2>1. WellFormed(job.thing) /\ "uriVariables" \in DOMAIN a
    BY JobsAssumption
  <2>2. QED
    BY <2>1 DEF WellFormed, IsAffordance
<1>2. /\ name \in DOMAIN ThingAsked.affordances
      /\ served.kind = a.kind /\ served.flags = a.flags /\ served.uriVariables = a.uriVariables
  BY <1>1 DEF WithEndpoints, IsAffordance
<1>3. Accepted(request, job.server)
  BY DEF RequestSent
<1>4. /\ Suits(FormTaken, name, a, job.server.base)
      /\ job.op \in Sends => TemplateMedia(a, "application/json") \in SupportedMedia
      /\ name \notin DOMAIN Undecoded
  OBVIOUS
<1> HIDE DEF name, a, served, request
<1>5. /\ Handled(request, ThingAsked, job.server) = job.op
      /\ job.op # "readmultipleproperties"
      /\ job.op # "observeproperty" =>
           ParseUrlParameters(request, ThingAsked.affordances[name])
             = (job.variables \intersect a.uriVariables) \ Escaped
  BY <1>1, <1>2, <1>3, <1>4, FormUnderstood DEF request, served
<1>6. QED
  BY <1>5 DEF RequestSent, request, a, name

\* A form of the thing leads the request to all of its properties.
LEMMA AllUnderstood ==
    ASSUME job.op \in Operations \ WriteAll, job.op \in FormTaken.op,
           job.server.base.cloud => job.server.base.host # job.server.base.second,
           FormTaken.href.host = job.server.base.second,
           NEW i \in DOMAIN ThingForms(PropertiesOf(job.thing.affordances), job.server.base,
                                       "application/json"),
           FormTaken = ThingForms(PropertiesOf(job.thing.affordances), job.server.base,
                                  "application/json")[i],
           job.server.base.urlPath \notin DOMAIN Undecoded,
           Accepted(RequestSent, job.server)
    PROVE  /\ job.op \in ReadAll
           /\ Handled(RequestSent, ThingAsked, job.server) = "readallproperties"
<1> DEFINE server == job.server
           op == job.op
           properties == PropertiesOf(job.thing.affordances)
           request == GenerateFetchRequest(FormTaken, op, CredentialTaken, job.variables)
<1>1. Accepted(request, server)
  BY DEF RequestSent
<1>2. /\ op \in Operations \ WriteAll /\ op \in FormTaken.op
      /\ server.base.cloud => server.base.host # server.base.second
      /\ FormTaken.href.host = server.base.second
      /\ server.base.urlPath \notin DOMAIN Undecoded
      /\ i \in DOMAIN ThingForms(properties, server.base, "application/json")
      /\ FormTaken = ThingForms(properties, server.base, "application/json")[i]
  OBVIOUS
<1> HIDE DEF server, op, properties, request
<1>3. op \in ReadAll /\ Handled(request, ThingAsked, server) = "readallproperties"
  BY <1>1, <1>2, ThingUnderstood DEF request
<1>4. QED
  BY <1>3 DEF RequestSent, request, op, server

\* What a client asks for is handled as the operation of the form it took.
LEMMA AskedUnderstood ==
    ASSUME job \in HttpJobs, ThingServed # Refused, ThingConsumed # Refused,
           Offering(ThingConsumed) # {}, Accepted(RequestSent, job.server),
           RequestSent.host = job.server.base.second, job.op \notin WriteAll,
           job.name \notin DOMAIN Undecoded, job.server.base.urlPath \notin DOMAIN Undecoded,
           job.op \in Sends =>
             TemplateMedia(job.thing.affordances[job.name], "application/json")
               \in SupportedMedia
    PROVE  LET op == IF job.op = "readmultipleproperties" THEN "readallproperties" ELSE job.op
           IN  /\ Handled(RequestSent, ThingAsked, job.server) = op /\ op # "401"
               /\ job.name # "" /\ job.op # "observeproperty" =>
                    ParseUrlParameters(RequestSent, ThingAsked.affordances[job.name])
                      = (job.variables \intersect job.thing.affordances[job.name].uriVariables) \ Escaped
<1>1. /\ job.op \in Operations \ WriteAll /\ job.op \in FormTaken.op
      /\ job.server.base.cloud => job.server.base.host # job.server.base.second
      /\ FormTaken.href.host = job.server.base.second
      /\ Accepted(GenerateFetchRequest(FormTaken, job.op, CredentialTaken, job.variables),
                  job.server)
  <2>1. FormTaken.href.host = job.server.base.second
    BY DEF RequestSent, GenerateFetchRequest
  <2>2. QED
    BY <2>1, TakenForm, JobsAssumption DEF RequestSent
<1>2. job.op # "401"
  BY <1>1 DEF Operations, Reads, Writes, ReadAll, WriteAll
<1>3. CASE job.name = ""
  <2>1. PICK i : /\ i \in DOMAIN ThingForms(PropertiesOf(job.thing.affordances), job.server.base,
                                            "application/json")
                 /\ FormTaken = ThingForms(PropertiesOf(job.thing.affordances), job.server.base,
                                           "application/json")[i]
    BY <1>3, TakenForm
  <2>2. /\ job.op \in ReadAll
        /\ Handled(RequestSent, ThingAsked, job.server) = "readallproperties"
    BY <1>1, <2>1, AllUnderstood
  <2>3. QED
    BY <1>3, <2>2 DEF ReadAll
<1>4. CASE job.name # ""
  <2>1. /\ Handled(RequestSent, ThingAsked, job.server) = job.op
        /\ job.op # "readmultipleproperties"
        /\ job.op # "observeproperty" =>
             ParseUrlParameters(RequestSent, ThingAsked.affordances[job.name])
               = (job.variables \intersect job.thing.affordances[job.name].uriVariables) \ Escaped
    BY <1>1, <1>4, TakenForm, NamedUnderstood
  <2>2. QED
    BY <1>2, <2>1
<1>5. QED
  BY <1>3, <1>4

LEMMA RequestingUnderstood == Conveyed /\ Requesting /\ stage = "handled" => RequestsUnderstood
<1> SUFFICES ASSUME Conveyed, Requesting, stage = "handled"
             PROVE  RequestsUnderstood
  OBVIOUS
<1>1. /\ job.kind = "http" /\ job \in HttpJobs /\ ThingServed # Refused /\ ThingConsumed # Refused
      /\ Offering(ThingConsumed) # {} /\ CredentialTaken # <<"refused">>
      /\ data.by = RequestSent.host /\ data.as = Handled(RequestSent, ThingAsked, job.server)
      /\ data.as # "401" /\ job.name # "" =>
           data.variables = ParseUrlParameters(RequestSent, ThingAsked.affordances[job.name])
  BY DEF Conveyed, Requesting
<1> DEFINE own == data.by = job.server.base.second
           named == \/ job.server.scheme = "nosec"
                    \/ /\ job.server.scheme \in {"basic", "bearer"}
                       /\ Named(job.server) /\ job.thing.definitions # NoDefinitions
           secret == job.credentials = job.server.secret
           typed == job.op \in Sends => TemplateMedia(job.thing.affordances[job.name],
                                                         "application/json") \in SupportedMedia
           op == IF job.op = "readmultipleproperties" THEN "readallproperties" ELSE job.op
           routed == {job.name, job.server.base.urlPath} \intersect DOMAIN Undecoded = {}
<1>2. ASSUME own, named, secret, typed, routed, job.op \notin WriteAll
      PROVE  /\ data.as = op
             /\ job.name # "" /\ job.op # "observeproperty" =>
                  data.variables = (job.variables \intersect job.thing.affordances[job.name].uriVariables) \ Escaped
  <2>1. Accepted(RequestSent, job.server)
    BY <1>1, <1>2, AskedAccepted
  <2>2. job.name \notin DOMAIN Undecoded /\ job.server.base.urlPath \notin DOMAIN Undecoded
    BY <1>2
  <2>3. /\ Handled(RequestSent, ThingAsked, job.server) = op /\ op # "401"
        /\ job.name # "" /\ job.op # "observeproperty" =>
             ParseUrlParameters(RequestSent, ThingAsked.affordances[job.name])
               = (job.variables \intersect job.thing.affordances[job.name].uriVariables) \ Escaped
    BY <1>1, <1>2, <2>1, <2>2, AskedUnderstood
  <2>4. QED
    BY <1>1, <2>3
<1>3. QED
  BY <1>2 DEF RequestsUnderstood

\* Every form that a server puts into the description of a thing, for a name that
\* encodeURIComponent() and decodeURI() leave what it is, leads its client to a
\* request that the server handles as the operation of the form, with the
\* credentials the description asks for and every variable whose name is not
\* escaped; what else is left out RequestsUnderstood says. Every form of Modbus,
\* whatever it and its address leave out, is completed to a function of its entity
\* that covers the content exactly, and a reply is cut to the registers of the form.
THEOREM RequestsTheorem == Spec => []RequestsUnderstood
<1>1. Completed /\ Conveyed /\ Requesting => RequestsUnderstood
  BY CompletedUnderstood, RequestingUnderstood
<1>2. QED
  BY <1>1, CompletedInitially, CompletedStep, ConveyedInitially, ConveyedStep,
     RequestingInitially, RequestingStep, PTL DEF Spec
=============================================================================
