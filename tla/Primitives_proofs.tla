-------------------------- MODULE Primitives_proofs --------------------------
(***************************************************************************)
(* Proofs about the arithmetic of small integers in Primitives, for words  *)
(* and tags of any width.                                                  *)
(***************************************************************************)
EXTENDS Primitives, FiniteSetTheorems, TLAPS

-----------------------------------------------------------------------------
(* Powers of two, which the provers know as the number of subsets only.    *)
LEMMA PowerType ==
    ASSUME NEW n \in Nat
    PROVE  2 ^ n \in Nat /\ 2 ^ n >= 1
<1>1. IsFiniteSet(1 .. n) /\ Cardinality(1 .. n) = n
  BY FS_Interval
<1>2. IsFiniteSet(SUBSET (1 .. n)) /\ Cardinality(SUBSET (1 .. n)) = 2 ^ n
  BY <1>1, FS_SUBSET
<1>3. 2 ^ n \in Nat
  BY <1>2, FS_CardinalityType
<1>4. SUBSET (1 .. n) # {}
  OBVIOUS
<1>5. 2 ^ n # 0
  BY <1>2, <1>4, FS_EmptySet
<1> QED BY <1>3, <1>5

LEMMA PowerDoubles ==
    ASSUME NEW n \in Nat
    PROVE  2 ^ (n + 1) = 2 * 2 ^ n
<1> DEFINE S == SUBSET (1 .. n)
           T == {s \cup {n + 1} : s \in S}
<1>1. IsFiniteSet(1 .. n) /\ Cardinality(1 .. n) = n
      /\ IsFiniteSet(1 .. (n + 1)) /\ Cardinality(1 .. (n + 1)) = n + 1
  BY FS_Interval
<1>2. /\ IsFiniteSet(S) /\ Cardinality(S) = 2 ^ n
      /\ Cardinality(SUBSET (1 .. (n + 1))) = 2 ^ (n + 1)
  BY <1>1, FS_SUBSET
<1>3. n + 1 \notin 1 .. n /\ 1 .. (n + 1) = (1 .. n) \cup {n + 1}
  OBVIOUS
<1>4. SUBSET (1 .. (n + 1)) = S \cup T
  <2>1. ASSUME NEW x \in SUBSET (1 .. (n + 1)), n + 1 \in x PROVE x \in T
    <3>1. x \ {n + 1} \in S /\ x = (x \ {n + 1}) \cup {n + 1}
      BY <1>3, <2>1
    <3> QED BY <3>1
  <2>2. ASSUME NEW x \in SUBSET (1 .. (n + 1)), n + 1 \notin x PROVE x \in S
    BY <1>3, <2>2
  <2>3. S \cup T \subseteq SUBSET (1 .. (n + 1))
    BY <1>3
  <2> QED BY <2>1, <2>2, <2>3
<1>5. S \cap T = {}
  BY <1>3
<1>6. IsFiniteSet(T) /\ Cardinality(T) = Cardinality(S)
  <2> DEFINE f == [s \in S |-> s \cup {n + 1}]
  <2>1. f \in Bijection(S, T)
    <3>1. f \in [S -> T]
      OBVIOUS
    <3>2. ASSUME NEW s \in S, NEW t \in S, f[s] = f[t] PROVE s = t
      BY <1>3, <3>2
    <3>3. \A t \in T : \E s \in S : f[s] = t
      OBVIOUS
    <3> QED BY <3>1, <3>2, <3>3 DEF Bijection, Injection, Surjection, IsInjective
  <2>2. ExistsBijection(S, T)
    BY <2>1 DEF ExistsBijection
  <2> HIDE DEF S, T
  <2> QED BY <1>2, <2>2, FS_Bijection
<1>7. Cardinality(S \cup T) = Cardinality(S) + Cardinality(T) - Cardinality(S \cap T)
  BY <1>2, <1>6, FS_Union
<1>8. Cardinality(S \cap T) = 0
  BY <1>5, FS_EmptySet
<1>9. 2 ^ n \in Nat
  BY PowerType
<1>10. Cardinality(S \cup T) = 2 ^ (n + 1)
  BY <1>2, <1>4
<1> HIDE DEF S, T
<1>11. 2 ^ (n + 1) = 2 ^ n + 2 ^ n - 0
  BY <1>2, <1>6, <1>7, <1>8, <1>10
<1> QED BY <1>9, <1>11

LEMMA PowerMonotone ==
    ASSUME NEW m \in Nat, NEW n \in Nat, m <= n
    PROVE  2 ^ m <= 2 ^ n
<1>1. /\ IsFiniteSet(1 .. m) /\ Cardinality(1 .. m) = m
      /\ IsFiniteSet(1 .. n) /\ Cardinality(1 .. n) = n
  BY FS_Interval
<1>2. /\ IsFiniteSet(SUBSET (1 .. n)) /\ Cardinality(SUBSET (1 .. n)) = 2 ^ n
      /\ Cardinality(SUBSET (1 .. m)) = 2 ^ m
  BY <1>1, FS_SUBSET
<1>3. SUBSET (1 .. m) \in SUBSET (SUBSET (1 .. n))
  OBVIOUS
<1> QED BY <1>2, <1>3, FS_Subset

-----------------------------------------------------------------------------
(* Numbers of so many bits.                                                *)
LEMMA TruncateInRange ==
    ASSUME NEW n \in Int, NEW bits \in Nat, bits # 0
    PROVE  /\ Truncate(n, bits) \in Int /\ Fits(Truncate(n, bits), bits)
           /\ Fits(n, bits) => Truncate(n, bits) = n
<1> DEFINE h == 2 ^ (bits - 1)
<1>1. h \in Nat /\ h >= 1
  BY PowerType
<1> HIDE DEF h
<1>2. ((n + h) % (2 * h)) - h \in Int
      /\ -h <= ((n + h) % (2 * h)) - h /\ ((n + h) % (2 * h)) - h < h
  BY <1>1
<1>3. -h <= n /\ n < h => ((n + h) % (2 * h)) - h = n
  BY <1>1
<1> QED BY <1>1, <1>2, <1>3 DEF h, Truncate, Fits

SmallInts == {n \in Int : Fits(n, SmiBits)}
Half == 2 ^ (SmiBits - 1)
WordHalf == 2 ^ (WordBits - 1)

LEMMA Widths ==
    /\ SmiBits \in Nat /\ SmiBits # 0 /\ WordBits \in Nat /\ WordBits # 0
    /\ Half \in Nat /\ Half >= 2 /\ WordHalf \in Nat /\ WordHalf >= Half
    /\ TagBits >= 2 => WordHalf >= 4 * Half
    /\ TagBits >= 3 => WordHalf >= 8 * Half
    /\ \A n : n \in SmallInts <=> n \in Int /\ -Half <= n /\ n < Half
<1>1. /\ SmiBits \in Nat /\ SmiBits >= 2 /\ WordBits \in Nat
      /\ WordBits - 1 \in Nat /\ SmiBits - 1 \in Nat /\ SmiBits - 1 >= 1
      /\ SmiBits - 1 <= WordBits - 1
      /\ TagBits >= 2 => SmiBits + 1 <= WordBits - 1
      /\ TagBits >= 3 => SmiBits + 2 <= WordBits - 1
  BY BitsAssumption DEF SmiBits
<1>2. Half \in Nat /\ WordHalf \in Nat /\ Half <= WordHalf
  BY <1>1, PowerType, PowerMonotone DEF Half, WordHalf
<1>3. Half >= 2
  <2>1. 2 ^ 1 <= 2 ^ (SmiBits - 1)
    BY <1>1, PowerMonotone
  <2> QED BY <2>1 DEF Half
<1>4. 2 ^ (SmiBits + 1) = 4 * Half /\ 2 ^ (SmiBits + 2) = 8 * Half
  <2>1. 2 ^ ((SmiBits - 1) + 1) = 2 * Half
    BY <1>1, PowerDoubles DEF Half
  <2>2. (SmiBits - 1) + 1 = SmiBits /\ (SmiBits + 1) + 1 = SmiBits + 2
    BY <1>1
  <2>3. 2 ^ (SmiBits + 1) = 2 * 2 ^ SmiBits
    BY <1>1, PowerDoubles
  <2>4. 2 ^ ((SmiBits + 1) + 1) = 2 * 2 ^ (SmiBits + 1)
    BY <1>1, PowerDoubles
  <2> QED BY <1>2, <2>1, <2>2, <2>3, <2>4
<1>5. TagBits >= 2 => WordHalf >= 4 * Half
  <2> SUFFICES ASSUME TagBits >= 2 PROVE WordHalf >= 4 * Half
    OBVIOUS
  <2>1. 2 ^ (SmiBits + 1) <= WordHalf
    BY <1>1, PowerMonotone DEF WordHalf
  <2> QED BY <1>2, <1>4, <2>1
<1>6. TagBits >= 3 => WordHalf >= 8 * Half
  <2> SUFFICES ASSUME TagBits >= 3 PROVE WordHalf >= 8 * Half
    OBVIOUS
  <2>1. 2 ^ (SmiBits + 2) <= WordHalf
    BY <1>1, PowerMonotone DEF WordHalf
  <2> QED BY <1>2, <1>4, <2>1
<1> QED BY <1>1, <1>2, <1>3, <1>5, <1>6 DEF SmallInts, Fits, Half

LEMMA SmallArguments ==
    ASSUME NEW a \in SmallInts
    PROVE  Smi(a) = <<"smi", a>> /\ IsSmi(Smi(a)) /\ Smi(a)[2] = a
BY Widths, TruncateInRange DEF SmallInts, Smi, IsSmi

LEMMA SmallValues ==
    /\ \A n \in Int : /\ Smi(n)[1] = "smi" /\ IsSmi(Smi(n)) /\ Smi(n) # Nil
                      /\ Smi(n)[2] \in SmallInts
    /\ Nil # True /\ Nil # False /\ True # False
<1>1. ASSUME NEW n \in Int
      PROVE  /\ Smi(n)[1] = "smi" /\ IsSmi(Smi(n)) /\ Smi(n) # Nil
             /\ Smi(n)[2] \in SmallInts
  <2>1. Truncate(n, SmiBits) \in SmallInts
    BY Widths, TruncateInRange DEF SmallInts
  <2> QED BY <2>1 DEF Smi, IsSmi, Nil
<1>2. Nil # True /\ Nil # False /\ True # False
  BY DEF Nil, True, False, Oop
<1> QED BY <1>1, <1>2

(* The test for overflow passes what fits a small integer, and with three  *)
(* bits of tag whatever is at most twice as large.                         *)
LEMMA BoundedPasses ==
    ASSUME TagBits >= 2, NEW r \in Int, -(2 * Half) <= r,
           r <= Half \/ (TagBits >= 3 /\ r <= 2 * Half)
    PROVE  Bounded(r) = Smi(r)
<1>1. Fits(r, WordBits)
  BY Widths DEF Fits, WordHalf
<1>2. Truncate(r, WordBits) = r
  BY <1>1, Widths, TruncateInRange
<1>3. IntMax = WordHalf - 1
  BY DEF IntMax, WordHalf
<1>4. PICK h \in Int, w \in Int : h = Half /\ w = WordHalf
  BY Widths
<1>5. 4 * h <= w /\ h >= 2 /\ (TagBits >= 3 => 8 * h <= w)
  BY <1>4, Widths
<1>6. r < (w - 1) \div 2
  <2>1. r <= h \/ (8 * h <= w /\ r <= 2 * h)
    BY <1>4, <1>5
  <2>2. 2 * r + 2 <= w - 1
    BY <2>1, <1>5
  <2> QED BY <2>2
<1> QED BY <1>2, <1>3, <1>4, <1>6 DEF Bounded

-----------------------------------------------------------------------------
(* What the primitives compute, of small integers.                         *)
LEMMA Calls ==
    ASSUME NEW a \in SmallInts, NEW b \in SmallInts
    PROVE  /\ SmiPrimitive(1, Smi(a), Smi(b)) = Bounded(a + b)
           /\ SmiPrimitive(2, Smi(a), Smi(b)) = Bounded(a - b)
           /\ SmiPrimitive(3, Smi(a), Smi(b)) = Truth(a < b)
           /\ SmiPrimitive(4, Smi(a), Smi(b)) = Truth(a > b)
           /\ SmiPrimitive(5, Smi(a), Smi(b)) = Truth(a <= b)
           /\ SmiPrimitive(6, Smi(a), Smi(b)) = Truth(a >= b)
           /\ SmiPrimitive(7, Smi(a), Smi(b)) = Truth(a = b)
           /\ SmiPrimitive(8, Smi(a), Smi(b)) = Truth(a # b)
           /\ SmiPrimitive(9, Smi(a), Smi(b)) = Bounded(a * b)
           /\ SmiPrimitive(10, Smi(a), Smi(b)) =
                  IF b = 0 THEN Nil ELSE Smi(Quotient(a, b))
           /\ SmiPrimitive(11, Smi(a), Smi(b)) =
                  IF b = 0 THEN Nil ELSE Smi(Remainder(a, b))
<1>1. IsSmi(Smi(a)) /\ IsSmi(Smi(b)) /\ Smi(a)[2] = a /\ Smi(b)[2] = b
  BY SmallArguments
<1> QED BY <1>1 DEF SmiPrimitive

LEMMA DivisionOfNaturals ==
    ASSUME NEW a \in Nat, NEW b \in Nat, b # 0
    PROVE  \E r \in Nat : /\ a \div b \in Nat /\ a = b * (a \div b) + r /\ r < b
                         /\ a \div b <= a /\ (b >= 2 /\ a # 0 => a \div b < a)
<1>1. a \div b \in Nat /\ a % b \in Nat /\ a % b < b
  OBVIOUS
<1>2. a = b * (a \div b) + (a % b)
  OBVIOUS
<1>3. PICK q \in Nat, r \in Nat : q = a \div b /\ r = a % b /\ a = b * q + r /\ r < b
  BY <1>1, <1>2
<1>4. b * q >= q
  <2>1. (b - 1) * q >= 0
    BY <1>3
  <2>2. (b - 1) * q = b * q - q
    BY <1>3
  <2>3. b * q \in Int
    BY <1>3
  <2> QED BY <1>3, <2>1, <2>2, <2>3
<1>5. ASSUME b >= 2, q # 0 PROVE b * q > q
  <2>1. (b - 2) * q >= 0
    BY <1>3, <1>5
  <2>2. (b - 2) * q = b * q - 2 * q
    BY <1>3
  <2>3. b * q \in Int
    BY <1>3
  <2> QED BY <1>3, <1>5, <2>1, <2>2, <2>3
<1>6. b * q \in Int /\ q <= a
  BY <1>3, <1>4
<1>7. ASSUME b >= 2, a # 0 PROVE q < a
  BY <1>3, <1>5, <1>6, <1>7
<1> QED BY <1>1, <1>3, <1>6, <1>7

LEMMA DivisionOfIntegers ==
    ASSUME NEW a \in Int, NEW b \in Int, b # 0
    PROVE  /\ Quotient(a, b) \in Int /\ Remainder(a, b) \in Int
           /\ a = b * Quotient(a, b) + Remainder(a, b)
           /\ Magnitude(Remainder(a, b)) < Magnitude(b)
           /\ Remainder(a, b) > 0 => a > 0
           /\ Remainder(a, b) < 0 => a < 0
           /\ Magnitude(Quotient(a, b)) <= Magnitude(a)
           /\ Quotient(a, b) = -a /\ a # 0 => b = -1
<1>1. /\ Magnitude(a) \in Nat /\ Magnitude(b) \in Nat /\ Magnitude(b) # 0
      /\ a = IF a < 0 THEN -Magnitude(a) ELSE Magnitude(a)
      /\ b = IF b < 0 THEN -Magnitude(b) ELSE Magnitude(b)
  BY DEF Magnitude
<1>2. PICK A \in Nat, B \in Nat, r \in Nat, q \in Nat :
           /\ A = Magnitude(a) /\ B = Magnitude(b) /\ q = A \div B
           /\ A = B * q + r /\ r < B /\ q <= A /\ (B >= 2 /\ A # 0 => q < A)
  BY <1>1, DivisionOfNaturals
<1>3. Quotient(a, b) = IF (a < 0) = (b < 0) THEN q ELSE -q
  BY <1>2 DEF Quotient
<1>4. B * q \in Int /\ B * (-q) = -(B * q) /\ (-B) * q = -(B * q)
      /\ (-B) * (-q) = B * q
  BY <1>2
<1>5. b * Quotient(a, b) = IF a < 0 THEN -(B * q) ELSE B * q
  <2>1. b = IF b < 0 THEN -B ELSE B
    BY <1>1, <1>2
  <2>2. CASE a < 0 /\ b < 0
    BY <1>3, <1>4, <2>1, <2>2
  <2>3. CASE a < 0 /\ ~(b < 0)
    BY <1>3, <1>4, <2>1, <2>3
  <2>4. CASE ~(a < 0) /\ b < 0
    BY <1>3, <1>4, <2>1, <2>4
  <2>5. CASE ~(a < 0) /\ ~(b < 0)
    BY <1>3, <1>4, <2>1, <2>5
  <2> QED BY <2>2, <2>3, <2>4, <2>5
<1>6. Remainder(a, b) = IF a < 0 THEN -r ELSE r
  BY <1>1, <1>2, <1>4, <1>5 DEF Remainder
<1>7. Quotient(a, b) \in Int /\ Remainder(a, b) \in Int
  <2>1. q \in Int /\ -q \in Int /\ r \in Int /\ -r \in Int
    BY <1>2
  <2> QED BY <1>3, <1>6, <2>1
<1>8. a = b * Quotient(a, b) + Remainder(a, b)
  BY <1>1, <1>2, <1>4, <1>5, <1>6
<1>9. Magnitude(Remainder(a, b)) < Magnitude(b)
  BY <1>2, <1>6 DEF Magnitude
<1>10. /\ Remainder(a, b) > 0 => a > 0
       /\ Remainder(a, b) < 0 => a < 0
  <2>1. B * q >= 0
    BY <1>2
  <2> QED BY <1>1, <1>2, <1>4, <1>6, <2>1
<1>11. Magnitude(Quotient(a, b)) <= Magnitude(a)
  BY <1>2, <1>3 DEF Magnitude
<1>12. ASSUME Quotient(a, b) = -a, a # 0 PROVE b = -1
  <2>1. q = A /\ A # 0
    BY <1>1, <1>2, <1>3, <1>12
  <2>2. B # 0 /\ ~(B >= 2)
    BY <1>1, <1>2, <2>1
  <2> QED BY <1>1, <1>2, <1>3, <1>12, <2>1, <2>2
<1> QED BY <1>7, <1>8, <1>9, <1>10, <1>11, <1>12

-----------------------------------------------------------------------------
(* Sums, differences and products that fit a small integer are what the    *)
(* primitives answer; and whatever they answer that is not nil is the      *)
(* result, truncated.                                                      *)
THEOREM ArithmeticExact ==
    ASSUME TagBits >= 2, NEW a \in SmallInts, NEW b \in SmallInts
    PROVE  /\ a + b \in SmallInts =>
                  SmiPrimitive(1, Smi(a), Smi(b)) = <<"smi", a + b>>
           /\ a - b \in SmallInts =>
                  SmiPrimitive(2, Smi(a), Smi(b)) = <<"smi", a - b>>
           /\ a * b \in SmallInts =>
                  SmiPrimitive(9, Smi(a), Smi(b)) = <<"smi", a * b>>
<1>1. ASSUME NEW r \in SmallInts PROVE Bounded(r) = <<"smi", r>>
  <2>1. r \in Int /\ -(2 * Half) <= r /\ r <= Half
    BY Widths
  <2> QED BY <2>1, BoundedPasses, SmallArguments
<1> QED BY <1>1, Calls

(* With the three bits of tag that the code has, the test for overflow     *)
(* lets every sum and difference of small integers pass: one that does not *)
(* fit is answered all the same, less or more a power of two.              *)
Wrapped(r) ==
    <<"smi", IF r >= Half THEN r - 2 * Half
             ELSE IF r < -Half THEN r + 2 * Half ELSE r>>

THEOREM SumsNeverFail ==
    ASSUME TagBits >= 3, NEW a \in SmallInts, NEW b \in SmallInts
    PROVE  /\ SmiPrimitive(1, Smi(a), Smi(b)) = Wrapped(a + b)
           /\ SmiPrimitive(2, Smi(a), Smi(b)) = Wrapped(a - b)
<1>1. PICK h \in Nat : h = Half /\ h >= 2 /\ -h <= a /\ a < h /\ -h <= b /\ b < h
                     /\ a \in Int /\ b \in Int
  BY Widths
<1>2. ASSUME NEW r \in Int, -(2 * h) <= r, r < 2 * h
      PROVE  Bounded(r) = Wrapped(r)
  <2>1. TagBits >= 2 /\ Bounded(r) = Smi(r)
    BY <1>1, <1>2, BoundedPasses, BitsAssumption
  <2>2. Truncate(r, SmiBits) = ((r + h) % (2 * h)) - h
    BY <1>1 DEF Truncate, Half
  <2>3. CASE r >= h
    <3>1. (r + h) % (2 * h) = r - h
      BY <1>1, <1>2, <2>3
    <3> QED BY <1>1, <2>1, <2>2, <2>3, <3>1 DEF Smi, Wrapped
  <2>4. CASE r < -h
    <3>1. (r + h) % (2 * h) = r + 3 * h
      BY <1>1, <1>2, <2>4
    <3> QED BY <1>1, <2>1, <2>2, <2>4, <3>1 DEF Smi, Wrapped
  <2>5. CASE -h <= r /\ r < h
    <3>1. (r + h) % (2 * h) = r + h
      BY <1>1, <1>2, <2>5
    <3> QED BY <1>1, <2>1, <2>2, <2>5, <3>1 DEF Smi, Wrapped
  <2> QED BY <1>1, <2>3, <2>4, <2>5
<1>3. Bounded(a + b) = Wrapped(a + b) /\ Bounded(a - b) = Wrapped(a - b)
  BY <1>1, <1>2
<1> QED BY <1>3, Calls

(* The comparisons answer true or false as the numbers are, and one of the *)
(* two only.                                                               *)
THEOREM ComparisonsRight ==
    ASSUME NEW a \in SmallInts, NEW b \in SmallInts
    PROVE  /\ SmiPrimitive(3, Smi(a), Smi(b)) = True <=> a < b
           /\ SmiPrimitive(4, Smi(a), Smi(b)) = True <=> b < a
           /\ SmiPrimitive(5, Smi(a), Smi(b)) = True <=> ~(b < a)
           /\ SmiPrimitive(6, Smi(a), Smi(b)) = True <=> ~(a < b)
           /\ SmiPrimitive(7, Smi(a), Smi(b)) = True <=> a = b
           /\ SmiPrimitive(8, Smi(a), Smi(b)) = True <=> a # b
           /\ \A op \in 3 .. 8 :
                  SmiPrimitive(op, Smi(a), Smi(b)) \in {True, False}
<1>1. a \in Int /\ b \in Int
  BY Widths
<1>2. /\ SmiPrimitive(3, Smi(a), Smi(b)) = IF a < b THEN True ELSE False
      /\ SmiPrimitive(4, Smi(a), Smi(b)) = IF a > b THEN True ELSE False
      /\ SmiPrimitive(5, Smi(a), Smi(b)) = IF a <= b THEN True ELSE False
      /\ SmiPrimitive(6, Smi(a), Smi(b)) = IF a >= b THEN True ELSE False
      /\ SmiPrimitive(7, Smi(a), Smi(b)) = IF a = b THEN True ELSE False
      /\ SmiPrimitive(8, Smi(a), Smi(b)) = IF a # b THEN True ELSE False
  BY Calls DEF Truth
<1>3. ASSUME NEW op \in 3 .. 8
      PROVE  SmiPrimitive(op, Smi(a), Smi(b)) \in {True, False}
  <2>1. op \in {3, 4, 5, 6, 7, 8}
    OBVIOUS
  <2> QED BY <1>2, <2>1
<1> QED BY <1>1, <1>2, <1>3, SmallValues

(* quo: and rem: are division: the dividend is the divisor times the one   *)
(* and the other, which is less than the divisor and has the sign of the   *)
(* dividend.  Division by zero answers nil, and only the smallest number   *)
(* divided by -1 is answered wrong, as itself.                             *)
THEOREM DivisionRight ==
    ASSUME NEW a \in SmallInts, NEW b \in SmallInts
    PROVE  /\ b = 0 => /\ SmiPrimitive(10, Smi(a), Smi(b)) = Nil
                       /\ SmiPrimitive(11, Smi(a), Smi(b)) = Nil
           /\ b # 0 =>
                \E q \in SmallInts, r \in SmallInts :
                    /\ SmiPrimitive(10, Smi(a), Smi(b)) = <<"smi", q>>
                    /\ SmiPrimitive(11, Smi(a), Smi(b)) = <<"smi", r>>
                    /\ Magnitude(r) < Magnitude(b)
                    /\ (r > 0 => a > 0) /\ (r < 0 => a < 0)
                    /\ IF a = -Half /\ b = -1 THEN q = a /\ r = 0
                       ELSE a = b * q + r
<1>1. CASE b = 0
  BY <1>1, Calls
<1>2. CASE b # 0
  <2> DEFINE Q == Quotient(a, b)
             R == Remainder(a, b)
  <2>1. a \in Int /\ b \in Int
    BY Widths
  <2>2. /\ Q \in Int /\ R \in Int /\ a = b * Q + R
        /\ Magnitude(R) < Magnitude(b) /\ (R > 0 => a > 0) /\ (R < 0 => a < 0)
        /\ Magnitude(Q) <= Magnitude(a) /\ (Q = -a /\ a # 0 => b = -1)
    BY <1>2, <2>1, DivisionOfIntegers
  <2>3. /\ SmiPrimitive(10, Smi(a), Smi(b)) = Smi(Q)
        /\ SmiPrimitive(11, Smi(a), Smi(b)) = Smi(R)
    BY <1>2, Calls
  <2> HIDE DEF Q, R
  <2>4. PICK h \in Nat : h = Half /\ h >= 2 /\ -h <= a /\ a < h /\ -h <= b /\ b < h
    BY Widths
  <2>5. R \in SmallInts
    <3>1. -h <= R /\ R < h
      BY <2>1, <2>2, <2>4 DEF Magnitude
    <3> QED BY <2>2, <2>4, <3>1, Widths
  <2>6. CASE Q # h
    <3>1. -h <= Q /\ Q < h
      BY <2>1, <2>2, <2>4, <2>6 DEF Magnitude
    <3>2. Q \in SmallInts
      BY <2>2, <2>4, <3>1, Widths
    <3>3. ~(a = -h /\ b = -1)
      <4> SUFFICES ASSUME a = -h, b = -1 PROVE FALSE
        OBVIOUS
      <4>1. R = 0
        BY <2>1, <2>2, <2>4 DEF Magnitude
      <4>2. b * Q = -Q
        BY <2>2
      <4> QED BY <2>1, <2>2, <2>4, <2>6, <4>1, <4>2
    <3>4. /\ SmiPrimitive(10, Smi(a), Smi(b)) = <<"smi", Q>>
          /\ SmiPrimitive(11, Smi(a), Smi(b)) = <<"smi", R>>
      BY <2>3, <2>5, <3>2, SmallArguments
    <3> QED BY <1>2, <2>2, <2>4, <2>5, <3>2, <3>3, <3>4
  <2>7. CASE Q = h
    <3>1. a = -h /\ b = -1
      BY <2>1, <2>2, <2>4, <2>7 DEF Magnitude
    <3>2. R = 0
      BY <2>1, <2>2, <2>4, <3>1 DEF Magnitude
    <3>3. Truncate(Q, SmiBits) = ((h + h) % (2 * h)) - h
      BY <2>4, <2>7 DEF Truncate, Half
    <3>4. (h + h) % (2 * h) = 0
      BY <2>4
    <3>5. Smi(Q) = <<"smi", a>>
      BY <2>4, <3>1, <3>3, <3>4 DEF Smi
    <3>6. /\ SmiPrimitive(10, Smi(a), Smi(b)) = <<"smi", a>>
          /\ SmiPrimitive(11, Smi(a), Smi(b)) = <<"smi", R>>
      BY <2>3, <2>5, <3>5, SmallArguments
    <3> QED BY <1>2, <2>2, <2>4, <2>5, <3>1, <3>2, <3>6
  <2> QED BY <2>6, <2>7
<1> QED BY <1>1, <1>2
=============================================================================
