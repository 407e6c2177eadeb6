------------------------ MODULE WireDeliveryProofs ------------------------
(***************************************************************************)
(* The bytes of a transaction on their way, for every radix above three,   *)
(* every transaction that can be sent and every change.                    *)
(***************************************************************************)
EXTENDS WireDelivery, SequenceInduction

-----------------------------------------------------------------------------
(* Powers of the radix.                                                    *)

\* The recursion has the function that it describes.
LEMMA PowerSteps ==
  Powers = [n \in 0 .. 8 |-> IF n = 0 THEN 1 ELSE Radix * Powers[n - 1]]
<1> DEFINE h == [x \in (1 .. 8) \X Nat |-> Radix * x[2]]
<1>1. h \in [(1 .. 8) \X Nat -> Nat]
  BY RadixAssumption
<1>2. \A k \in 1 .. 8, m \in Nat : h[<<k, m>>] = Radix * m
  OBVIOUS
<1> HIDE DEF h
<1>3. PICK f \in [0 .. 8 -> Nat] : Iterated(f, 1, 8, h)
  <2>1. 1 \in Nat /\ 8 \in Nat
    OBVIOUS
  <2> QED  BY <1>1, <2>1, IterationExists
<1>4. \A k \in 0 .. 8 : (IF k = 0 THEN 1 ELSE h[<<k, f[k - 1]>>])
                          = (IF k = 0 THEN 1 ELSE Radix * f[k - 1])
  <2> TAKE k \in 0 .. 8
  <2>1. CASE k = 0
    BY <2>1
  <2>2. CASE k # 0
    <3>1. k \in 1 .. 8 /\ k - 1 \in 0 .. 8
      BY <2>2
    <3>2. f[k - 1] \in Nat
      BY <3>1
    <3> QED  BY <1>2, <2>2, <3>1, <3>2
  <2> QED  BY <2>1, <2>2
<1>5. f = [k \in 0 .. 8 |-> IF k = 0 THEN 1 ELSE Radix * f[k - 1]]
  BY <1>3, <1>4, Zenon DEF Iterated
<1>6. \E g : g = [k \in 0 .. 8 |-> IF k = 0 THEN 1 ELSE Radix * g[k - 1]]
  BY <1>5
<1> QED  BY <1>6, Zenon DEF Powers

\* Each power is Radix times the one before.
LEMMA PowerFacts ==
  /\ Power(0) = 1
  /\ \A n \in 0 .. 7 : Power(n + 1) = Radix * Power(n)
  /\ \A n \in 0 .. 8 : Power(n) \in Nat \ {0}
<1>1. Power(0) = 1
  BY PowerSteps DEF Power
<1>2. ASSUME NEW n \in 0 .. 7
      PROVE  Power(n + 1) = Radix * Power(n)
  <2>1. n + 1 \in 0 .. 8 /\ n + 1 # 0 /\ (n + 1) - 1 = n
    OBVIOUS
  <2> QED  BY <2>1, PowerSteps DEF Power
<1> DEFINE Positive == {n \in Nat : n <= 8 => Power(n) \in Nat \ {0}}
<1>3. 0 \in Positive
  BY <1>1
<1>4. ASSUME NEW n \in Positive
      PROVE  n + 1 \in Positive
  <2> SUFFICES ASSUME n + 1 <= 8
               PROVE  Power(n + 1) \in Nat \ {0}
    OBVIOUS
  <2>1. n \in 0 .. 7 /\ Power(n) \in Nat \ {0}
    OBVIOUS
  <2>2. \A p \in Nat \ {0} : Radix * p \in Nat \ {0}
    BY RadixAssumption
  <2> HIDE DEF Positive
  <2> QED  BY <1>2, <2>1, <2>2
<1>5. Positive = Nat
  <2> HIDE DEF Positive
  <2>1. Positive \in SUBSET Nat
    BY DEF Positive
  <2> QED  BY <1>3, <1>4, <2>1, SetInduction
<1>6. ASSUME NEW n \in 0 .. 8
      PROVE  Power(n) \in Nat \ {0}
  BY <1>5
<1> QED  BY <1>1, <1>2, <1>6

\* The same of one power and the next.
LEMMA PowerStep ==
  ASSUME NEW k \in 0 .. 7
  PROVE  /\ Power(k) \in Nat \ {0} /\ Power(k + 1) \in Nat \ {0}
         /\ Power(k + 1) = Radix * Power(k)
<1>1. k \in 0 .. 8 /\ k + 1 \in 0 .. 8
  OBVIOUS
<1> QED  BY <1>1, PowerFacts

\* The tags, and the values from which on each is needed, in order.
LEMMA PowersAscend ==
  /\ Least(2) = Radix - 3 /\ Least(4) = Power(2) /\ Least(8) = Power(4)
  /\ Power(2) \in Nat /\ Power(4) \in Nat /\ Power(8) \in Nat
  /\ Radix <= Power(2) /\ Power(2) <= Power(4) /\ Power(4) <= Power(8)
  /\ Power(UsizeWidth) \in Nat \ {0} /\ Power(UsizeWidth) <= Power(8)
<1>1. \A n \in 0 .. 7 : Power(n) <= Power(n + 1) /\ (n > 0 => Radix <= Power(n + 1))
  <2> TAKE n \in 0 .. 7
  <2>1. \A r \in Nat, p \in Nat \ {0} : r > 3 => p <= r * p /\ r <= r * p
    OBVIOUS
  <2>2. Power(n) \in Nat \ {0} /\ Power(n + 1) = Radix * Power(n)
    BY PowerFacts
  <2> QED  BY <2>1, <2>2, RadixAssumption
<1>2. \A n \in 0 .. 8 : Power(n) \in Nat \ {0}
  BY PowerFacts
<1>3. /\ Power(1) <= Power(2) /\ Power(2) <= Power(3) /\ Power(3) <= Power(4)
      /\ Power(4) <= Power(5) /\ Power(5) <= Power(6) /\ Power(6) <= Power(7)
      /\ Power(7) <= Power(8)
  BY <1>1
<1>4. Radix <= Power(2)
  BY <1>1
<1>5. Least(2) = Radix - 3 /\ Least(4) = Power(2) /\ Least(8) = Power(4)
  BY DEF Least
<1>6. UsizeWidth = 4 \/ UsizeWidth = 8
  BY RadixAssumption
<1> QED  BY <1>2, <1>3, <1>4, <1>5, <1>6, RadixAssumption

-----------------------------------------------------------------------------
(* Numbers and their digits.                                               *)

\* A product of naturals grows with its factors.
LEMMA ProductGrows ==
  ASSUME NEW p \in Nat, NEW a \in Nat, NEW b \in Nat, a < b
  PROVE  p * a + p <= p * b /\ p * a \in Nat /\ p * b \in Nat
<1> DEFINE d == b - a - 1
<1>1. d \in Nat /\ b = a + 1 + d
  OBVIOUS
<1> HIDE DEF d
<1>2. p * (a + 1 + d) = p * a + p + p * d
  BY <1>1
<1>3. p * d \in Nat /\ p * a \in Nat /\ p * b \in Nat
  BY <1>1
<1> QED  BY <1>1, <1>2, <1>3

\* There is one quotient and one rest.
LEMMA OneQuotient ==
  ASSUME NEW p \in Nat \ {0}, NEW a \in 0 .. p - 1, NEW b \in 0 .. p - 1,
         NEW q \in Nat, NEW r \in Nat, a + p * q = b + p * r
  PROVE  a = b /\ q = r
<1>1. ~ (q < r)
  <2> SUFFICES ASSUME q < r PROVE FALSE
    OBVIOUS
  <2>1. p * q + p <= p * r /\ p * q \in Nat /\ p * r \in Nat
    BY ProductGrows
  <2> DEFINE x == p * q
             y == p * r
  <2>2. x + p <= y /\ x \in Nat /\ y \in Nat /\ a + x = b + y
    BY <2>1
  <2> HIDE DEF x, y
  <2> QED  BY <2>2
<1>2. ~ (r < q)
  <2> SUFFICES ASSUME r < q PROVE FALSE
    OBVIOUS
  <2>1. p * r + p <= p * q /\ p * q \in Nat /\ p * r \in Nat
    BY ProductGrows
  <2> DEFINE x == p * q
             y == p * r
  <2>2. y + p <= x /\ x \in Nat /\ y \in Nat /\ a + x = b + y
    BY <2>1
  <2> HIDE DEF x, y
  <2> QED  BY <2>2
<1>3. q = r
  BY <1>1, <1>2
<1> QED  BY <1>3

\* A number is made of its quotient and its rest.
LEMMA Division ==
  ASSUME NEW n \in Nat, NEW p \in Nat \ {0}
  PROVE  /\ n \div p \in Nat /\ n % p \in 0 .. p - 1
         /\ n = (n % p) + p * (n \div p)
  OBVIOUS

\* A quotient and a rest that make a number are those of the division.
LEMMA Divided ==
  ASSUME NEW p \in Nat \ {0}, NEW a \in 0 .. p - 1, NEW q \in Nat,
         NEW n, n = a + p * q
  PROVE  n \div p = q /\ n % p = a
<1>1. n \in Nat
  OBVIOUS
<1>2. /\ n \div p \in Nat /\ n % p \in 0 .. p - 1
      /\ n = (n % p) + p * (n \div p)
  BY <1>1, Division
<1>3. a + p * q = (n % p) + p * (n \div p)
  BY <1>2
<1> QED  BY <1>2, <1>3, OneQuotient


\* The sums of which a number is the last.
Summed(ds, sum) ==
  /\ sum \in [0 .. Len(ds) -> Nat]
  /\ sum[0] = 0
  /\ \A k \in 1 .. Len(ds) : sum[k] = sum[k - 1] + ds[k] * Power(k - 1)

\* A number is the last of its sums.
LEMMA NumberSum ==
  ASSUME NEW ds \in Bytes, Len(ds) <= 8
  PROVE  \E sum : Summed(ds, sum) /\ Number(ds) = sum[Len(ds)]
<1> DEFINE n == Len(ds)
           h == [x \in (1 .. n) \X Nat |-> x[2] + ds[x[1]] * Power(x[1] - 1)]
           F(f) == [k \in 0 .. n |-> IF k = 0 THEN 0 ELSE f[k - 1] + ds[k] * Power(k - 1)]
<1>0. n \in Nat /\ n <= 8
  BY DEF Bytes
<1>1. \A k \in 1 .. n : ds[k] \in Nat /\ Power(k - 1) \in Nat /\ ds[k] * Power(k - 1) \in Nat
  <2> TAKE k \in 1 .. n
  <2>1. ds[k] \in Nat
    BY RadixAssumption DEF Bytes, Byte
  <2>2. k - 1 \in 0 .. 8
    BY <1>0
  <2>3. Power(k - 1) \in Nat
    BY <2>2, PowerFacts
  <2> QED  BY <2>1, <2>3
<1>2. \A k \in 1 .. n, m \in Nat : h[<<k, m>>] = m + ds[k] * Power(k - 1)
  OBVIOUS
<1>3. h \in [(1 .. n) \X Nat -> Nat]
  <2> SUFFICES ASSUME NEW k \in 1 .. n, NEW m \in Nat
               PROVE  m + ds[k] * Power(k - 1) \in Nat
    OBVIOUS
  <2> QED  BY <1>1
<1> HIDE DEF h
<1>4. PICK f \in [0 .. n -> Nat] : Iterated(f, 0, n, h)
  <2> HIDE DEF n
  <2> QED  BY <1>0, <1>3, IterationExists
<1>5. /\ f[0] = 0
      /\ \A k \in 1 .. n : f[k] = f[k - 1] + ds[k] * Power(k - 1)
  <2> HIDE DEF n
  <2>1. f[0] = 0
    BY <1>0, <1>4 DEF Iterated
  <2>2. ASSUME NEW k \in 1 .. n
        PROVE  f[k] = f[k - 1] + ds[k] * Power(k - 1)
    <3>1. k \in 0 .. n /\ k # 0 /\ k - 1 \in 0 .. n
      BY <1>0
    <3>2. f[k] = h[<<k, f[k - 1]>>]
      BY <1>4, <3>1 DEF Iterated
    <3>3. f[k - 1] \in Nat
      BY <1>4, <3>1
    <3> QED  BY <1>2, <3>2, <3>3
  <2> QED  BY <2>1, <2>2
<1>6. f = F(f)
  <2>1. f = [k \in 0 .. n |-> f[k]]
    BY <1>4
  <2>2. \A k \in 0 .. n : f[k] = IF k = 0 THEN 0 ELSE f[k - 1] + ds[k] * Power(k - 1)
    <3> TAKE k \in 0 .. n
    <3>1. CASE k = 0
      BY <1>5, <3>1
    <3>2. CASE k # 0
      <4>1. k \in 1 .. n
        BY <1>0, <3>2
      <4> QED  BY <1>5, <3>2, <4>1
    <3> QED  BY <3>1, <3>2
  <2> QED  BY <2>1, <2>2, Zenon
<1> DEFINE g == CHOOSE x : x = F(x)
<1>7. g = F(g)
  BY <1>6, Zenon
<1>8. Number(ds) = g[n]
  BY Zenon DEF Number
<1> HIDE DEF g
<1>9. g = f
  <2> DEFINE Same == {k \in Nat : k <= n => g[k] = f[k]}
  <2>0. \A k \in 0 .. n : g[k] = IF k = 0 THEN 0 ELSE g[k - 1] + ds[k] * Power(k - 1)
    BY <1>7
  <2>1. 0 \in Same
    BY <1>0, <1>5, <2>0
  <2>2. ASSUME NEW k \in Same
        PROVE  k + 1 \in Same
    <3> SUFFICES ASSUME k + 1 <= n
                 PROVE  g[k + 1] = f[k + 1]
      OBVIOUS
    <3>1. k \in Nat /\ g[k] = f[k] /\ k + 1 \in 1 .. n /\ k + 1 \in 0 .. n
          /\ (k + 1) - 1 = k /\ k + 1 # 0
      BY <1>0
    <3>2. f[k + 1] = f[k] + ds[k + 1] * Power(k)
      BY <1>5, <3>1
    <3>3. g[k + 1] = g[k] + ds[k + 1] * Power(k)
      BY <2>0, <3>1
    <3> QED  BY <3>1, <3>2, <3>3
  <2>3. Same = Nat
    <3> HIDE DEF Same
    <3>1. Same \in SUBSET Nat
      BY DEF Same
    <3> QED  BY <2>1, <2>2, <3>1, SetInduction
  <2>4. \A k \in 0 .. n : g[k] = f[k]
    BY <2>3
  <2>5. g = [k \in 0 .. n |-> g[k]]
    BY <1>7
  <2> QED  BY <1>4, <2>4, <2>5
<1> QED  BY <1>4, <1>5, <1>8, <1>9 DEF Summed

\* A sum is below the next power.
LEMMA SumBelow ==
  ASSUME NEW ds \in Bytes, Len(ds) <= 8, NEW sum, Summed(ds, sum), NEW k \in 0 .. Len(ds)
  PROVE  sum[k] \in 0 .. Power(k) - 1
<1> DEFINE n == Len(ds)
           Below == {j \in Nat : j <= n => sum[j] \in 0 .. Power(j) - 1}
<1>0. n \in Nat /\ n <= 8
  BY DEF Bytes
<1>1. 0 \in Below
  BY PowerFacts DEF Summed
<1>2. ASSUME NEW j \in Below
      PROVE  j + 1 \in Below
  <2> SUFFICES ASSUME j + 1 <= n
               PROVE  sum[j + 1] \in 0 .. Power(j + 1) - 1
    OBVIOUS
  <2>1. j \in Nat /\ sum[j] \in 0 .. Power(j) - 1 /\ j + 1 \in 1 .. n /\ (j + 1) - 1 = j
        /\ j \in 0 .. 7
    BY <1>0
  <2>2. sum[j + 1] = sum[j] + ds[j + 1] * Power(j)
    BY <2>1 DEF Summed
  <2> HIDE DEF Below
  <2>3. Power(j) \in Nat /\ Power(j + 1) = Radix * Power(j)
    BY <2>1, PowerStep
  <2>4. ds[j + 1] \in Nat /\ ds[j + 1] < Radix /\ Radix \in Nat
    BY <2>1, RadixAssumption DEF Bytes, Byte
  <2>5. \A p, d, r \in Nat : d < r => d * p + p <= r * p /\ d * p \in Nat /\ r * p \in Nat
    <3> TAKE p, d, r \in Nat
    <3> HAVE d < r
    <3>1. p * d + p <= p * r /\ p * d \in Nat /\ p * r \in Nat
      BY ProductGrows
    <3>2. p * d = d * p /\ p * r = r * p
      OBVIOUS
    <3> QED  BY <3>1, <3>2
  <2>6. ds[j + 1] * Power(j) + Power(j) <= Radix * Power(j)
        /\ ds[j + 1] * Power(j) \in Nat /\ Radix * Power(j) \in Nat
    BY <2>3, <2>4, <2>5
  <2> DEFINE x == ds[j + 1] * Power(j)
             y == Radix * Power(j)
  <2>7. x + Power(j) <= y /\ x \in Nat /\ y \in Nat /\ sum[j + 1] = sum[j] + x /\ Power(j + 1) = y
    BY <2>2, <2>3, <2>6
  <2>8. Power(j) \in Nat /\ sum[j] \in 0 .. Power(j) - 1
    BY <2>1, <2>3
  <2> HIDE DEF x, y
  <2> QED  BY <2>7, <2>8
<1>3. Below = Nat
  <2> HIDE DEF Below
  <2>1. Below \in SUBSET Nat
    BY DEF Below
  <2> QED  BY <1>1, <1>2, <2>1, SetInduction
<1>4. k \in Below /\ k <= n
  BY <1>0, <1>3
<1> QED  BY <1>4

\* The digits beyond a sum are a multiple of the next power.
LEMMA SumSplits ==
  ASSUME NEW ds \in Bytes, Len(ds) <= 8, NEW sum, Summed(ds, sum), NEW k \in 0 .. Len(ds)
  PROVE  \E q \in Nat : sum[Len(ds)] = sum[k] + Power(k) * q
<1> DEFINE n == Len(ds)
           Split(j) == \E q \in Nat : sum[n] = sum[n - j] + Power(n - j) * q
           Splits == {j \in Nat : j <= n => Split(j)}
<1>0. n \in Nat /\ n <= 8 /\ sum[n] \in Nat
  BY DEF Bytes, Summed
<1>1. 0 \in Splits
  <2>1. n - 0 = n /\ n \in 0 .. 8
    <3> HIDE DEF n, Splits
    <3> QED  BY <1>0
  <2>2. Power(n) \in Nat
    <3> HIDE DEF n
    <3> QED  BY <2>1, PowerFacts
  <2>3. sum[n] = sum[n] + Power(n) * 0
    BY <1>0, <2>2
  <2>4. sum[n] = sum[n - 0] + Power(n - 0) * 0
    BY <2>1, <2>3
  <2> QED  BY <2>4
<1>2. ASSUME NEW j \in Splits
      PROVE  j + 1 \in Splits
  <2> SUFFICES ASSUME j + 1 <= n
               PROVE  Split(j + 1)
    OBVIOUS
  <2>1. j \in Nat /\ j <= n
    BY <1>0
  <2>2. PICK q \in Nat : sum[n] = sum[n - j] + Power(n - j) * q
    BY <2>1
  <2> DEFINE m == n - (j + 1)
  <2>3. n - j = m + 1 /\ m \in 0 .. 7 /\ m + 1 \in 1 .. n /\ (m + 1) - 1 = m
    BY <1>0, <2>1
  <2> HIDE DEF m
  <2> DEFINE d == ds[m + 1]
             p == Power(m)
  <2>4. d \in Nat /\ p \in Nat /\ Radix \in Nat /\ sum[m] \in Nat
    <3>1. d \in Nat
      BY <2>3, RadixAssumption DEF Bytes, Byte
    <3>2. m \in 0 .. n
      BY <2>3
    <3>3. p \in Nat
      BY <2>3, PowerStep
    <3>4. sum[m] \in Nat
      BY <3>2 DEF Summed
    <3> QED  BY <3>1, <3>3, <3>4, RadixAssumption
  <2>5. sum[m + 1] = sum[m] + d * p /\ Power(m + 1) = Radix * p
    BY <2>3, PowerFacts DEF Summed
  <2>6. sum[n] = (sum[m] + d * p) + (Radix * p) * q
    BY <2>2, <2>3, <2>5
  <2> HIDE DEF d, p
  <2>7. d + Radix * q \in Nat
    BY <2>4
  <2>8. (sum[m] + d * p) + (Radix * p) * q = sum[m] + p * (d + Radix * q)
    BY <2>4
  <2>9. sum[n] = sum[m] + p * (d + Radix * q)
    BY <2>6, <2>8
  <2> QED  BY <2>7, <2>9 DEF m, p
<1>3. Splits = Nat
  <2> HIDE DEF Splits
  <2>1. Splits \in SUBSET Nat
    BY DEF Splits
  <2> QED  BY <1>1, <1>2, <2>1, SetInduction
<1>4. n - k \in Nat /\ n - k <= n /\ n - (n - k) = k
  BY <1>0
<1>5. Split(n - k)
  <2> HIDE DEF Split, n
  <2> QED  BY <1>3, <1>4
<1> QED  BY <1>4, <1>5

\* The digits of a number are the ones it was made of.
LEMMA DigitsOfNumber ==
  ASSUME NEW ds \in Bytes, Len(ds) <= 8
  PROVE  /\ Number(ds) \in 0 .. Power(Len(ds)) - 1
         /\ Digits(Number(ds), Len(ds)) = ds
<1> DEFINE n == Len(ds)
           N == Number(ds)
<1>0. n \in Nat /\ n <= 8 /\ n \in 0 .. Len(ds)
  BY DEF Bytes
<1>1. PICK sum : Summed(ds, sum) /\ N = sum[n]
  BY NumberSum
<1>2. N \in 0 .. Power(n) - 1
  BY <1>0, <1>1, SumBelow
<1>3. ASSUME NEW k \in 1 .. n
      PROVE  (N \div Power(k - 1)) % Radix = ds[k]
  <2> DEFINE m == k - 1
             p == Power(m)
             d == ds[k]
  <2>1. m \in 0 .. 7 /\ k = m + 1 /\ m \in 0 .. Len(ds) /\ k \in 0 .. Len(ds)
    BY <1>0
  <2>2. PICK q \in Nat : N = sum[k] + Power(k) * q
    BY <1>1, <2>1, SumSplits
  <2>3. sum[m] \in 0 .. p - 1
    BY <1>1, <2>1, SumBelow
  <2>4. p \in Nat \ {0} /\ Power(k) = Radix * p
    <3> HIDE DEF m
    <3> QED  BY <2>1, PowerStep
  <2>5. sum[k] = sum[m] + d * p
    BY <1>1 DEF Summed
  <2>6. d \in 0 .. Radix - 1 /\ Radix \in Nat \ {0} /\ d \in Nat
    BY RadixAssumption DEF Bytes, Byte
  <2>7. N = (sum[m] + d * p) + (Radix * p) * q
    BY <2>2, <2>4, <2>5
  <2> HIDE DEF d, p, m, N, n
  <2>8. (sum[m] + d * p) + (Radix * p) * q = sum[m] + p * (d + Radix * q)
    BY <2>3, <2>4, <2>6
  <2>9. d + Radix * q \in Nat
    BY <2>6
  <2> DEFINE e == d + Radix * q
             a == sum[m]
  <2>10. N \div p = d + Radix * q
    <3>1. N = a + p * e /\ e \in Nat /\ a \in 0 .. p - 1 /\ p \in Nat \ {0}
      BY <2>3, <2>4, <2>7, <2>8, <2>9
    <3> HIDE DEF e, a
    <3>2. N \div p = e
      BY <3>1, Divided
    <3> QED  BY <3>2 DEF e
  <2>11. (N \div p) % Radix = d
    BY <2>6, <2>9, <2>10, Divided
  <2> QED  BY <2>11 DEF d, p, m
<1>4. Digits(N, n) = ds
  <2>1. ds = [k \in 1 .. n |-> ds[k]]
    BY DEF Bytes
  <2> QED  BY <1>3, <2>1 DEF Digits
<1> QED  BY <1>2, <1>4

\* A number that fits is made of its digits.
LEMMA NumberOfDigits ==
  ASSUME NEW w \in 0 .. 8, NEW x \in 0 .. Power(w) - 1
  PROVE  Digits(x, w) \in Bytes /\ Len(Digits(x, w)) = w /\ Number(Digits(x, w)) = x
<1> DEFINE ds == Digits(x, w)
<1>0. w \in Nat /\ w <= 8 /\ x \in Nat /\ Radix \in Nat \ {0}
      /\ \A k \in 0 .. 8 : Power(k) \in Nat \ {0}
  BY PowerFacts, RadixAssumption
<1>1. \A k \in 1 .. w : ds[k] = (x \div Power(k - 1)) % Radix /\ ds[k] \in Byte
  <2> TAKE k \in 1 .. w
  <2>1. Power(k - 1) \in Nat \ {0}
    BY <1>0
  <2>2. x \div Power(k - 1) \in Nat
    BY <1>0, <2>1, Division
  <2>3. (x \div Power(k - 1)) % Radix \in Byte
    BY <1>0, <2>2, Division DEF Byte
  <2> QED  BY <2>3 DEF Digits
<1>2. ds \in Bytes /\ Len(ds) = w
  BY <1>0, <1>1 DEF Digits, Bytes
<1> HIDE DEF ds
<1>3. PICK sum : Summed(ds, sum) /\ Number(ds) = sum[w]
  BY <1>0, <1>2, NumberSum
<1> DEFINE Left == {k \in Nat : k <= w => x = sum[k] + Power(k) * (x \div Power(k))}
<1>4. 0 \in Left
  BY <1>0, <1>2, <1>3, PowerFacts DEF Summed
<1>5. ASSUME NEW k \in Left
      PROVE  k + 1 \in Left
  <2> SUFFICES ASSUME k + 1 <= w
               PROVE  x = sum[k + 1] + Power(k + 1) * (x \div Power(k + 1))
    OBVIOUS
  <2> DEFINE p == Power(k)
             q == x \div p
             d == ds[k + 1]
             r == q \div Radix
  <2>1. k \in Nat /\ k \in 0 .. 7 /\ k + 1 \in 1 .. w /\ (k + 1) - 1 = k
    BY <1>0
  <2>2. x = sum[k] + p * q
    BY <2>1
  <2>3. p \in Nat \ {0} /\ Power(k + 1) = Radix * p
    BY <2>1, PowerFacts
  <2>4. q \in Nat
    BY <1>0, <2>3, Division
  <2>5. d = q % Radix
    BY <1>1, <2>1
  <2>6. r \in Nat /\ d \in Nat /\ q = d + Radix * r
    <3> HIDE DEF p, q, d, Left
    <3>1. Radix \in Nat \ {0}
      BY <1>0
    <3>2. /\ q \div Radix \in Nat /\ q % Radix \in 0 .. Radix - 1
          /\ q = (q % Radix) + Radix * (q \div Radix)
      BY <2>4, <3>1, Division
    <3>3. q % Radix \in Nat
      BY <3>1, <3>2
    <3> QED  BY <2>5, <3>2, <3>3
  <2>7. sum[k + 1] = sum[k] + d * p
    BY <1>2, <1>3, <2>1 DEF Summed
  <2>8. sum[k] \in Nat
    <3>1. k \in 0 .. w
      BY <2>1
    <3> QED  BY <1>2, <1>3, <3>1 DEF Summed
  <2>9. sum[k + 1] \in 0 .. Power(k + 1) - 1
    <3> HIDE DEF Left
    <3>1. k + 1 \in 0 .. Len(ds) /\ Len(ds) <= 8
      BY <1>0, <1>2, <2>1
    <3> QED  BY <1>2, <1>3, <3>1, SumBelow
  <2> HIDE DEF p, q, d, r, Left
  <2>10. sum[k] + p * (d + Radix * r) = (sum[k] + d * p) + (Radix * p) * r
    BY <1>0, <2>3, <2>6, <2>8
  <2>11. x = sum[k + 1] + Power(k + 1) * r
    BY <2>2, <2>3, <2>6, <2>7, <2>10
  <2>12. Power(k + 1) \in Nat \ {0}
    BY <2>1, PowerStep
  <2>13. x \div Power(k + 1) = r
    <3> DEFINE pp == Power(k + 1)
               a == sum[k + 1]
    <3>1. x = a + pp * r /\ r \in Nat /\ a \in 0 .. pp - 1 /\ pp \in Nat \ {0}
      BY <2>6, <2>9, <2>11, <2>12
    <3> HIDE DEF pp, a
    <3>2. x \div pp = r
      BY <3>1, Divided
    <3> QED  BY <3>2 DEF pp
  <2> QED  BY <2>11, <2>13
<1>6. Left = Nat
  <2> HIDE DEF Left
  <2>1. Left \in SUBSET Nat
    BY DEF Left
  <2> QED  BY <1>4, <1>5, <2>1, SetInduction
<1>7. x = sum[w] + Power(w) * (x \div Power(w))
  BY <1>0, <1>6
<1>8. x \div Power(w) = 0
  <2>1. Power(w) \in Nat \ {0} /\ x = x + Power(w) * 0
    BY <1>0
  <2> QED  BY <2>1, Divided
<1>9. sum[w] \in Nat
  BY <1>0, <1>2, <1>3 DEF Summed
<1>10. sum[w] = x
  <2>1. Power(w) * (x \div Power(w)) = 0
    BY <1>0, <1>8
  <2> QED  BY <1>0, <1>7, <1>9, <2>1
<1> QED  BY <1>2, <1>3, <1>10 DEF ds

-----------------------------------------------------------------------------
(* Readers of a few bytes.                                                 *)

\* What was read is no error.
LEMMA Results ==
  /\ \A v, t : Ok(v, t).ok /\ Ok(v, t).value = v /\ Ok(v, t).rest = t /\ Ok(v, t) # Err
  /\ ~Err.ok
  BY DEF Ok, Err

\* The provers know too much about \o.
a ++ b == a \o b

\* Three strings after each other.
LEMMA Grouped == \A a, b, c \in Bytes : (a ++ b) ++ c = a ++ (b ++ c)
  BY DEF Bytes, ++

\* Two strings make a string.
LEMMA Closed == \A a, b \in Bytes : a ++ b \in Bytes
  BY DEF Bytes, ++

\* It is as long as both.
LEMMA Lengths ==
  \A a, b \in Bytes : Len(a ++ b) = Len(a) + Len(b) /\ Len(a) \in Nat /\ Len(b) \in Nat
  BY DEF Bytes, ++

\* A string before another can be cut off again.
LEMMA Joined ==
  ASSUME NEW a \in Bytes, NEW t \in Bytes
  PROVE  /\ SubSeq(a ++ t, 1, Len(a)) = a
         /\ SubSeq(a ++ t, Len(a) + 1, Len(a ++ t)) = t
<1>1. /\ a \o t \in Bytes /\ Len(a \o t) = Len(a) + Len(t)
      /\ Len(a) \in Nat /\ Len(t) \in Nat
      /\ \A i \in 1 .. Len(a) : (a \o t)[i] = a[i]
      /\ \A i \in 1 .. Len(t) : (a \o t)[Len(a) + i] = t[i]
  BY DEF Bytes
<1> DEFINE b == a \o t
           p == SubSeq(b, 1, Len(a))
           q == SubSeq(b, Len(a) + 1, Len(b))
<1> HIDE DEF b
<1>2. b \in Bytes /\ Len(b) = Len(a) + Len(t)
  BY <1>1 DEF b
<1>3. p \in Bytes /\ Len(p) = Len(a) /\ \A i \in 1 .. Len(a) : p[i] = b[i]
  BY <1>1, <1>2 DEF Bytes
<1>4. q \in Bytes /\ Len(q) = Len(t) /\ \A i \in 1 .. Len(t) : q[i] = b[Len(a) + i]
  BY <1>1, <1>2 DEF Bytes
<1>5. p = a
  <2> HIDE DEF p
  <2>1. \A i \in 1 .. Len(p) : p[i] = a[i]
    BY <1>1, <1>3 DEF b
  <2> QED  BY <1>3, <2>1, SeqEqual DEF Bytes
<1>6. q = t
  <2> HIDE DEF q
  <2>1. \A i \in 1 .. Len(q) : q[i] = t[i]
    BY <1>1, <1>4 DEF b
  <2> QED  BY <1>4, <2>1, SeqEqual DEF Bytes
<1> QED  BY <1>2, <1>5, <1>6 DEF b, ++

\* A string is what is before a place and what is behind it.
LEMMA Cuts ==
  ASSUME NEW r \in Bytes, NEW n \in 0 .. Len(r)
  PROVE  \E a, t \in Bytes : /\ r = a ++ t /\ Len(a) = n
                             /\ a = SubSeq(r, 1, n) /\ t = SubSeq(r, n + 1, Len(r))
<1> DEFINE p == SubSeq(r, 1, n)
           q == SubSeq(r, n + 1, Len(r))
<1>0. Len(r) \in Nat /\ n \in Nat /\ n <= Len(r)
  BY DEF Bytes
<1>1. p \in Bytes /\ Len(p) = n /\ \A i \in 1 .. n : p[i] = r[i]
  BY <1>0 DEF Bytes
<1>2. q \in Bytes /\ Len(q) = Len(r) - n /\ \A i \in 1 .. Len(r) - n : q[i] = r[n + i]
  BY <1>0 DEF Bytes
<1> HIDE DEF p, q
<1>3. /\ p \o q \in Bytes /\ Len(p \o q) = Len(r)
      /\ \A i \in 1 .. Len(r) : (p \o q)[i] = IF i <= n THEN p[i] ELSE q[i - n]
  BY <1>0, <1>1, <1>2 DEF Bytes
<1>4. \A i \in 1 .. Len(r) : (p \o q)[i] = r[i]
  <2> TAKE i \in 1 .. Len(r)
  <2>1. CASE i <= n
    BY <1>0, <1>1, <1>3, <2>1
  <2>2. CASE ~ (i <= n)
    <3>1. i - n \in 1 .. Len(r) - n /\ n + (i - n) = i
      BY <1>0, <2>2
    <3> QED  BY <1>2, <1>3, <2>2, <3>1
  <2> QED  BY <2>1, <2>2
<1>5. r = p \o q
  BY <1>0, <1>3, <1>4, SeqEqual DEF Bytes
<1> QED  BY <1>1, <1>2, <1>5 DEF p, q, ++

\* One byte is a string.
LEMMA OneByte ==
  ASSUME NEW b \in Byte
  PROVE  <<b>> \in Bytes /\ Len(<<b>>) = 1 /\ <<b>>[1] = b
  BY DEF Bytes

\* So are no bytes, which add nothing to another.
LEMMA NoBytes == << >> \in Bytes /\ Len(<< >>) = 0 /\ \A t \in Bytes : << >> ++ t = t /\ t ++ << >> = t
  BY EmptySeq, ConcatEmptySeq DEF Bytes, ++

\* ReadExact reads what stands before the tail.
LEMMA ReadExactReads ==
  ASSUME NEW a \in Bytes, NEW t \in Bytes
  PROVE  ReadExact(a ++ t, Len(a)) = Ok(a, t)
<1>1. Len(a ++ t) = Len(a) + Len(t) /\ Len(a) \in Nat /\ Len(t) \in Nat
  BY Lengths
<1>2. ~ (Len(a ++ t) < Len(a))
  BY <1>1
<1> QED  BY <1>2, Joined DEF ReadExact

\* What it reads is the beginning of the string.
LEMMA ReadExactTook ==
  ASSUME NEW r \in Bytes, NEW n \in Nat, ReadExact(r, n).ok
  PROVE  \E a, t \in Bytes : Len(a) = n /\ r = a ++ t /\ ReadExact(r, n) = Ok(a, t)
<1>1. ~ (Len(r) < n)
  BY Results DEF ReadExact
<1>2. n \in 0 .. Len(r)
  BY <1>1 DEF Bytes
<1>3. ReadExact(r, n) = Ok(SubSeq(r, 1, n), SubSeq(r, n + 1, Len(r)))
  BY <1>1 DEF ReadExact
<1>4. PICK a \in Bytes, t \in Bytes :
        r = a ++ t /\ Len(a) = n /\ a = SubSeq(r, 1, n) /\ t = SubSeq(r, n + 1, Len(r))
  BY <1>2, Cuts
<1> QED  BY <1>3, <1>4

\* ReadByte reads the byte before the tail.
LEMMA ReadByteReads ==
  ASSUME NEW b \in Byte, NEW t \in Bytes
  PROVE  ReadByte(<<b>> ++ t) = Ok(b, t)
<1>1. ReadExact(<<b>> ++ t, 1) = Ok(<<b>>, t)
  BY OneByte, ReadExactReads
<1>2. /\ ReadExact(<<b>> ++ t, 1).ok /\ ReadExact(<<b>> ++ t, 1).value = <<b>>
      /\ ReadExact(<<b>> ++ t, 1).rest = t
  BY <1>1, Results
<1> QED  BY <1>2, OneByte DEF ReadByte, Then

\* What it reads is the first byte.
LEMMA ReadByteTook ==
  ASSUME NEW r \in Bytes, ReadByte(r).ok
  PROVE  \E b \in Byte, t \in Bytes : r = <<b>> ++ t /\ ReadByte(r) = Ok(b, t)
<1>1. ReadExact(r, 1).ok
  BY Results DEF ReadByte, Then
<1>2. PICK a \in Bytes, t \in Bytes : Len(a) = 1 /\ r = a ++ t /\ ReadExact(r, 1) = Ok(a, t)
  BY <1>1, ReadExactTook
<1>3. a = <<a[1]>> /\ a[1] \in Byte
  <2>1. a[1] \in Byte
    <3>1. 1 \in 1 .. Len(a)
      BY <1>2
    <3> QED  BY <1>2, <3>1, ElementOfSeq DEF Bytes
  <2>2. <<a[1]>> \in Bytes /\ Len(<<a[1]>>) = 1 /\ <<a[1]>>[1] = a[1]
    BY <2>1, OneByte
  <2>3. \A i \in 1 .. Len(a) : a[i] = <<a[1]>>[i]
    BY <1>2, <2>2
  <2> QED  BY <1>2, <2>1, <2>2, <2>3, SeqEqual DEF Bytes
<1> QED  BY <1>2, <1>3, ReadByteReads

-----------------------------------------------------------------------------
(* VarInts.                                                                *)

\* Tags are bytes, each of one width, and every other byte is a value itself.
LEMMA TagFacts ==
  /\ \A w \in Widths : /\ Tag(w) \in Byte /\ ~ (Tag(w) < Least(2))
                       /\ \A c : c = Tag(w) => (CHOOSE v \in Widths : Tag(v) = c) = w
  /\ \A b \in Byte : ~ (b < Least(2)) => \E w \in Widths : b = Tag(w)
  /\ \A b \in Byte : b < Least(2) => b \in VarInts
  /\ Least(2) \in Nat /\ Least(2) > 0
<1>1. Tag(2) = Radix - 3 /\ Tag(4) = Radix - 2 /\ Tag(8) = Radix - 1
  BY DEF Tag
<1>2. Least(2) = Radix - 3 /\ Radix \in Nat /\ Radix > 3
  BY PowersAscend, RadixAssumption
<1>3. ASSUME NEW w \in Widths
      PROVE  /\ Tag(w) \in Byte /\ ~ (Tag(w) < Least(2))
             /\ \A c : c = Tag(w) => (CHOOSE v \in Widths : Tag(v) = c) = w
  <2>1. w = 2 \/ w = 4 \/ w = 8
    BY DEF Widths
  <2>2. Tag(w) \in Byte /\ ~ (Tag(w) < Least(2))
    BY <1>1, <1>2, <2>1 DEF Byte
  <2>3. \A v \in Widths : Tag(v) = Tag(w) => v = w
    BY <1>1, <1>2, <2>1 DEF Widths
  <2>4. \A c : c = Tag(w) => (CHOOSE v \in Widths : Tag(v) = c) = w
    BY <2>3
  <2> QED  BY <2>2, <2>4
<1>4. ASSUME NEW b \in Byte, ~ (b < Least(2))
      PROVE  \E w \in Widths : b = Tag(w)
  <2>1. b = Radix - 3 \/ b = Radix - 2 \/ b = Radix - 1
    BY <1>2, <1>4 DEF Byte
  <2> QED  BY <1>1, <2>1 DEF Widths
<1>5. ASSUME NEW b \in Byte, b < Least(2)
      PROVE  b \in VarInts
  <2>1. b \in Nat /\ b < Radix /\ Radix \in Nat /\ Radix <= Power(8) /\ Power(8) \in Nat
    BY <1>2, PowersAscend DEF Byte
  <2> QED  BY <2>1 DEF VarInts
<1> QED  BY <1>2, <1>3, <1>4, <1>5

\* How many digits a value takes.
LEMMA WidthFacts ==
  ASSUME NEW x \in VarInts
  PROVE  /\ WidthOf(x) = 0 => x < Least(2)
         /\ WidthOf(x) # 0 => /\ WidthOf(x) \in Widths
                              /\ ~ (x < Least(WidthOf(x))) /\ x < Power(WidthOf(x))
         /\ x < Least(2) => WidthOf(x) = 0
         /\ \A w \in Widths : ~ (x < Least(w)) /\ x < Power(w) => WidthOf(x) = w
<1>1. /\ x \in Nat /\ x < Power(8) /\ Power(8) \in Nat /\ Power(4) \in Nat
      /\ Power(2) \in Nat /\ Least(2) \in Nat
      /\ Least(4) = Power(2) /\ Least(8) = Power(4)
      /\ Least(2) <= Least(4) /\ Least(4) <= Least(8)
  BY PowersAscend, RadixAssumption DEF VarInts
<1>2. CASE x < Least(2)
  <2>1. WidthOf(x) = 0
    BY <1>1, <1>2 DEF WidthOf
  <2>2. \A w \in Widths : x < Least(w)
    BY <1>1, <1>2 DEF Widths
  <2> QED  BY <1>2, <2>1, <2>2
<1>3. CASE ~ (x < Least(2)) /\ x < Least(4)
  <2>1. WidthOf(x) = 2
    BY <1>1, <1>3 DEF WidthOf
  <2>2. \A w \in Widths : w # 2 => x < Least(w)
    BY <1>1, <1>3 DEF Widths
  <2>3. 2 \in Widths
    BY DEF Widths
  <2> QED  BY <1>1, <1>3, <2>1, <2>2, <2>3
<1>4. CASE ~ (x < Least(4)) /\ x < Least(8)
  <2>1. WidthOf(x) = 4
    BY <1>1, <1>4 DEF WidthOf
  <2>2. \A w \in Widths : w # 4 => x < Least(w) \/ ~ (x < Power(w))
    BY <1>1, <1>4 DEF Widths
  <2>3. 4 \in Widths /\ ~ (x < Least(2))
    BY <1>1, <1>4 DEF Widths
  <2> QED  BY <1>1, <1>4, <2>1, <2>2, <2>3
<1>5. CASE ~ (x < Least(8))
  <2>1. WidthOf(x) = 8
    BY <1>1, <1>5 DEF WidthOf
  <2>2. \A w \in Widths : w # 8 => ~ (x < Power(w))
    BY <1>1, <1>5 DEF Widths
  <2>3. 8 \in Widths /\ ~ (x < Least(2))
    BY <1>1, <1>5 DEF Widths
  <2> QED  BY <1>1, <1>5, <2>1, <2>2, <2>3
<1> QED  BY <1>2, <1>3, <1>4, <1>5

\* What is read behind a first byte.
LEMMA VarIntAt ==
  ASSUME NEW b \in Byte, NEW t \in Bytes
  PROVE  /\ b < Least(2) => DecodeVarInt(<<b>> ++ t) = Ok(b, t)
         /\ \A w \in Widths :
              b = Tag(w) =>
                DecodeVarInt(<<b>> ++ t) =
                  Then(ReadExact(t, w), LAMBDA digits, left :
                    IF Number(digits) < Least(w) THEN Err ELSE Ok(Number(digits), left))
<1> DEFINE r == <<b>> ++ t
<1>1. ReadByte(r) = Ok(b, t)
  BY ReadByteReads
<1>2. ReadByte(r).ok /\ ReadByte(r).value = b /\ ReadByte(r).rest = t
  BY <1>1, Results
<1> HIDE DEF r
<1>3. ASSUME b < Least(2)
      PROVE  DecodeVarInt(r) = Ok(b, t)
  BY <1>2, <1>3, Zenon DEF DecodeVarInt, Then
<1>4. ASSUME NEW w \in Widths, b = Tag(w)
      PROVE  DecodeVarInt(r) =
                  Then(ReadExact(t, w), LAMBDA digits, left :
                    IF Number(digits) < Least(w) THEN Err ELSE Ok(Number(digits), left))
  <2> DEFINE u == CHOOSE v \in Widths : Tag(v) = ReadByte(r).value
  <2>1. u = w /\ ~ (b < Least(2))
    BY <1>2, <1>4, TagFacts
  <2>2. DecodeVarInt(r) =
          Then(ReadExact(t, u), LAMBDA digits, left :
            IF Number(digits) < Least(u) THEN Err ELSE Ok(Number(digits), left))
    <3>1. DecodeVarInt(r) =
            Then(ReadExact(ReadByte(r).rest, u), LAMBDA digits, left :
              IF Number(digits) < Least(u) THEN Err ELSE Ok(Number(digits), left))
      BY <1>2, <2>1, Zenon DEF DecodeVarInt, Then
    <3> HIDE DEF u
    <3> QED  BY <1>2, <3>1, Zenon
  <2> HIDE DEF u
  <2> QED  BY <2>1, <2>2 DEF Then
<1> QED  BY <1>3, <1>4 DEF r

\* A VarInt reads back and leaves the tail (var_int.rs).
LEMMA VarIntReads ==
  ASSUME NEW x \in VarInts, NEW t \in Bytes
  PROVE  /\ EncodeVarInt(x) \in Bytes /\ Len(EncodeVarInt(x)) >= 1
         /\ DecodeVarInt(EncodeVarInt(x) ++ t) = Ok(x, t)
<1>1. CASE WidthOf(x) = 0
  <2>1. x < Least(2) /\ x \in Byte
    <3>1. x < Least(2) /\ Least(2) = Radix - 3 /\ x \in Nat
      BY <1>1, WidthFacts, PowersAscend DEF VarInts
    <3> QED  BY <3>1, RadixAssumption DEF Byte
  <2>2. EncodeVarInt(x) = <<x>>
    BY <1>1 DEF EncodeVarInt
  <2>3. <<x>> \in Bytes /\ Len(<<x>>) = 1
    BY <2>1, OneByte
  <2>4. DecodeVarInt(<<x>> ++ t) = Ok(x, t)
    BY <2>1, VarIntAt
  <2>5. 1 >= 1
    OBVIOUS
  <2> QED  BY <2>2, <2>3, <2>4, <2>5
<1>2. CASE WidthOf(x) # 0
  <2> DEFINE w == WidthOf(x)
             ds == Digits(x, w)
  <2>1. w \in Widths /\ ~ (x < Least(w)) /\ x < Power(w) /\ x \in Nat
    BY <1>2, WidthFacts DEF VarInts
  <2>2. w \in 0 .. 8 /\ Power(w) \in Nat
    BY <2>1, PowerFacts DEF Widths
  <2> HIDE DEF w
  <2>3. ds \in Bytes /\ Len(ds) = w /\ Number(ds) = x
    <3>1. x \in 0 .. Power(w) - 1
      BY <2>1, <2>2
    <3> QED  BY <2>2, <3>1, NumberOfDigits
  <2>4. EncodeVarInt(x) = <<Tag(w)>> ++ ds
    BY <1>2 DEF EncodeVarInt, w, ++
  <2> HIDE DEF ds
  <2>5. Tag(w) \in Byte
    BY <2>1, TagFacts
  <2>6. <<Tag(w)>> ++ ds \in Bytes /\ Len(<<Tag(w)>> ++ ds) = 1 + w
        /\ (<<Tag(w)>> ++ ds) ++ t = <<Tag(w)>> ++ (ds ++ t) /\ ds ++ t \in Bytes
    <3>1. <<Tag(w)>> \in Bytes /\ Len(<<Tag(w)>>) = 1
      BY <2>5, OneByte
    <3> DEFINE a == <<Tag(w)>>
    <3> HIDE DEF a
    <3>2. a \in Bytes /\ Len(a) = 1
      BY <3>1 DEF a
    <3>3. a ++ ds \in Bytes /\ ds ++ t \in Bytes
      BY <2>3, <3>2, Closed
    <3>5. Len(a ++ ds) = 1 + w
      BY <2>3, <3>2, Lengths
    <3>4. (a ++ ds) ++ t = a ++ (ds ++ t)
      BY <2>3, <3>2, Grouped
    <3> QED  BY <3>3, <3>4, <3>5 DEF a
  <2>7. ReadExact(ds ++ t, w) = Ok(ds, t)
    BY <2>3, ReadExactReads
  <2>8. ReadExact(ds ++ t, w).ok /\ ReadExact(ds ++ t, w).value = ds
        /\ ReadExact(ds ++ t, w).rest = t
    BY <2>7, Results
  <2>9. Then(ReadExact(ds ++ t, w), LAMBDA digits, left :
           IF Number(digits) < Least(w) THEN Err ELSE Ok(Number(digits), left)) = Ok(x, t)
    BY <2>1, <2>3, <2>8, Zenon DEF Then
  <2>10. DecodeVarInt(<<Tag(w)>> ++ (ds ++ t)) = Ok(x, t)
    BY <2>1, <2>5, <2>6, <2>9, VarIntAt
  <2>11. 1 + w >= 1
    BY <2>2
  <2> QED  BY <2>4, <2>6, <2>10, <2>11
<1> QED  BY <1>1, <1>2

\* What reads as a VarInt is the one encoding of its value.
LEMMA VarIntTook ==
  ASSUME NEW r \in Bytes, DecodeVarInt(r).ok
  PROVE  \E x \in VarInts, t \in Bytes : r = EncodeVarInt(x) ++ t /\ DecodeVarInt(r) = Ok(x, t)
<1>1. ReadByte(r).ok
  BY Results DEF DecodeVarInt, Then
<1>2. PICK b \in Byte, t \in Bytes : r = <<b>> ++ t
  BY <1>1, ReadByteTook
<1>3. CASE b < Least(2)
  <2>1. b \in VarInts
    BY <1>3, TagFacts
  <2>2. EncodeVarInt(b) = <<b>>
    BY <1>3, <2>1, WidthFacts DEF EncodeVarInt
  <2> QED  BY <1>2, <1>3, <2>1, <2>2, VarIntAt
<1>4. CASE ~ (b < Least(2))
  <2>1. PICK w \in Widths : b = Tag(w)
    BY <1>4, TagFacts
  <2>2. DecodeVarInt(r) =
          Then(ReadExact(t, w), LAMBDA digits, left :
            IF Number(digits) < Least(w) THEN Err ELSE Ok(Number(digits), left))
    BY <1>2, <2>1, VarIntAt
  <2>3. ReadExact(t, w).ok
    <3> SUFFICES ASSUME ~ReadExact(t, w).ok PROVE FALSE
      OBVIOUS
    <3>1. DecodeVarInt(r) = Err
      BY <2>2, Zenon DEF Then
    <3> QED  BY <3>1, Results
  <2>4. w \in Nat /\ w <= 8 /\ w # 0
    BY DEF Widths
  <2>5. PICK ds \in Bytes, left \in Bytes :
          Len(ds) = w /\ t = ds ++ left /\ ReadExact(t, w) = Ok(ds, left)
    BY <2>3, <2>4, ReadExactTook
  <2>6. ReadExact(t, w).value = ds /\ ReadExact(t, w).rest = left
    BY <2>5, Results
  <2>7. DecodeVarInt(r) = IF Number(ds) < Least(w) THEN Err ELSE Ok(Number(ds), left)
    BY <2>2, <2>3, <2>6, Zenon DEF Then
  <2>8. ~ (Number(ds) < Least(w)) /\ DecodeVarInt(r) = Ok(Number(ds), left)
    BY <2>7, Results
  <2>9. Number(ds) \in 0 .. Power(w) - 1 /\ Digits(Number(ds), w) = ds
    BY <2>4, <2>5, DigitsOfNumber
  <2> DEFINE x == Number(ds)
  <2>10. x \in VarInts /\ x < Power(w)
    <3>1. Power(w) \in Nat /\ Power(8) \in Nat /\ Power(w) <= Power(8)
      BY PowersAscend DEF Widths
    <3> HIDE DEF x
    <3> QED  BY <2>9, <3>1 DEF VarInts, x
  <2>11. WidthOf(x) = w
    BY <2>8, <2>10, WidthFacts
  <2>12. EncodeVarInt(x) = <<b>> ++ ds
    BY <2>1, <2>4, <2>9, <2>11 DEF EncodeVarInt, ++
  <2>13. r = EncodeVarInt(x) ++ left
    <3> DEFINE a == <<b>>
    <3>1. a \in Bytes
      BY OneByte
    <3> HIDE DEF a
    <3>2. (a ++ ds) ++ left = a ++ (ds ++ left)
      BY <2>5, <3>1, Grouped
    <3>3. r = a ++ (ds ++ left)
      BY <1>2, <2>5 DEF a
    <3>4. EncodeVarInt(x) = a ++ ds
      BY <2>12 DEF a
    <3> QED  BY <3>2, <3>3, <3>4
  <2> QED  BY <2>8, <2>10, <2>13
<1> QED  BY <1>3, <1>4

-----------------------------------------------------------------------------
(* Byte strings.                                                           *)

\* A reader took x from r and left t.
Took(r, x, t) == x \in Bytes /\ t \in Bytes /\ r = x ++ t /\ Len(x) >= 1

\* A usize holds the length of a byte string.
LEMMA SizeFits ==
  ASSUME NEW d \in Data
  PROVE  Len(d) \in VarInts /\ Len(d) % Power(UsizeWidth) = Len(d)
<1> DEFINE n == Len(d)
           p == Power(UsizeWidth)
<1>1. n \in Nat /\ p \in Nat \ {0} /\ n < p /\ Power(8) \in Nat /\ p <= Power(8)
  BY PowersAscend DEF Data, Bytes
<1> HIDE DEF n, p
<1>2. n = n + p * 0 /\ n \in 0 .. p - 1
  BY <1>1
<1>3. n % p = n
  BY <1>1, <1>2, Divided
<1>4. n \in VarInts
  BY <1>1 DEF VarInts
<1> QED  BY <1>3, <1>4 DEF n, p

\* A length and its bytes read back and leave the tail.
LEMMA BytesRead ==
  ASSUME NEW d \in Data, NEW t \in Bytes
  PROVE  /\ EncodeBytes(d) \in Bytes /\ Len(EncodeBytes(d)) >= 1
         /\ DecodeBytes(EncodeBytes(d) ++ t) = Ok(d, t)
<1> DEFINE e == EncodeVarInt(Len(d))
           r == (e ++ d) ++ t
<1>1. Len(d) \in VarInts /\ Len(d) % Power(UsizeWidth) = Len(d) /\ d \in Bytes
  BY SizeFits DEF Data
<1>2. e \in Bytes /\ Len(e) >= 1 /\ Len(e) \in Nat /\ Len(d) \in Nat
  BY <1>1, VarIntReads DEF Bytes
<1>3. d ++ t \in Bytes
  BY <1>1, Closed
<1>4. DecodeVarInt(e ++ (d ++ t)) = Ok(Len(d), d ++ t)
  BY <1>1, <1>3, VarIntReads
<1> HIDE DEF e
<1>5. r = e ++ (d ++ t) /\ e ++ d \in Bytes /\ Len(e ++ d) = Len(e) + Len(d)
  BY <1>1, <1>2, Grouped, Closed, Lengths
<1> HIDE DEF r
<1> DEFINE s == d ++ t
<1>7. ReadExact(s, Len(d)) = Ok(d, t)
  BY <1>1, ReadExactReads
<1>10. DecodeVarInt(r) = Ok(Len(d), s)
  BY <1>4, <1>5
<1> HIDE DEF s
<1>6. DecodeVarInt(r).ok /\ DecodeVarInt(r).value = Len(d) /\ DecodeVarInt(r).rest = s
  BY <1>10, Results
<1>8. DecodeBytes(r) = Ok(d, t)
  BY <1>1, <1>6, <1>7 DEF DecodeBytes, Then
<1>9. Len(e ++ d) >= 1
  BY <1>2, <1>5
<1> QED  BY <1>5, <1>8, <1>9 DEF EncodeBytes, e, r, ++

\* What reads as a byte string is a count and as many bytes; where a usize is
\* as wide as a count, it is the encoding of the bytes.
LEMMA BytesTook ==
  ASSUME NEW r \in Bytes, DecodeBytes(r).ok
  PROVE  \E d \in Data, x, t \in Bytes :
           /\ Took(r, x, t)
           /\ DecodeBytes(r) = Ok(d, t)
           /\ \A u \in Bytes : DecodeBytes(x ++ u) = Ok(d, u)
           /\ UsizeWidth = 8 => x = EncodeBytes(d)
<1>1. DecodeVarInt(r).ok
  BY Results DEF DecodeBytes, Then
<1>2. PICK n \in VarInts, s \in Bytes : r = EncodeVarInt(n) ++ s /\ DecodeVarInt(r) = Ok(n, s)
  BY <1>1, VarIntTook
<1> DEFINE m == n % Power(UsizeWidth)
<1>3. m \in Nat /\ m < Power(UsizeWidth) /\ (UsizeWidth = 8 => m = n)
  <2>1. n \in Nat /\ Power(UsizeWidth) \in Nat \ {0} /\ Power(8) \in Nat /\ n < Power(8)
    BY PowersAscend DEF VarInts
  <2>2. m \in Nat /\ m < Power(UsizeWidth)
    <3> DEFINE p == Power(UsizeWidth)
    <3>1. p \in Nat \ {0} /\ n \in Nat
      BY <2>1
    <3> HIDE DEF p
    <3>2. n % p \in 0 .. p - 1
      BY <3>1, Division
    <3>3. n % p \in Nat /\ n % p < p
      BY <3>1, <3>2
    <3> QED  BY <3>3 DEF p
  <2>3. ASSUME UsizeWidth = 8 PROVE m = n
    <3> DEFINE p == Power(UsizeWidth)
    <3>1. p \in Nat \ {0} /\ n \in Nat /\ n < p
      BY <2>1, <2>3
    <3> HIDE DEF p
    <3>2. n = n + p * 0 /\ n \in 0 .. p - 1
      BY <3>1
    <3>3. n % p = n
      BY <3>1, <3>2, Divided
    <3> QED  BY <3>3 DEF p
  <2> QED  BY <2>2, <2>3
<1> HIDE DEF m
<1>4. DecodeVarInt(r).value = n /\ DecodeVarInt(r).rest = s
  BY <1>2, Results
<1>5. DecodeBytes(r) = ReadExact(s, m)
  BY <1>1, <1>4 DEF DecodeBytes, Then, m
<1>6. PICK d \in Bytes, t \in Bytes : Len(d) = m /\ s = d ++ t /\ ReadExact(s, m) = Ok(d, t)
  BY <1>3, <1>5, ReadExactTook
<1>7. PICK e \in Bytes : /\ e = EncodeVarInt(n) /\ Len(e) >= 1
                        /\ \A u \in Bytes : DecodeVarInt(e ++ u) = Ok(n, u)
  <2>1. EncodeVarInt(n) \in Bytes
    BY NoBytes, VarIntReads
  <2> QED  BY <2>1, VarIntReads
<1> DEFINE x == e ++ d
<1>8. x \in Bytes /\ Len(x) >= 1 /\ \A u \in Bytes : x ++ u = e ++ (d ++ u) /\ d ++ u \in Bytes
  <2>1. Len(x) = Len(e) + Len(d) /\ x \in Bytes /\ Len(e) \in Nat /\ Len(d) \in Nat
    BY <1>7, Closed, Lengths
  <2>2. Len(x) >= 1
    BY <1>7, <2>1
  <2>3. \A u \in Bytes : x ++ u = e ++ (d ++ u) /\ d ++ u \in Bytes
    BY Grouped, Closed
  <2> QED  BY <2>1, <2>2, <2>3
<1>9. ASSUME NEW u \in Bytes
      PROVE  DecodeBytes(x ++ u) = Ok(d, u)
  <2>1. DecodeVarInt(x ++ u) = Ok(n, d ++ u)
    BY <1>7, <1>8
  <2> DEFINE y == x ++ u
             v == d ++ u
  <2>3. ReadExact(v, m) = Ok(d, u)
    BY <1>6, ReadExactReads
  <2>4. DecodeVarInt(y) = Ok(n, v)
    BY <2>1
  <2> HIDE DEF x, y, v
  <2>2. DecodeVarInt(y).ok /\ DecodeVarInt(y).value = n /\ DecodeVarInt(y).rest = v
    BY <2>4, Results
  <2>5. DecodeBytes(y) = Ok(d, u)
    BY <2>2, <2>3 DEF DecodeBytes, Then, m
  <2> QED  BY <2>5 DEF y
<1>10. r = x ++ t
  BY <1>2, <1>6, <1>7, <1>8
<1>11. UsizeWidth = 8 => x = EncodeBytes(d)
  BY <1>3, <1>6, <1>7 DEF EncodeBytes, ++
<1> HIDE DEF x
<1>12. Took(r, x, t)
  BY <1>8, <1>10 DEF Took
<1>13. d \in Data
  BY <1>3, <1>6 DEF Data
<1> QED  BY <1>5, <1>6, <1>8, <1>9, <1>11, <1>12, <1>13

\* Of two ways to divide a string, one goes further.
LEMMA DividedTwice ==
  ASSUME NEW a \in Bytes, NEW b \in Bytes, NEW c \in Bytes, NEW d \in Bytes,
         a ++ b = c ++ d, Len(a) <= Len(c)
  PROVE  \E e \in Bytes : c = a ++ e /\ b = e ++ d
<1>1. Len(a) \in 0 .. Len(c)
  BY Lengths
<1>2. PICK f \in Bytes, e \in Bytes : c = f ++ e /\ Len(f) = Len(a)
  BY <1>1, Cuts
<1>3. (f ++ e) ++ d = f ++ (e ++ d)
  BY Grouped
<1>4. SubSeq(a ++ b, 1, Len(a)) = a /\ SubSeq(a ++ b, Len(a) + 1, Len(a ++ b)) = b
  BY Joined
<1>5. PICK g \in Bytes : g = e ++ d
  BY Closed
<1>6. SubSeq(f ++ g, 1, Len(f)) = f /\ SubSeq(f ++ g, Len(f) + 1, Len(f ++ g)) = g
  BY Joined
<1>7. a ++ b = f ++ g
  BY <1>2, <1>3, <1>5
<1>8. f = a /\ g = b
  BY <1>2, <1>4, <1>6, <1>7
<1> QED  BY <1>2, <1>5, <1>8

\* The limit divides the bytes in those that it lets through and the others.
LEMMA Limited ==
  ASSUME NEW r \in Bytes
  PROVE  \E p, q \in Bytes :
           /\ r = p ++ q
           /\ Len(p) = IF Len(r) < MaxVecSize THEN Len(r) ELSE MaxVecSize
           /\ TakeBytes(r) = IF DecodeBytes(p).ok
                             THEN Ok(DecodeBytes(p).value, DecodeBytes(p).rest ++ q) ELSE Err
<1> DEFINE n == IF Len(r) < MaxVecSize THEN Len(r) ELSE MaxVecSize
           P == SubSeq(r, 1, n)
           Q == SubSeq(r, n + 1, Len(r))
<1>1. n \in 0 .. Len(r)
  BY RadixAssumption DEF Bytes
<1>2. PICK p \in Bytes, q \in Bytes : r = p ++ q /\ Len(p) = n /\ p = P /\ q = Q
  <2> HIDE DEF n
  <2> QED  BY <1>1, Cuts
<1>3. TakeBytes(r) = Then(DecodeBytes(P), LAMBDA value, rest : Ok(value, rest ++ Q))
  BY Zenon DEF TakeBytes, ++
<1> HIDE DEF P, Q
<1>4. TakeBytes(r) = IF DecodeBytes(P).ok
                     THEN Ok(DecodeBytes(P).value, DecodeBytes(P).rest ++ Q) ELSE Err
  BY <1>3, Zenon DEF Then
<1> QED  BY <1>2, <1>4

\* What is read from the bytes that the limit lets through is read from all.
LEMMA TakenReads ==
  ASSUME NEW x \in Bytes, Len(x) <= MaxVecSize, NEW d,
         \A u \in Bytes : DecodeBytes(x ++ u) = Ok(d, u),
         NEW t \in Bytes
  PROVE  TakeBytes(x ++ t) = Ok(d, t)
<1>1. PICK r \in Bytes : r = x ++ t
  BY Closed
<1>2. PICK p \in Bytes, q \in Bytes :
           /\ r = p ++ q
           /\ Len(p) = IF Len(r) < MaxVecSize THEN Len(r) ELSE MaxVecSize
           /\ TakeBytes(r) = IF DecodeBytes(p).ok
                             THEN Ok(DecodeBytes(p).value, DecodeBytes(p).rest ++ q) ELSE Err
  BY Limited
<1>3. Len(x) <= Len(p)
  <2>1. Len(r) = Len(x) + Len(t) /\ Len(x) \in Nat /\ Len(t) \in Nat /\ MaxVecSize \in Nat
    BY <1>1, Lengths, RadixAssumption
  <2> QED  BY <1>2, <2>1
<1>4. x ++ t = p ++ q
  BY <1>1, <1>2
<1>5. PICK e \in Bytes : p = x ++ e /\ t = e ++ q
  BY <1>3, <1>4, DividedTwice
<1>6. DecodeBytes(p) = Ok(d, e)
  BY <1>5
<1>7. DecodeBytes(p).ok /\ DecodeBytes(p).value = d /\ DecodeBytes(p).rest = e
  BY <1>6, Results
<1> QED  BY <1>1, <1>2, <1>5, <1>7

\* A script that fits under the limit reads back.
LEMMA ScriptReads ==
  ASSUME NEW d \in Scripts, NEW t \in Bytes
  PROVE  TakeBytes(EncodeBytes(d) ++ t) = Ok(d, t)
<1>1. d \in Data /\ Len(EncodeBytes(d)) <= MaxVecSize
  BY DEF Scripts
<1>2. EncodeBytes(d) \in Bytes /\ \A u \in Bytes : DecodeBytes(EncodeBytes(d) ++ u) = Ok(d, u)
  BY <1>1, BytesRead
<1> QED  BY <1>1, <1>2, TakenReads

\* What reads as a script is taken without regard to what follows.
LEMMA ScriptTook ==
  ASSUME NEW r \in Bytes, TakeBytes(r).ok
  PROVE  \E d \in Data, x, t \in Bytes :
           /\ Took(r, x, t)
           /\ TakeBytes(r) = Ok(d, t)
           /\ \A u \in Bytes : TakeBytes(x ++ u) = Ok(d, u)
           /\ UsizeWidth = 8 => x = EncodeBytes(d)
<1>1. PICK p \in Bytes, q \in Bytes :
           /\ r = p ++ q
           /\ Len(p) = IF Len(r) < MaxVecSize THEN Len(r) ELSE MaxVecSize
           /\ TakeBytes(r) = IF DecodeBytes(p).ok
                             THEN Ok(DecodeBytes(p).value, DecodeBytes(p).rest ++ q) ELSE Err
  BY Limited
<1>2. DecodeBytes(p).ok
  BY <1>1, Results
<1>3. PICK d \in Data, x \in Bytes, s \in Bytes :
        /\ Took(p, x, s)
        /\ DecodeBytes(p) = Ok(d, s)
        /\ \A u \in Bytes : DecodeBytes(x ++ u) = Ok(d, u)
        /\ UsizeWidth = 8 => x = EncodeBytes(d)
  BY <1>2, BytesTook
<1>4. p = x ++ s /\ Len(x) >= 1
  BY <1>3 DEF Took
<1>5. Len(x) <= MaxVecSize
  <2>1. Len(p) = Len(x) + Len(s) /\ Len(x) \in Nat /\ Len(s) \in Nat
    BY <1>4, Lengths
  <2>2. Len(p) <= MaxVecSize
    BY <1>1, RadixAssumption, Lengths
  <2> QED  BY <2>1, <2>2, RadixAssumption
<1>6. \A u \in Bytes : TakeBytes(x ++ u) = Ok(d, u)
  BY <1>3, <1>5, TakenReads
<1>7. (x ++ s) ++ q = x ++ (s ++ q)
  BY Grouped
<1>8. PICK t \in Bytes : t = s ++ q
  BY Closed
<1>9. Took(r, x, t)
  BY <1>1, <1>4, <1>7, <1>8 DEF Took
<1>10. TakeBytes(r) = Ok(d, t)
  BY <1>6, <1>9 DEF Took
<1> QED  BY <1>3, <1>6, <1>9, <1>10

-----------------------------------------------------------------------------
(* Inputs, outputs and witness elements.                                   *)

\* A chain of four strings before a fifth.
LEMMA FourGrouped ==
  ASSUME NEW a \in Bytes, NEW b \in Bytes, NEW c \in Bytes, NEW d \in Bytes, NEW t \in Bytes
  PROVE  (((a ++ b) ++ c) ++ d) ++ t = a ++ (b ++ (c ++ (d ++ t)))
<1>1. (((a ++ b) ++ c) ++ d) ++ t = ((a ++ b) ++ c) ++ (d ++ t)
  <2>1. PICK f \in Bytes : f = a ++ b
    BY Closed
  <2>2. PICK g \in Bytes : g = f ++ c
    BY Closed
  <2>3. (g ++ d) ++ t = g ++ (d ++ t)
    BY Grouped
  <2> QED  BY <2>1, <2>2, <2>3
<1>2. PICK e \in Bytes : e = d ++ t
  BY Closed
<1>3. ((a ++ b) ++ c) ++ e = (a ++ b) ++ (c ++ e)
  BY Grouped, Closed
<1>4. PICK f \in Bytes : f = c ++ e
  BY Closed
<1>5. (a ++ b) ++ f = a ++ (b ++ f)
  BY Grouped
<1> QED  BY <1>1, <1>2, <1>3, <1>4, <1>5

\* Four strings make a string, one byte long if one of them is.
LEMMA FourClosed ==
  ASSUME NEW a \in Bytes, NEW b \in Bytes, NEW c \in Bytes, NEW d \in Bytes, Len(b) >= 1
  PROVE  ((a ++ b) ++ c) ++ d \in Bytes /\ Len(((a ++ b) ++ c) ++ d) >= 1
<1>1. PICK e \in Bytes : e = a ++ b /\ Len(e) = Len(a) + Len(b) /\ Len(a) \in Nat
  BY Closed, Lengths
<1>2. PICK f \in Bytes : f = e ++ c /\ Len(f) = Len(e) + Len(c) /\ Len(c) \in Nat
  BY Closed, Lengths
<1>3. PICK g \in Bytes : g = f ++ d /\ Len(g) = Len(f) + Len(d) /\ Len(d) \in Nat
  BY Closed, Lengths
<1>4. Len(b) \in Nat
  BY Lengths
<1>5. Len(g) >= 1
  BY <1>1, <1>2, <1>3, <1>4
<1> QED  BY <1>1, <1>2, <1>3, <1>5

\* An array is a sequence.
LEMMA ArrayIsString ==
  ASSUME NEW T, NEW n \in Nat, NEW f \in [1 .. n -> T]
  PROVE  f \in Seq(T) /\ Len(f) = n
  OBVIOUS

\* A transaction id, reversed twice, is itself.
LEMMA Reversed ==
  ASSUME NEW s \in Txids
  PROVE  Reverse(s) \in Txids /\ Reverse(Reverse(s)) = s
<1>1. s \in Seq(Byte) /\ Len(s) = 2
  BY DEF Txids, Bytes, TxidWidth
<1>2. 1 \in 1 .. Len(s) /\ 2 \in 1 .. Len(s) /\ \A i \in 1 .. 2 : i = 1 \/ i = 2
  BY <1>1
<1>3. Reverse(s) = [i \in 1 .. 2 |-> s[(2 - i) + 1]]
  BY <1>1 DEF Reverse
<1>4. s[1] \in Byte /\ s[2] \in Byte
  BY <1>1, <1>2, ElementOfSeq
<1> DEFINE u == Reverse(s)
<1>5. u[1] = s[2] /\ u[2] = s[1] /\ u \in [1 .. 2 -> Byte]
  BY <1>3, <1>4
<1>6. u \in Seq(Byte) /\ Len(u) = 2
  <2> HIDE DEF u
  <2>1. 2 \in Nat
    OBVIOUS
  <2> QED  BY <1>5, <2>1, ArrayIsString
<1> HIDE DEF u
<1>7. Reverse(u) = [i \in 1 .. 2 |-> u[(2 - i) + 1]]
  BY <1>6 DEF Reverse
<1>8. Reverse(u)[1] = s[1] /\ Reverse(u)[2] = s[2] /\ Reverse(u) \in [1 .. 2 -> Byte]
  BY <1>4, <1>5, <1>7
<1>9. Reverse(u) \in Seq(Byte) /\ Len(Reverse(u)) = 2
  <2>1. 2 \in Nat
    OBVIOUS
  <2> QED  BY <1>8, <2>1, ArrayIsString
<1>10. \A i \in 1 .. Len(s) : Reverse(u)[i] = s[i]
  BY <1>1, <1>2, <1>8
<1>11. Reverse(u) = s
  BY <1>1, <1>9, <1>10, SeqEqual
<1> QED  BY <1>6, <1>11 DEF u, Txids, Bytes, TxidWidth

\* A transaction id reads back (txid.rs reverses it in both directions).
LEMMA TxidReads ==
  ASSUME NEW id \in Txids, NEW t \in Bytes
  PROVE  /\ EncodeTxid(id) \in Bytes
         /\ DecodeTxid(EncodeTxid(id) ++ t) = Ok(id, t)
<1>1. PICK e \in Txids : e = EncodeTxid(id) /\ Reverse(e) = id
  BY Reversed DEF EncodeTxid
<1>2. e \in Bytes /\ Len(e) = TxidWidth
  BY DEF Txids
<1>3. ReadExact(e ++ t, TxidWidth) = Ok(e, t)
  BY <1>2, ReadExactReads
<1>4. DecodeTxid(e ++ t) = Ok(id, t)
  BY <1>1, <1>3, Results DEF DecodeTxid, Then
<1> QED  BY <1>1, <1>2, <1>4

\* What reads as a transaction id is its encoding.
LEMMA TxidTook ==
  ASSUME NEW r \in Bytes, DecodeTxid(r).ok
  PROVE  \E id \in Txids, t \in Bytes : r = EncodeTxid(id) ++ t /\ DecodeTxid(r) = Ok(id, t)
<1>1. ReadExact(r, TxidWidth).ok
  BY Results DEF DecodeTxid, Then
<1>2. PICK a \in Bytes, t \in Bytes : Len(a) = TxidWidth /\ r = a ++ t
  BY <1>1, ReadExactTook DEF TxidWidth
<1>3. a \in Txids
  BY <1>2 DEF Txids
<1>4. Reverse(a) \in Txids /\ EncodeTxid(Reverse(a)) = a
  BY <1>3, Reversed DEF EncodeTxid
<1> QED  BY <1>2, <1>4, TxidReads

OutPoint(id, vout) == [txid |-> id, vout |-> vout]
TxIn(id, vout, script, sequence, witness) ==
  [previous_output |-> OutPoint(id, vout), script_sig |-> script, sequence |-> sequence,
   witness |-> witness]

\* The steps of the decoder.
LEMMA TxInChain ==
  ASSUME NEW r, NEW r1, NEW r2, NEW r3, NEW t, NEW id, NEW vout, NEW script, NEW sequence,
         DecodeTxid(r) = Ok(id, r1), ReadByte(r1) = Ok(vout, r2),
         TakeBytes(r2) = Ok(script, r3), ReadByte(r3) = Ok(sequence, t)
  PROVE  DecodeTxIn(r) = Ok(TxIn(id, vout, script, sequence, << >>), t)
<1>1. /\ DecodeTxid(r).ok /\ DecodeTxid(r).value = id /\ DecodeTxid(r).rest = r1
      /\ ReadByte(r1).ok /\ ReadByte(r1).value = vout /\ ReadByte(r1).rest = r2
      /\ TakeBytes(r2).ok /\ TakeBytes(r2).value = script /\ TakeBytes(r2).rest = r3
      /\ ReadByte(r3).ok /\ ReadByte(r3).value = sequence /\ ReadByte(r3).rest = t
  BY Results
<1> QED  BY <1>1 DEF DecodeTxIn, Then, TxIn, OutPoint

\* The bytes of an input, each field apart.
LEMMA TxInBytes ==
  ASSUME NEW id, NEW vout, NEW script, NEW sequence, NEW witness
  PROVE  EncodeTxIn(TxIn(id, vout, script, sequence, witness))
           = ((EncodeTxid(id) ++ <<vout>>) ++ EncodeBytes(script)) ++ <<sequence>>
  BY DEF EncodeTxIn, TxIn, OutPoint, ++

\* An input reads back without its witness, which it is not written with.
LEMMA TxInReads ==
  ASSUME NEW id \in Txids, NEW vout \in Byte, NEW script \in Scripts, NEW sequence \in Byte,
         NEW t \in Bytes
  PROVE  LET in == TxIn(id, vout, script, sequence, << >>)
         IN /\ EncodeTxIn(in) \in Bytes /\ Len(EncodeTxIn(in)) >= 1
            /\ DecodeTxIn(EncodeTxIn(in) ++ t) = Ok(in, t)
<1> DEFINE in == TxIn(id, vout, script, sequence, << >>)
<1>1. PICK a \in Bytes : a = EncodeTxid(id) /\ \A u \in Bytes : DecodeTxid(a ++ u) = Ok(id, u)
  BY TxidReads
<1>2. PICK b \in Bytes : b = <<vout>> /\ Len(b) >= 1
                      /\ \A u \in Bytes : ReadByte(b ++ u) = Ok(vout, u)
  <2>1. <<vout>> \in Bytes /\ Len(<<vout>>) >= 1
    BY OneByte
  <2>2. \A u \in Bytes : ReadByte(<<vout>> ++ u) = Ok(vout, u)
    BY ReadByteReads
  <2> QED  BY <2>1, <2>2
<1>3. PICK c \in Bytes : c = EncodeBytes(script)
                      /\ \A u \in Bytes : TakeBytes(c ++ u) = Ok(script, u)
  <2>1. EncodeBytes(script) \in Bytes
    BY BytesRead, NoBytes DEF Scripts
  <2> QED  BY <2>1, ScriptReads
<1>4. PICK d \in Bytes : d = <<sequence>> /\ \A u \in Bytes : ReadByte(d ++ u) = Ok(sequence, u)
  <2>1. <<sequence>> \in Bytes
    BY OneByte
  <2>2. \A u \in Bytes : ReadByte(<<sequence>> ++ u) = Ok(sequence, u)
    BY ReadByteReads
  <2> QED  BY <2>1, <2>2
<1>5. EncodeTxIn(in) = ((a ++ b) ++ c) ++ d
  BY <1>1, <1>2, <1>3, <1>4, TxInBytes
<1>6. ((a ++ b) ++ c) ++ d \in Bytes /\ Len(((a ++ b) ++ c) ++ d) >= 1
  BY <1>2, FourClosed
<1>7. PICK r3 \in Bytes : r3 = d ++ t
  BY Closed
<1>8. PICK r2 \in Bytes : r2 = c ++ r3
  BY Closed
<1>9. PICK r1 \in Bytes : r1 = b ++ r2
  BY Closed
<1>10. (((a ++ b) ++ c) ++ d) ++ t = a ++ r1
  BY <1>7, <1>8, <1>9, FourGrouped
<1>11. DecodeTxid(a ++ r1) = Ok(id, r1)
  BY <1>1
<1>12. ReadByte(r1) = Ok(vout, r2)
  BY <1>2, <1>9
<1>13. TakeBytes(r2) = Ok(script, r3)
  BY <1>3, <1>8
<1>14. ReadByte(r3) = Ok(sequence, t)
  BY <1>4, <1>7
<1>15. DecodeTxIn(a ++ r1) = Ok(in, t)
  BY <1>11, <1>12, <1>13, <1>14, TxInChain
<1> HIDE DEF in
<1>16. /\ EncodeTxIn(in) \in Bytes /\ Len(EncodeTxIn(in)) >= 1
       /\ DecodeTxIn(EncodeTxIn(in) ++ t) = Ok(in, t)
  BY <1>5, <1>6, <1>10, <1>15
<1> QED  BY <1>16 DEF in

\* What reads as an input is taken without regard to what follows.
LEMMA TxInTook ==
  ASSUME NEW r \in Bytes, DecodeTxIn(r).ok
  PROVE  \E id \in Txids, vout \in Byte, script \in Data, sequence \in Byte, x, t \in Bytes :
           LET in == TxIn(id, vout, script, sequence, << >>)
           IN /\ Took(r, x, t)
              /\ DecodeTxIn(r) = Ok(in, t)
              /\ \A u \in Bytes : DecodeTxIn(x ++ u) = Ok(in, u)
              /\ UsizeWidth = 8 => x = EncodeTxIn(in)
<1>1. DecodeTxid(r).ok
  BY Results DEF DecodeTxIn, Then
<1>2. PICK id \in Txids, r1 \in Bytes : r = EncodeTxid(id) ++ r1 /\ DecodeTxid(r) = Ok(id, r1)
  BY <1>1, TxidTook
<1>3. DecodeTxid(r).rest = r1
  BY <1>2, Results
<1>4. ReadByte(r1).ok
  BY <1>1, <1>3, Results DEF DecodeTxIn, Then
<1>5. PICK vout \in Byte, r2 \in Bytes : r1 = <<vout>> ++ r2 /\ ReadByte(r1) = Ok(vout, r2)
  BY <1>4, ReadByteTook
<1>6. ReadByte(r1).rest = r2
  BY <1>5, Results
<1>7. TakeBytes(r2).ok
  BY <1>1, <1>3, <1>4, <1>6, Results DEF DecodeTxIn, Then
<1>8. PICK script \in Data, c \in Bytes, r3 \in Bytes :
        /\ Took(r2, c, r3)
        /\ TakeBytes(r2) = Ok(script, r3)
        /\ \A u \in Bytes : TakeBytes(c ++ u) = Ok(script, u)
        /\ UsizeWidth = 8 => c = EncodeBytes(script)
  BY <1>7, ScriptTook
<1>9. TakeBytes(r2).rest = r3
  BY <1>8, Results
<1>10. ReadByte(r3).ok
  BY <1>1, <1>3, <1>4, <1>6, <1>7, <1>9, Results DEF DecodeTxIn, Then
<1>11. PICK sequence \in Byte, t \in Bytes : r3 = <<sequence>> ++ t
  BY <1>10, ReadByteTook
<1>12. PICK a \in Bytes : a = EncodeTxid(id) /\ \A u \in Bytes : DecodeTxid(a ++ u) = Ok(id, u)
  BY TxidReads
<1>13. PICK b \in Bytes : b = <<vout>> /\ Len(b) >= 1
                      /\ \A u \in Bytes : ReadByte(b ++ u) = Ok(vout, u)
  <2>1. <<vout>> \in Bytes /\ Len(<<vout>>) >= 1
    BY OneByte
  <2>2. \A u \in Bytes : ReadByte(<<vout>> ++ u) = Ok(vout, u)
    BY ReadByteReads
  <2> QED  BY <2>1, <2>2
<1>14. PICK d \in Bytes : d = <<sequence>> /\ \A u \in Bytes : ReadByte(d ++ u) = Ok(sequence, u)
  <2>1. <<sequence>> \in Bytes
    BY OneByte
  <2>2. \A u \in Bytes : ReadByte(<<sequence>> ++ u) = Ok(sequence, u)
    BY ReadByteReads
  <2> QED  BY <2>1, <2>2
<1> DEFINE in == TxIn(id, vout, script, sequence, << >>)
<1>15. PICK x \in Bytes : x = ((a ++ b) ++ c) ++ d /\ Len(x) >= 1
  BY <1>13, FourClosed
<1>16. ASSUME NEW u \in Bytes
       PROVE  x ++ u = a ++ (b ++ (c ++ (d ++ u))) /\ DecodeTxIn(x ++ u) = Ok(in, u)
  <2>1. x ++ u = a ++ (b ++ (c ++ (d ++ u)))
    BY <1>15, FourGrouped
  <2>2. PICK s3 \in Bytes : s3 = d ++ u
    BY Closed
  <2>3. PICK s2 \in Bytes : s2 = c ++ s3
    BY Closed
  <2>4. PICK s1 \in Bytes : s1 = b ++ s2
    BY Closed
  <2>5. DecodeTxid(a ++ s1) = Ok(id, s1)
    BY <1>12
  <2>6. ReadByte(s1) = Ok(vout, s2)
    BY <1>13, <2>4
  <2>7. TakeBytes(s2) = Ok(script, s3)
    BY <1>8, <2>3
  <2>8. ReadByte(s3) = Ok(sequence, u)
    BY <1>14, <2>2
  <2>9. DecodeTxIn(a ++ s1) = Ok(in, u)
    BY <2>5, <2>6, <2>7, <2>8, TxInChain
  <2> QED  BY <2>1, <2>2, <2>3, <2>4, <2>9
<1>17. r = x ++ t
  <2>1. r2 = c ++ r3
    BY <1>8 DEF Took
  <2> QED  BY <1>2, <1>5, <1>11, <1>12, <1>13, <1>14, <1>16, <2>1
<1>18. Took(r, x, t)
  BY <1>15, <1>17 DEF Took
<1>19. UsizeWidth = 8 => x = EncodeTxIn(in)
  BY <1>8, <1>12, <1>13, <1>14, <1>15, TxInBytes
<1>20. DecodeTxIn(r) = Ok(in, t)
  BY <1>16, <1>17
<1> HIDE DEF in
<1>21. \A u \in Bytes : DecodeTxIn(x ++ u) = Ok(in, u)
  BY <1>16
<1> QED  BY <1>18, <1>19, <1>20, <1>21 DEF in

TxOut(value, script) == [value |-> value, script_pubkey |-> script]

\* The steps of the decoder of outputs.
LEMMA TxOutChain ==
  ASSUME NEW r, NEW r1, NEW t, NEW value, NEW script,
         ReadByte(r) = Ok(value, r1), DecodeBytes(r1) = Ok(script, t)
  PROVE  DecodeTxOut(r) = Ok(TxOut(value, script), t)
<1>1. /\ ReadByte(r).ok /\ ReadByte(r).value = value /\ ReadByte(r).rest = r1
      /\ DecodeBytes(r1).ok /\ DecodeBytes(r1).value = script /\ DecodeBytes(r1).rest = t
  BY Results
<1> QED  BY <1>1 DEF DecodeTxOut, Then, TxOut

\* The bytes of an output.
LEMMA TxOutBytes ==
  ASSUME NEW value, NEW script
  PROVE  EncodeTxOut(TxOut(value, script)) = <<value>> ++ EncodeBytes(script)
  BY DEF EncodeTxOut, TxOut, ++

\* An output reads back.
LEMMA TxOutReads ==
  ASSUME NEW value \in Byte, NEW script \in Data, NEW t \in Bytes
  PROVE  LET out == TxOut(value, script)
         IN /\ EncodeTxOut(out) \in Bytes /\ Len(EncodeTxOut(out)) >= 1
            /\ DecodeTxOut(EncodeTxOut(out) ++ t) = Ok(out, t)
<1> DEFINE out == TxOut(value, script)
<1>1. PICK a \in Bytes : a = <<value>> /\ Len(a) = 1 /\ \A u \in Bytes : ReadByte(a ++ u) = Ok(value, u)
  <2>1. <<value>> \in Bytes /\ Len(<<value>>) = 1
    BY OneByte
  <2>2. \A u \in Bytes : ReadByte(<<value>> ++ u) = Ok(value, u)
    BY ReadByteReads
  <2> QED  BY <2>1, <2>2
<1>2. PICK b \in Bytes : b = EncodeBytes(script) /\ \A u \in Bytes : DecodeBytes(b ++ u) = Ok(script, u)
  <2>1. EncodeBytes(script) \in Bytes
    BY NoBytes, BytesRead
  <2> QED  BY <2>1, BytesRead
<1>3. EncodeTxOut(out) = a ++ b
  BY <1>1, <1>2, TxOutBytes
<1>4. a ++ b \in Bytes
  BY Closed
<1>5. Len(a ++ b) >= 1
  <2>1. Len(a ++ b) = Len(a) + Len(b) /\ Len(b) \in Nat
    BY Lengths
  <2> QED  BY <1>1, <2>1
<1>6. PICK s \in Bytes : s = b ++ t
  BY Closed
<1>7. (a ++ b) ++ t = a ++ s
  BY <1>6, Grouped
<1>8. ReadByte(a ++ s) = Ok(value, s)
  BY <1>1
<1>9. DecodeBytes(s) = Ok(script, t)
  BY <1>2, <1>6
<1>10. DecodeTxOut(a ++ s) = Ok(out, t)
  BY <1>8, <1>9, TxOutChain
<1> HIDE DEF out
<1>11. /\ EncodeTxOut(out) \in Bytes /\ Len(EncodeTxOut(out)) >= 1
       /\ DecodeTxOut(EncodeTxOut(out) ++ t) = Ok(out, t)
  BY <1>3, <1>4, <1>5, <1>7, <1>10
<1> QED  BY <1>11 DEF out

\* What reads as an output is taken without regard to what follows.
LEMMA TxOutTook ==
  ASSUME NEW r \in Bytes, DecodeTxOut(r).ok
  PROVE  \E value \in Byte, script \in Data, x, t \in Bytes :
           LET out == TxOut(value, script)
           IN /\ Took(r, x, t)
              /\ DecodeTxOut(r) = Ok(out, t)
              /\ \A u \in Bytes : DecodeTxOut(x ++ u) = Ok(out, u)
              /\ UsizeWidth = 8 => x = EncodeTxOut(out)
<1>1. ReadByte(r).ok
  BY Results DEF DecodeTxOut, Then
<1>2. PICK value \in Byte, r1 \in Bytes : r = <<value>> ++ r1 /\ ReadByte(r) = Ok(value, r1)
  BY <1>1, ReadByteTook
<1>3. ReadByte(r).rest = r1
  BY <1>2, Results
<1>4. DecodeBytes(r1).ok
  BY <1>1, <1>3, Results DEF DecodeTxOut, Then
<1>5. PICK script \in Data, b \in Bytes, t \in Bytes :
        /\ Took(r1, b, t)
        /\ DecodeBytes(r1) = Ok(script, t)
        /\ \A u \in Bytes : DecodeBytes(b ++ u) = Ok(script, u)
        /\ UsizeWidth = 8 => b = EncodeBytes(script)
  BY <1>4, BytesTook
<1>6. PICK a \in Bytes : a = <<value>> /\ Len(a) = 1 /\ \A u \in Bytes : ReadByte(a ++ u) = Ok(value, u)
  <2>1. <<value>> \in Bytes /\ Len(<<value>>) = 1
    BY OneByte
  <2>2. \A u \in Bytes : ReadByte(<<value>> ++ u) = Ok(value, u)
    BY ReadByteReads
  <2> QED  BY <2>1, <2>2
<1> DEFINE out == TxOut(value, script)
<1>7. PICK x \in Bytes : x = a ++ b
  BY Closed
<1>8. Len(x) >= 1
  <2>1. Len(a ++ b) = Len(a) + Len(b) /\ Len(b) \in Nat
    BY Lengths
  <2> QED  BY <1>6, <1>7, <2>1
<1>9. ASSUME NEW u \in Bytes
      PROVE  x ++ u = a ++ (b ++ u) /\ DecodeTxOut(x ++ u) = Ok(out, u)
  <2>1. x ++ u = a ++ (b ++ u)
    BY <1>7, Grouped
  <2>2. PICK s \in Bytes : s = b ++ u
    BY Closed
  <2>3. ReadByte(a ++ s) = Ok(value, s)
    BY <1>6
  <2>4. DecodeBytes(s) = Ok(script, u)
    BY <1>5, <2>2
  <2>5. DecodeTxOut(a ++ s) = Ok(out, u)
    BY <2>3, <2>4, TxOutChain
  <2> QED  BY <2>1, <2>2, <2>5
<1>10. r = x ++ t
  <2>1. r1 = b ++ t
    BY <1>5 DEF Took
  <2> QED  BY <1>2, <1>6, <1>9, <2>1
<1>11. Took(r, x, t)
  BY <1>8, <1>10 DEF Took
<1>12. UsizeWidth = 8 => x = EncodeTxOut(out)
  BY <1>5, <1>6, <1>7, TxOutBytes
<1>13. DecodeTxOut(r) = Ok(out, t)
  BY <1>9, <1>10
<1> HIDE DEF out
<1>14. \A u \in Bytes : DecodeTxOut(x ++ u) = Ok(out, u)
  BY <1>9
<1> QED  BY <1>11, <1>12, <1>13, <1>14 DEF out

\* The items of a vector, as they are sent and as they can arrive: a script
\* that an input is read with can be too long for one to be sent.
Types == {"TxIn", "TxOut", "bytes"}

Inputs(S) == {TxIn(id, vout, script, sequence, << >>) :
                id \in Txids, vout \in Byte, script \in S, sequence \in Byte}
Outputs == {TxOut(value, script) : value \in Byte, script \in Data}

Got(type) == CASE type = "TxIn" -> Inputs(Data) [] type = "TxOut" -> Outputs [] type = "bytes" -> Data
Sent(type) == CASE type = "TxIn" -> Inputs(Scripts) [] type = "TxOut" -> Outputs [] type = "bytes" -> Data

\* Whatever is sent can arrive.
LEMMA SentIsGot ==
  ASSUME NEW type \in Types
  PROVE  Sent(type) \subseteq Got(type)
<1>1. Scripts \subseteq Data
  BY DEF Scripts
<1>2. Inputs(Scripts) \subseteq Inputs(Data)
  BY <1>1 DEF Inputs
<1> QED  BY <1>2 DEF Types, Sent, Got

\* An item that is sent reads back.
LEMMA ItemReads ==
  ASSUME NEW type \in Types, NEW item \in Sent(type), NEW t \in Bytes
  PROVE  /\ EncodeItem(type, item) \in Bytes /\ Len(EncodeItem(type, item)) >= 1
         /\ DecodeItem(type, EncodeItem(type, item) ++ t) = Ok(item, t)
<1>1. CASE type = "TxIn"
  <2>1. item \in Inputs(Scripts) /\ EncodeItem(type, item) = EncodeTxIn(item)
    BY <1>1 DEF Sent, EncodeItem
  <2>2. \A r : DecodeItem(type, r) = DecodeTxIn(r)
    BY <1>1 DEF DecodeItem
  <2>3. PICK id \in Txids, vout \in Byte, script \in Scripts, sequence \in Byte :
          item = TxIn(id, vout, script, sequence, << >>)
    BY <2>1 DEF Inputs
  <2> QED  BY <2>1, <2>2, <2>3, TxInReads
<1>2. CASE type = "TxOut"
  <2>1. item \in Outputs /\ EncodeItem(type, item) = EncodeTxOut(item)
    BY <1>2 DEF Sent, EncodeItem
  <2>2. \A r : DecodeItem(type, r) = DecodeTxOut(r)
    BY <1>2 DEF DecodeItem
  <2>3. PICK value \in Byte, script \in Data : item = TxOut(value, script)
    BY <2>1 DEF Outputs
  <2> QED  BY <2>1, <2>2, <2>3, TxOutReads
<1>3. CASE type = "bytes"
  <2>1. item \in Data /\ EncodeItem(type, item) = EncodeBytes(item)
    BY <1>3 DEF Sent, EncodeItem
  <2>2. \A r : DecodeItem(type, r) = DecodeBytes(r)
    BY <1>3 DEF DecodeItem
  <2> QED  BY <2>1, <2>2, BytesRead
<1> QED  BY <1>1, <1>2, <1>3 DEF Types

\* What reads as an item is taken without regard to what follows.
LEMMA ItemTook ==
  ASSUME NEW type \in Types, NEW r \in Bytes, DecodeItem(type, r).ok
  PROVE  \E item \in Got(type), x, t \in Bytes :
           /\ Took(r, x, t)
           /\ DecodeItem(type, r) = Ok(item, t)
           /\ \A u \in Bytes : DecodeItem(type, x ++ u) = Ok(item, u)
           /\ UsizeWidth = 8 => x = EncodeItem(type, item)
<1>1. CASE type = "TxIn"
  <2>1. Got(type) = Inputs(Data) /\ \A item : EncodeItem(type, item) = EncodeTxIn(item)
    BY <1>1 DEF Got, EncodeItem
  <2>2. \A s : DecodeItem(type, s) = DecodeTxIn(s)
    BY <1>1 DEF DecodeItem
  <2>3. PICK id \in Txids, vout \in Byte, script \in Data, sequence \in Byte, x, t \in Bytes :
           LET in == TxIn(id, vout, script, sequence, << >>)
           IN /\ Took(r, x, t)
              /\ DecodeTxIn(r) = Ok(in, t)
              /\ \A u \in Bytes : DecodeTxIn(x ++ u) = Ok(in, u)
              /\ UsizeWidth = 8 => x = EncodeTxIn(in)
    BY <2>2, TxInTook
  <2>4. TxIn(id, vout, script, sequence, << >>) \in Inputs(Data)
    BY DEF Inputs
  <2> QED  BY <2>1, <2>2, <2>3, <2>4
<1>2. CASE type = "TxOut"
  <2>1. Got(type) = Outputs /\ \A item : EncodeItem(type, item) = EncodeTxOut(item)
    BY <1>2 DEF Got, EncodeItem
  <2>2. \A s : DecodeItem(type, s) = DecodeTxOut(s)
    BY <1>2 DEF DecodeItem
  <2>3. PICK value \in Byte, script \in Data, x, t \in Bytes :
           LET out == TxOut(value, script)
           IN /\ Took(r, x, t)
              /\ DecodeTxOut(r) = Ok(out, t)
              /\ \A u \in Bytes : DecodeTxOut(x ++ u) = Ok(out, u)
              /\ UsizeWidth = 8 => x = EncodeTxOut(out)
    BY <2>2, TxOutTook
  <2>4. TxOut(value, script) \in Outputs
    BY DEF Outputs
  <2> QED  BY <2>1, <2>2, <2>3, <2>4
<1>3. CASE type = "bytes"
  <2>1. Got(type) = Data /\ \A item : EncodeItem(type, item) = EncodeBytes(item)
    BY <1>3 DEF Got, EncodeItem
  <2>2. \A s : DecodeItem(type, s) = DecodeBytes(s)
    BY <1>3 DEF DecodeItem
  <2> QED  BY <2>1, <2>2, BytesTook
<1> QED  BY <1>1, <1>2, <1>3 DEF Types


-----------------------------------------------------------------------------
(* Loops: a reader d is a function on strings, called once for each item.  *)

\* What a reader of values in T can return.
Read(T) == {Ok(v, t) : v \in T, t \in Bytes} \cup {Err}

Turn(d, ret) ==
  IF ret.ok
  THEN IF d[ret.rest].ok
       THEN Ok(Append(ret.value, d[ret.rest].value), d[ret.rest].rest) ELSE Err
  ELSE Err

Looped(f, d, r, n) ==
  f[0] = Ok(<< >>, r) /\ \A k \in 1 .. n : f[k] = Turn(d, f[k - 1])

\* A value with a tail is something a reader returns.
LEMMA IsRead ==
  ASSUME NEW T, NEW v \in T, NEW t \in Bytes
  PROVE  Ok(v, t) \in Read(T)
  BY DEF Read

\* A reader returns an error or a value with a tail.
LEMMA ReadForms ==
  ASSUME NEW T, NEW x \in Read(T)
  PROVE  x = Err \/ (x.ok /\ x.value \in T /\ x.rest \in Bytes /\ x = Ok(x.value, x.rest))
<1>1. CASE x = Err
  BY <1>1
<1>2. CASE x # Err
  <2>1. PICK v \in T, t \in Bytes : x = Ok(v, t)
    BY <1>2 DEF Read
  <2> QED  BY <2>1, Results
<1> QED  BY <1>1, <1>2

\* A turn of the loop returns what a reader of sequences can return.
LEMMA TurnType ==
  ASSUME NEW T, NEW d \in [Bytes -> Read(T)], NEW ret \in Read(Seq(T))
  PROVE  Turn(d, ret) \in Read(Seq(T))
<1>1. Err \in Read(Seq(T))
  BY DEF Read
<1>2. CASE ret.ok /\ d[ret.rest].ok
  <2>1. ret.value \in Seq(T) /\ ret.rest \in Bytes
    BY <1>2, ReadForms, Results
  <2>2. d[ret.rest] \in Read(T)
    BY <2>1
  <2>3. d[ret.rest].value \in T /\ d[ret.rest].rest \in Bytes
    BY <1>2, <2>2, ReadForms, Results
  <2>4. Append(ret.value, d[ret.rest].value) \in Seq(T)
    BY <2>1, <2>3, AppendProperties
  <2>5. Ok(Append(ret.value, d[ret.rest].value), d[ret.rest].rest) \in Read(Seq(T))
    BY <2>3, <2>4, IsRead
  <2> QED  BY <1>2, <2>5 DEF Turn
<1> QED  BY <1>1, <1>2 DEF Turn

\* The loop has values for every number of turns.
LEMMA LoopExists ==
  ASSUME NEW T, NEW d \in [Bytes -> Read(T)], NEW r \in Bytes, NEW n \in Nat
  PROVE  \E f \in [0 .. n -> Read(Seq(T))] : Looped(f, d, r, n)
<1> DEFINE V == Read(Seq(T))
           h == [x \in (1 .. n) \X V |-> Turn(d, x[2])]
<1>1. \A k \in 1 .. n, v \in V : h[<<k, v>>] = Turn(d, v)
  OBVIOUS
<1>2. h \in [(1 .. n) \X V -> V]
  <2>1. \A x \in (1 .. n) \X V : x[2] \in V
    OBVIOUS
  <2> QED  BY <2>1, TurnType
<1>3. Ok(<< >>, r) \in V
  <2>1. << >> \in Seq(T)
    BY EmptySeq
  <2> QED  BY <2>1, IsRead
<1> HIDE DEF h, V
<1>4. PICK f \in [0 .. n -> V] : Iterated(f, Ok(<< >>, r), n, h)
  BY <1>2, <1>3, IterationExists
<1>5. f[0] = Ok(<< >>, r)
  BY <1>4 DEF Iterated
<1>6. ASSUME NEW k \in 1 .. n
      PROVE  f[k] = Turn(d, f[k - 1])
  <2>1. k \in 0 .. n /\ k # 0 /\ k - 1 \in 0 .. n
    OBVIOUS
  <2>2. f[k] = h[<<k, f[k - 1]>>]
    BY <1>4, <2>1 DEF Iterated
  <2>3. f[k - 1] \in V
    BY <2>1
  <2> QED  BY <1>1, <2>2, <2>3
<1> QED  BY <1>5, <1>6 DEF Looped, V

\* A function that turns as the loop does wherever it has values of the loop.
LEMMA LoopIs ==
  ASSUME NEW T, NEW d \in [Bytes -> Read(T)], NEW r \in Bytes, NEW n \in Nat,
         NEW g, g[0] = Ok(<< >>, r),
         \A k \in 1 .. n : \A v \in Read(Seq(T)) : g[k - 1] = v => g[k] = Turn(d, v)
  PROVE  Looped(g, d, r, n) /\ \A k \in 0 .. n : g[k] \in Read(Seq(T))
<1> DEFINE V == Read(Seq(T))
           Typed == {k \in Nat : k <= n => g[k] \in V}
<1>1. 0 \in Typed
  <2>1. << >> \in Seq(T)
    BY EmptySeq
  <2>2. Ok(<< >>, r) \in V
    BY <2>1, IsRead
  <2> QED  BY <2>2
<1>2. ASSUME NEW k \in Typed
      PROVE  k + 1 \in Typed
  <2> SUFFICES ASSUME k + 1 <= n
               PROVE  g[k + 1] \in V
    OBVIOUS
  <2>1. k \in Nat /\ g[k] \in V /\ k + 1 \in 1 .. n /\ (k + 1) - 1 = k
    OBVIOUS
  <2>2. g[k + 1] = Turn(d, g[k])
    BY <2>1
  <2> QED  BY <2>1, <2>2, TurnType
<1>3. Typed = Nat
  <2> HIDE DEF Typed
  <2>1. Typed \in SUBSET Nat
    BY DEF Typed
  <2> QED  BY <1>1, <1>2, <2>1, SetInduction
<1>4. \A k \in 0 .. n : g[k] \in V
  BY <1>3
<1>5. ASSUME NEW k \in 1 .. n
      PROVE  g[k] = Turn(d, g[k - 1])
  <2>1. k - 1 \in 0 .. n
    OBVIOUS
  <2> HIDE DEF V
  <2>2. g[k - 1] \in V
    BY <1>4, <2>1
  <2> QED  BY <2>2 DEF V
<1> QED  BY <1>4, <1>5 DEF Looped

\* The codes of the items, one after the other.
Codes(e, items) == FlattenSeq([k \in 1 .. Len(items) |-> e[items[k]]])

\* No items have no codes.
LEMMA CodesEmpty ==
  ASSUME NEW e
  PROVE  Codes(e, << >>) = << >>
<1>1. [k \in 1 .. Len(<< >>) |-> e[(<< >>)[k]]] = << >>
  OBVIOUS
<1> QED  BY <1>1, FlattenEmpty DEF Codes

\* The codes of items are a string.
LEMMA CodesType ==
  ASSUME NEW T, NEW e \in [T -> Bytes], NEW items \in Seq(T)
  PROVE  Codes(e, items) \in Bytes
<1> DEFINE s == [k \in 1 .. Len(items) |-> e[items[k]]]
<1>1. Len(items) \in Nat /\ \A k \in 1 .. Len(items) : items[k] \in T
  BY ElementOfSeq
<1>2. s \in [1 .. Len(items) -> Bytes]
  BY <1>1
<1> HIDE DEF s
<1>3. s \in Seq(Bytes)
  BY <1>1, <1>2, ArrayIsString
<1> QED  BY <1>3, FlattenType DEF Codes, s, Bytes

\* One more item adds its code.
LEMMA CodesAppend ==
  ASSUME NEW T, NEW e \in [T -> Bytes], NEW items \in Seq(T), NEW item \in T
  PROVE  Codes(e, Append(items, item)) = Codes(e, items) ++ e[item]
<1> DEFINE more == Append(items, item)
           s == [k \in 1 .. Len(items) |-> e[items[k]]]
           t == [k \in 1 .. Len(more) |-> e[more[k]]]
<1>1. /\ Len(items) \in Nat /\ Len(more) = Len(items) + 1 /\ more[Len(items) + 1] = item
      /\ \A k \in 1 .. Len(items) : more[k] = items[k] /\ items[k] \in T
  BY ElementOfSeq, AppendProperties
<1>2. s \in [1 .. Len(items) -> Bytes]
  BY <1>1
<1>3. s \in Seq(Bytes) /\ Len(s) = Len(items) /\ \A k \in 1 .. Len(items) : s[k] = e[items[k]]
  <2>1. \A k \in 1 .. Len(items) : s[k] = e[items[k]]
    OBVIOUS
  <2> HIDE DEF s
  <2> QED  BY <1>1, <1>2, <2>1, ArrayIsString
<1>4. e[item] \in Bytes
  OBVIOUS
<1>5. t \in [1 .. Len(more) -> Bytes]
  <2>1. ASSUME NEW k \in 1 .. Len(more)
        PROVE  e[more[k]] \in Bytes
    <3>1. more[k] \in T
      <4>1. CASE k = Len(items) + 1
        BY <1>1, <4>1
      <4>2. CASE k # Len(items) + 1
        <5>1. k \in 1 .. Len(items)
          BY <1>1, <4>2
        <5> QED  BY <1>1, <5>1
      <4> QED  BY <4>1, <4>2
    <3> QED  BY <3>1
  <2> QED  BY <2>1
<1>6. \A k \in 1 .. Len(more) : t[k] = e[more[k]]
  OBVIOUS
<1> HIDE DEF s, t, more
<1>7. t \in Seq(Bytes) /\ Len(t) = Len(more)
  <2>1. Len(more) \in Nat
    BY <1>1
  <2> QED  BY <1>5, <2>1, ArrayIsString
<1>8. t = Append(s, e[item])
  <2>1. /\ Append(s, e[item]) \in Seq(Bytes) /\ Len(Append(s, e[item])) = Len(s) + 1
        /\ Append(s, e[item])[Len(s) + 1] = e[item]
        /\ \A k \in 1 .. Len(s) : Append(s, e[item])[k] = s[k]
    BY <1>3, <1>4, AppendProperties
  <2>2. ASSUME NEW k \in 1 .. Len(t)
        PROVE  t[k] = Append(s, e[item])[k]
    <3>1. CASE k = Len(items) + 1
      BY <1>1, <1>3, <1>6, <1>7, <2>1, <3>1
    <3>2. CASE k # Len(items) + 1
      <4>1. k \in 1 .. Len(items)
        BY <1>1, <1>7, <3>2
      <4> QED  BY <1>1, <1>3, <1>6, <1>7, <2>1, <4>1
    <3> QED  BY <3>1, <3>2
  <2> QED  BY <1>1, <1>3, <1>7, <2>1, <2>2, SeqEqual
<1>9. FlattenSeq(t) = FlattenSeq(s) \o e[item]
  BY <1>3, <1>4, <1>8, FlattenAppend DEF Bytes
<1> QED  BY <1>9 DEF Codes, s, t, more, ++

\* What reader d and code e say of each other, for items in T.
Reads(d, e, T) ==
  \A item \in T, t \in Bytes : d[e[item] ++ t] = Ok(item, t) /\ Len(e[item]) >= 1

Takes(d, e, T) ==
  \A r \in Bytes : d[r].ok =>
    \E item \in T, x, t \in Bytes :
      /\ Took(r, x, t)
      /\ d[r] = Ok(item, t)
      /\ \A u \in Bytes : d[x ++ u] = Ok(item, u)
      /\ UsizeWidth = 8 => x = e[item]

\* A prefix grows by one item.
LEMMA PrefixStep ==
  ASSUME NEW T, NEW s \in Seq(T), NEW k \in Nat, k < Len(s)
  PROVE  /\ SubSeq(s, 1, k) \in Seq(T) /\ s[k + 1] \in T
         /\ SubSeq(s, 1, k + 1) = Append(SubSeq(s, 1, k), s[k + 1])
<1>1. Len(s) \in Nat /\ k + 1 \in 1 .. Len(s) /\ k \in 0 .. Len(s)
  OBVIOUS
<1>2. s[k + 1] \in T
  BY <1>1, ElementOfSeq
<1> DEFINE p == SubSeq(s, 1, k)
           q == SubSeq(s, 1, k + 1)
<1>3. p \in Seq(T) /\ Len(p) = k /\ \A i \in 1 .. k : p[i] = s[i]
  BY <1>1
<1>4. q \in Seq(T) /\ Len(q) = k + 1 /\ \A i \in 1 .. k + 1 : q[i] = s[i]
  BY <1>1
<1> HIDE DEF p, q
<1>5. /\ Append(p, s[k + 1]) \in Seq(T) /\ Len(Append(p, s[k + 1])) = k + 1
      /\ Append(p, s[k + 1])[k + 1] = s[k + 1]
      /\ \A i \in 1 .. k : Append(p, s[k + 1])[i] = p[i]
  BY <1>2, <1>3, AppendProperties
<1>6. \A i \in 1 .. k + 1 : q[i] = Append(p, s[k + 1])[i]
  <2> TAKE i \in 1 .. k + 1
  <2>1. CASE i = k + 1
    BY <1>4, <1>5, <2>1
  <2>2. CASE i # k + 1
    <3>1. i \in 1 .. k
      BY <2>2
    <3> QED  BY <1>3, <1>4, <1>5, <3>1
  <2> QED  BY <2>1, <2>2
<1>7. q = Append(p, s[k + 1])
  <2> DEFINE a == Append(p, s[k + 1])
  <2> HIDE DEF a
  <2>1. a \in Seq(T) /\ Len(a) = k + 1 /\ \A i \in 1 .. k + 1 : q[i] = a[i]
    BY <1>5, <1>6 DEF a
  <2> QED  BY <1>4, <2>1, SeqEqual DEF a
<1> QED  BY <1>2, <1>3, <1>7 DEF p, q

\* A loop over the codes of items gets the items.
LEMMA LoopReads ==
  ASSUME NEW T, NEW d, NEW e \in [T -> Bytes], Reads(d, e, T),
         NEW items \in Seq(T), NEW t \in Bytes,
         NEW f, Looped(f, d, Codes(e, items) ++ t, Len(items))
  PROVE  f[Len(items)] = Ok(items, t) /\ Len(Codes(e, items)) >= Len(items)
<1> DEFINE n == Len(items)
           first(k) == SubSeq(items, 1, k)
           r == Codes(e, items) ++ t
           Right == {k \in Nat : k <= n =>
                       /\ Len(Codes(e, first(k))) >= k
                       /\ \A s \in Bytes : Codes(e, first(k)) ++ s = r => f[k] = Ok(first(k), s)}
<1>0. n \in Nat /\ first(0) = << >> /\ first(n) = items
  <2>1. n \in Nat /\ first(n) = items
    OBVIOUS
  <2>2. first(0) = << >>
    <3>1. 0 < 1 /\ 1 \in Int /\ 0 \in Int
      OBVIOUS
    <3> QED  BY <3>1, SubSeqEmpty
  <2> QED  BY <2>1, <2>2
<1> HIDE DEF r
<1>1. 0 \in Right
  <2>1. Codes(e, first(0)) = << >>
    BY <1>0, CodesEmpty
  <2>2. Len(<< >>) >= 0
    BY NoBytes
  <2>3. ASSUME NEW s \in Bytes, Codes(e, first(0)) ++ s = r
        PROVE  f[0] = Ok(first(0), s)
    <3>1. s = r
      BY <2>1, <2>3, NoBytes
    <3>2. f[0] = Ok(<< >>, r)
      BY DEF Looped, r
    <3> QED  BY <1>0, <3>1, <3>2
  <2> HIDE DEF first
  <2> QED  BY <2>1, <2>2, <2>3
<1>2. ASSUME NEW k \in Right
      PROVE  k + 1 \in Right
  <2>1. k \in Nat
    OBVIOUS
  <2> SUFFICES ASSUME k + 1 <= n
               PROVE  /\ Len(Codes(e, first(k + 1))) >= k + 1
                      /\ \A s \in Bytes : Codes(e, first(k + 1)) ++ s = r =>
                           f[k + 1] = Ok(first(k + 1), s)
    BY <2>1
  <2>2. /\ Len(Codes(e, first(k))) >= k
        /\ \A s \in Bytes : Codes(e, first(k)) ++ s = r => f[k] = Ok(first(k), s)
    BY <1>0, <2>1
  <2> DEFINE item == items[k + 1]
  <2>3. first(k) \in Seq(T) /\ item \in T /\ first(k + 1) = Append(first(k), item)
    <3>1. k < Len(items)
      BY <1>0, <2>1
    <3> QED  BY <2>1, <3>1, PrefixStep
  <2> HIDE DEF item, first
  <2>4. PICK a \in Bytes : a = Codes(e, first(k))
    BY <2>3, CodesType
  <2>5. PICK b \in Bytes : b = e[item] /\ Len(b) >= 1 /\ \A s \in Bytes : d[b ++ s] = Ok(item, s)
    BY <2>3, NoBytes DEF Reads
  <2>6. Codes(e, first(k + 1)) = a ++ b
    <3> DEFINE p == first(k)
    <3>1. p \in Seq(T)
      BY <2>3
    <3> HIDE DEF p
    <3>2. Codes(e, Append(p, item)) = Codes(e, p) ++ e[item]
      BY <2>3, <3>1, CodesAppend
    <3>3. Codes(e, first(k + 1)) = Codes(e, Append(p, item)) /\ Codes(e, p) = a
      BY <2>3, <2>4 DEF p
    <3> QED  BY <2>5, <3>2, <3>3
  <2>7. Len(a ++ b) >= k + 1
    <3>1. Len(a ++ b) = Len(a) + Len(b) /\ Len(a) \in Nat /\ Len(b) \in Nat
      BY Lengths
    <3> QED  BY <2>1, <2>2, <2>4, <2>5, <3>1
  <2>8. ASSUME NEW s \in Bytes, (a ++ b) ++ s = r
        PROVE  f[k + 1] = Ok(first(k + 1), s)
    <3>1. PICK v \in Bytes : v = b ++ s
      BY Closed
    <3>2. a ++ v = r
      BY <2>8, <3>1, Grouped
    <3>3. f[k] = Ok(first(k), v)
      BY <2>2, <2>4, <3>2
    <3>4. d[v] = Ok(item, s)
      BY <2>5, <3>1
    <3>5. f[k].ok /\ f[k].value = first(k) /\ f[k].rest = v
      BY <3>3, Results
    <3>6. d[v].ok /\ d[v].value = item /\ d[v].rest = s
      BY <3>4, Results
    <3>7. f[k + 1] = Turn(d, f[k])
      <4>1. k + 1 \in 1 .. n /\ (k + 1) - 1 = k
        BY <1>0, <2>1
      <4> QED  BY <4>1 DEF Looped
    <3> QED  BY <2>3, <3>5, <3>6, <3>7 DEF Turn
  <2> QED  BY <2>6, <2>7, <2>8
<1>3. Right = Nat
  <2> HIDE DEF Right
  <2>1. Right \in SUBSET Nat
    BY DEF Right
  <2> QED  BY <1>1, <1>2, <2>1, SetInduction
<1>4. /\ Len(Codes(e, first(n))) >= n
      /\ \A s \in Bytes : Codes(e, first(n)) ++ s = r => f[n] = Ok(first(n), s)
  <2> HIDE DEF n, first
  <2>1. n \in Right /\ n <= n
    BY <1>0, <1>3
  <2> QED  BY <2>1
<1> QED  BY <1>0, <1>4 DEF r

\* What a loop gets, it gets from any string that begins with what it took.
TookItems(f, d, e, T, r, n, k) ==
  \E items \in Seq(T), x, t \in Bytes :
    /\ Len(items) = k
    /\ r = x ++ t /\ Len(x) >= k
    /\ f[k] = Ok(items, t)
    /\ \A u \in Bytes : \A g : Looped(g, d, x ++ u, n) => g[k] = Ok(items, u)
    /\ UsizeWidth = 8 => x = Codes(e, items)

\* A loop that succeeds took n items from the beginning of the string, and takes
\* them from every string that begins so.
LEMMA LoopTook ==
  ASSUME NEW T, NEW d, NEW e \in [T -> Bytes], Takes(d, e, T),
         NEW r \in Bytes, NEW n \in Nat, NEW f, Looped(f, d, r, n), f[n].ok
  PROVE  TookItems(f, d, e, T, r, n, n)
<1> DEFINE Right == {k \in Nat : k <= n => (f[k].ok => TookItems(f, d, e, T, r, n, k))}
<1>1. 0 \in Right
  <2>1. f[0] = Ok(<< >>, r)
    BY DEF Looped
  <2>2. << >> \in Seq(T) /\ Len(<< >>) = 0 /\ << >> \in Bytes /\ << >> ++ r = r /\ 0 >= 0
    BY EmptySeq, NoBytes
  <2>3. ASSUME NEW u \in Bytes, NEW g, Looped(g, d, << >> ++ u, n)
        PROVE  g[0] = Ok(<< >>, u)
    <3>1. << >> ++ u = u
      BY NoBytes
    <3> QED  BY <2>3, <3>1 DEF Looped
  <2>4. Codes(e, << >>) = << >>
    BY CodesEmpty
  <2>5. TookItems(f, d, e, T, r, n, 0)
    BY <2>1, <2>2, <2>3, <2>4 DEF TookItems
  <2> QED  BY <2>5
<1>2. ASSUME NEW k \in Right
      PROVE  k + 1 \in Right
  <2>1. k \in Nat
    OBVIOUS
  <2> SUFFICES ASSUME k + 1 <= n, f[k + 1].ok
               PROVE  TookItems(f, d, e, T, r, n, k + 1)
    BY <2>1
  <2>0. k + 1 \in 1 .. n /\ (k + 1) - 1 = k /\ k <= n
    BY <2>1
  <2>2. \A g, s : Looped(g, d, s, n) => g[k + 1] = Turn(d, g[k])
    BY <2>0 DEF Looped
  <2>3. f[k + 1] = Turn(d, f[k])
    BY <2>2
  <2>4. f[k].ok /\ d[f[k].rest].ok
    BY <2>3, Results DEF Turn
  <2>5. TookItems(f, d, e, T, r, n, k)
    BY <2>0, <2>4
  <2>6. PICK items \in Seq(T), x \in Bytes, s \in Bytes :
          /\ Len(items) = k
          /\ r = x ++ s /\ Len(x) >= k
          /\ f[k] = Ok(items, s)
          /\ \A u \in Bytes : \A g : Looped(g, d, x ++ u, n) => g[k] = Ok(items, u)
          /\ UsizeWidth = 8 => x = Codes(e, items)
    BY <2>5 DEF TookItems
  <2>7. f[k].rest = s
    BY <2>6, Results
  <2>8. PICK item \in T, y \in Bytes, t \in Bytes :
          /\ Took(s, y, t)
          /\ d[s] = Ok(item, t)
          /\ \A u \in Bytes : d[y ++ u] = Ok(item, u)
          /\ UsizeWidth = 8 => y = e[item]
    BY <2>4, <2>7 DEF Takes
  <2>9. s = y ++ t /\ Len(y) >= 1
    BY <2>8 DEF Took
  <2>10. \A g, v, w : g[k] = Ok(items, v) /\ d[v] = Ok(item, w) =>
                       Turn(d, g[k]) = Ok(Append(items, item), w)
    <3> TAKE g, v, w
    <3> HAVE g[k] = Ok(items, v) /\ d[v] = Ok(item, w)
    <3>1. /\ g[k].ok /\ g[k].value = items /\ g[k].rest = v
          /\ d[v].ok /\ d[v].value = item /\ d[v].rest = w
      BY Results
    <3> QED  BY <3>1 DEF Turn
  <2> DEFINE more == Append(items, item)
  <2>11. more \in Seq(T) /\ Len(more) = k + 1
    BY <2>6, AppendProperties
  <2>12. PICK z \in Bytes : z = x ++ y
    BY Closed
  <2>13. Len(z) >= k + 1
    <3>1. Len(x ++ y) = Len(x) + Len(y) /\ Len(x) \in Nat /\ Len(y) \in Nat
      BY Lengths
    <3> QED  BY <2>1, <2>6, <2>9, <2>12, <3>1
  <2>14. \A u \in Bytes : z ++ u = x ++ (y ++ u)
    BY <2>12, Grouped
  <2>15. r = z ++ t
    BY <2>6, <2>9, <2>14
  <2>16. f[k + 1] = Ok(more, t)
    BY <2>3, <2>6, <2>8, <2>10
  <2>17. ASSUME NEW u \in Bytes, NEW g, Looped(g, d, z ++ u, n)
         PROVE  g[k + 1] = Ok(more, u)
    <3>1. PICK v \in Bytes : v = y ++ u
      BY Closed
    <3>2. Looped(g, d, x ++ v, n)
      BY <2>14, <2>17, <3>1
    <3>3. g[k] = Ok(items, v)
      BY <2>6, <3>2
    <3>4. d[v] = Ok(item, u)
      BY <2>8, <3>1
    <3>5. g[k + 1] = Turn(d, g[k])
      BY <2>2, <2>17
    <3> QED  BY <2>10, <3>3, <3>4, <3>5
  <2>18. UsizeWidth = 8 => z = Codes(e, more)
    BY <2>6, <2>8, <2>12, CodesAppend
  <2> HIDE DEF more
  <2> QED  BY <2>11, <2>13, <2>15, <2>16, <2>17, <2>18 DEF TookItems
<1>3. Right = Nat
  <2> HIDE DEF Right
  <2>1. Right \in SUBSET Nat
    BY DEF Right
  <2> QED  BY <1>1, <1>2, <2>1, SetInduction
<1>4. n \in Right /\ n <= n
  <2> HIDE DEF Right
  <2> QED  BY <1>3
<1> QED  BY <1>4

-----------------------------------------------------------------------------
(* Vectors.                                                                *)

ItemReader(type) == [s \in Bytes |-> DecodeItem(type, s)]
ItemCode(type, T) == [item \in T |-> EncodeItem(type, item)]

\* Whatever can arrive has an encoding.
LEMMA GotEncodes ==
  ASSUME NEW type \in Types, NEW item \in Got(type)
  PROVE  EncodeItem(type, item) \in Bytes
<1>1. CASE type = "TxIn"
  <2>1. item \in Inputs(Data) /\ EncodeItem(type, item) = EncodeTxIn(item)
    BY <1>1 DEF Got, EncodeItem
  <2>2. PICK id \in Txids, vout \in Byte, script \in Data, sequence \in Byte :
          item = TxIn(id, vout, script, sequence, << >>)
    BY <2>1 DEF Inputs
  <2>3. PICK a \in Bytes : a = EncodeTxid(id)
    BY NoBytes, TxidReads
  <2>4. PICK b \in Bytes : b = <<vout>> /\ Len(b) >= 1
    <3>1. 1 >= 1
      OBVIOUS
    <3> QED  BY <3>1, OneByte
  <2>5. PICK c \in Bytes : c = EncodeBytes(script)
    BY NoBytes, BytesRead
  <2>6. PICK d \in Bytes : d = <<sequence>>
    BY OneByte
  <2>7. EncodeTxIn(item) = ((a ++ b) ++ c) ++ d
    BY <2>2, <2>3, <2>4, <2>5, <2>6, TxInBytes
  <2> QED  BY <2>1, <2>4, <2>7, FourClosed
<1>2. CASE type # "TxIn"
  <2>1. item \in Sent(type)
    BY <1>2 DEF Types, Got, Sent
  <2> QED  BY <2>1, NoBytes, ItemReads
<1> QED  BY <1>1, <1>2

\* A decoder that fails returns nothing else.
LEMMA Failures ==
  \A r : /\ ~ReadExact(r, 1).ok => ReadExact(r, 1) = Err
         /\ ~DecodeBytes(r).ok => DecodeBytes(r) = Err
         /\ ~DecodeTxIn(r).ok => DecodeTxIn(r) = Err
         /\ ~DecodeTxOut(r).ok => DecodeTxOut(r) = Err
<1> TAKE r
<1>1. \A s, n : ~ReadExact(s, n).ok => ReadExact(s, n) = Err
  BY Results DEF ReadExact
<1>2. ~DecodeBytes(r).ok => DecodeBytes(r) = Err
  BY <1>1, Results DEF DecodeBytes, Then
<1>3. ~DecodeTxIn(r).ok => DecodeTxIn(r) = Err
  BY Results DEF DecodeTxIn, Then
<1>4. ~DecodeTxOut(r).ok => DecodeTxOut(r) = Err
  BY Results DEF DecodeTxOut, Then
<1> QED  BY <1>1, <1>2, <1>3, <1>4

\* The decoder of items is a reader.
LEMMA ItemReaderType ==
  ASSUME NEW type \in Types
  PROVE  ItemReader(type) \in [Bytes -> Read(Got(type))]
<1> SUFFICES ASSUME NEW s \in Bytes
             PROVE  DecodeItem(type, s) \in Read(Got(type))
  BY DEF ItemReader
<1>1. CASE DecodeItem(type, s).ok
  <2>1. \E item \in Got(type), t \in Bytes : DecodeItem(type, s) = Ok(item, t)
    BY <1>1, ItemTook
  <2> QED  BY <2>1, IsRead
<1>2. CASE ~DecodeItem(type, s).ok
  <2>1. DecodeItem(type, s) = Err
    BY <1>2, Failures DEF Types, DecodeItem
  <2> QED  BY <2>1 DEF Read
<1> QED  BY <1>1, <1>2

\* A turn of the decoder's loop is a turn of the loop above.
LEMMA PushIsTurn ==
  ASSUME NEW type \in Types, NEW v \in Read(Seq(Got(type)))
  PROVE  PushItem(type, v) = Turn(ItemReader(type), v)
<1>1. CASE ~v.ok
  BY <1>1, Zenon DEF PushItem, Then, Turn
<1>2. CASE v.ok
  <2>1. v.rest \in Bytes
    BY <1>2, ReadForms, Results
  <2>2. ItemReader(type)[v.rest] = DecodeItem(type, v.rest)
    BY <2>1 DEF ItemReader
  <2> QED  BY <1>2, <2>2, Zenon DEF PushItem, Then, Turn
<1> QED  BY <1>1, <1>2

\* DecodeItems is such a loop.
LEMMA ItemsLoop ==
  ASSUME NEW type \in Types, NEW r \in Bytes, NEW n \in Nat
  PROVE  /\ \E g : Looped(g, ItemReader(type), r, n) /\ DecodeItems(type, r, n) = g[n]
         /\ DecodeItems(type, r, n) \in Read(Seq(Got(type)))
<1> DEFINE d == ItemReader(type)
           F(f) == [k \in 0 .. n |-> IF k = 0 THEN Ok(<< >>, r) ELSE PushItem(type, f[k - 1])]
           g == CHOOSE f : f = F(f)
<1>1. d \in [Bytes -> Read(Got(type))]
  BY ItemReaderType
<1>2. PICK f \in [0 .. n -> Read(Seq(Got(type)))] : Looped(f, d, r, n)
  <2> HIDE DEF d
  <2> QED  BY <1>1, LoopExists
<1>3. f = F(f)
  <2>1. f = [k \in 0 .. n |-> f[k]]
    OBVIOUS
  <2>2. \A k \in 0 .. n : f[k] = IF k = 0 THEN Ok(<< >>, r) ELSE PushItem(type, f[k - 1])
    <3> TAKE k \in 0 .. n
    <3>1. CASE k = 0
      BY <1>2, <3>1 DEF Looped
    <3>2. CASE k # 0
      <4>1. k \in 1 .. n /\ k - 1 \in 0 .. n
        BY <3>2
      <4>2. f[k] = Turn(d, f[k - 1])
        BY <1>2, <4>1 DEF Looped
      <4>3. f[k - 1] \in Read(Seq(Got(type)))
        BY <4>1
      <4> QED  BY <3>2, <4>2, <4>3, PushIsTurn
    <3> QED  BY <3>1, <3>2
  <2> QED  BY <2>1, <2>2, Zenon
<1>4. g = F(g)
  BY <1>3, Zenon
<1>5. DecodeItems(type, r, n) = g[n]
  BY Zenon DEF DecodeItems
<1> HIDE DEF g
<1>6. g[0] = Ok(<< >>, r)
  BY <1>4
<1>7. ASSUME NEW k \in 1 .. n, NEW v \in Read(Seq(Got(type))), g[k - 1] = v
      PROVE  g[k] = Turn(d, v)
  <2>1. k \in 0 .. n /\ k # 0
    OBVIOUS
  <2>2. g[k] = PushItem(type, g[k - 1])
    BY <1>4, <2>1
  <2> QED  BY <1>7, <2>2, PushIsTurn
<1>8. Looped(g, d, r, n) /\ g[n] \in Read(Seq(Got(type)))
  <2> HIDE DEF d
  <2>1. n \in 0 .. n
    OBVIOUS
  <2> QED  BY <1>1, <1>6, <1>7, <2>1, LoopIs
<1> QED  BY <1>5, <1>8

\* Decoder and encoder of items say of each other what a loop needs.
LEMMA ItemsReadAndTook ==
  ASSUME NEW type \in Types
  PROVE  /\ Reads(ItemReader(type), ItemCode(type, Sent(type)), Sent(type))
         /\ Takes(ItemReader(type), ItemCode(type, Got(type)), Got(type))
         /\ ItemCode(type, Sent(type)) \in [Sent(type) -> Bytes]
         /\ ItemCode(type, Got(type)) \in [Got(type) -> Bytes]
<1>1. ASSUME NEW item \in Sent(type), NEW t \in Bytes
      PROVE  /\ ItemReader(type)[ItemCode(type, Sent(type))[item] ++ t] = Ok(item, t)
             /\ Len(ItemCode(type, Sent(type))[item]) >= 1
  <2>1. ItemCode(type, Sent(type))[item] = EncodeItem(type, item)
    BY DEF ItemCode
  <2>2. EncodeItem(type, item) \in Bytes
    BY NoBytes, ItemReads
  <2>3. EncodeItem(type, item) ++ t \in Bytes
    BY <2>2, Closed
  <2>4. ItemReader(type)[EncodeItem(type, item) ++ t] = DecodeItem(type, EncodeItem(type, item) ++ t)
    BY <2>3 DEF ItemReader
  <2> QED  BY <2>1, <2>4, ItemReads
<1>2. ASSUME NEW r \in Bytes, ItemReader(type)[r].ok
      PROVE  \E item \in Got(type), x, t \in Bytes :
               /\ Took(r, x, t)
               /\ ItemReader(type)[r] = Ok(item, t)
               /\ \A u \in Bytes : ItemReader(type)[x ++ u] = Ok(item, u)
               /\ UsizeWidth = 8 => x = ItemCode(type, Got(type))[item]
  <2>1. \A s \in Bytes : ItemReader(type)[s] = DecodeItem(type, s)
    BY DEF ItemReader
  <2>2. PICK item \in Got(type), x \in Bytes, t \in Bytes :
           /\ Took(r, x, t)
           /\ DecodeItem(type, r) = Ok(item, t)
           /\ \A u \in Bytes : DecodeItem(type, x ++ u) = Ok(item, u)
           /\ UsizeWidth = 8 => x = EncodeItem(type, item)
    BY <1>2, <2>1, ItemTook
  <2>3. \A u \in Bytes : ItemReader(type)[x ++ u] = Ok(item, u)
    BY <2>1, <2>2, Closed
  <2>4. ItemCode(type, Got(type))[item] = EncodeItem(type, item)
    BY DEF ItemCode
  <2> QED  BY <2>1, <2>2, <2>3, <2>4
<1>3. ItemCode(type, Got(type)) \in [Got(type) -> Bytes]
  BY GotEncodes DEF ItemCode
<1>4. ItemCode(type, Sent(type)) \in [Sent(type) -> Bytes]
  BY SentIsGot, GotEncodes DEF ItemCode
<1> QED  BY <1>1, <1>2, <1>3, <1>4 DEF Reads, Takes

\* A vector is written as its length and the codes of its items.
LEMMA VecIsCodes ==
  ASSUME NEW type, NEW T, NEW items \in Seq(T)
  PROVE  EncodeVec(type, items) = EncodeVarInt(Len(items)) ++ Codes(ItemCode(type, T), items)
<1>1. \A k \in 1 .. Len(items) : ItemCode(type, T)[items[k]] = EncodeItem(type, items[k])
  BY ElementOfSeq DEF ItemCode
<1>2. [k \in 1 .. Len(items) |-> ItemCode(type, T)[items[k]]]
        = [k \in 1 .. Len(items) |-> EncodeItem(type, items[k])]
  BY <1>1, Zenon
<1> QED  BY <1>2 DEF EncodeVec, Codes, ++

\* What the decoder does behind the count.
LEMMA VecAt ==
  ASSUME NEW type, NEW r, NEW n, NEW s, DecodeVarInt(r) = Ok(n, s)
  PROVE  DecodeVec(type, r) = IF n > Len(s) THEN Err ELSE DecodeItems(type, s, n)
<1>1. DecodeVarInt(r).ok /\ DecodeVarInt(r).value = n /\ DecodeVarInt(r).rest = s
  BY Results
<1> QED  BY <1>1, Zenon DEF DecodeVec, Then

\* A vector reads back, for every length that a VarInt can say.
LEMMA VecReads ==
  ASSUME NEW type \in Types, NEW items \in Seq(Sent(type)), Len(items) \in VarInts,
         NEW t \in Bytes
  PROVE  /\ EncodeVec(type, items) \in Bytes /\ Len(EncodeVec(type, items)) >= 1
         /\ DecodeVec(type, EncodeVec(type, items) ++ t) = Ok(items, t)
<1> DEFINE e == ItemCode(type, Sent(type))
           d == ItemReader(type)
           n == Len(items)
<1>1. e \in [Sent(type) -> Bytes] /\ Reads(d, e, Sent(type))
  BY ItemsReadAndTook
<1>2. EncodeVec(type, items) = EncodeVarInt(n) ++ Codes(e, items)
  BY VecIsCodes
<1>3. n \in Nat
  OBVIOUS
<1> HIDE DEF e, d
<1>4. PICK b \in Bytes : b = Codes(e, items)
  BY <1>1, CodesType
<1>5. PICK a \in Bytes : /\ a = EncodeVarInt(n) /\ Len(a) >= 1
                        /\ \A u \in Bytes : DecodeVarInt(a ++ u) = Ok(n, u)
  <2>1. EncodeVarInt(n) \in Bytes /\ Len(EncodeVarInt(n)) >= 1
    BY NoBytes, VarIntReads
  <2> QED  BY <2>1, VarIntReads
<1>6. PICK s \in Bytes : s = b ++ t
  BY Closed
<1>7. (a ++ b) ++ t = a ++ s
  BY <1>6, Grouped
<1>8. PICK g : Looped(g, d, s, n) /\ DecodeItems(type, s, n) = g[n]
  <2> HIDE DEF n
  <2> QED  BY <1>3, ItemsLoop DEF d
<1>9. g[n] = Ok(items, t) /\ Len(b) >= n
  BY <1>1, <1>4, <1>6, <1>8, LoopReads
<1>10. ~ (n > Len(s))
  <2>1. Len(b ++ t) = Len(b) + Len(t) /\ Len(b) \in Nat /\ Len(t) \in Nat
    BY Lengths
  <2> HIDE DEF n
  <2> QED  BY <1>3, <1>6, <1>9, <2>1
<1>11. DecodeVec(type, a ++ s) = DecodeItems(type, s, n)
  BY <1>5, <1>10, VecAt
<1>12. a ++ b \in Bytes
  BY Closed
<1>13. Len(a ++ b) >= 1
  <2>1. Len(a ++ b) = Len(a) + Len(b) /\ Len(a) \in Nat /\ Len(b) \in Nat
    BY Lengths
  <2> QED  BY <1>5, <2>1
<1> QED  BY <1>2, <1>4, <1>5, <1>7, <1>8, <1>9, <1>11, <1>12, <1>13

\* What reads as a vector is taken without regard to what follows.
LEMMA VecTook ==
  ASSUME NEW type \in Types, NEW r \in Bytes, DecodeVec(type, r).ok
  PROVE  \E items \in Seq(Got(type)), x, t \in Bytes :
           /\ Took(r, x, t)
           /\ Len(items) \in VarInts
           /\ DecodeVec(type, r) = Ok(items, t)
           /\ \A u \in Bytes : DecodeVec(type, x ++ u) = Ok(items, u)
           /\ UsizeWidth = 8 => x = EncodeVec(type, items)
<1> DEFINE e == ItemCode(type, Got(type))
           d == ItemReader(type)
<1>1. e \in [Got(type) -> Bytes] /\ Takes(d, e, Got(type))
  BY ItemsReadAndTook
<1>2. DecodeVarInt(r).ok
  BY Results DEF DecodeVec, Then
<1>3. PICK n \in VarInts, s \in Bytes : r = EncodeVarInt(n) ++ s /\ DecodeVarInt(r) = Ok(n, s)
  BY <1>2, VarIntTook
<1>4. n \in Nat
  BY DEF VarInts
<1>5. DecodeVec(type, r) = IF n > Len(s) THEN Err ELSE DecodeItems(type, s, n)
  BY <1>3, VecAt
<1>6. DecodeVec(type, r) = DecodeItems(type, s, n)
  BY <1>5, Results
<1> HIDE DEF e
<1>7. PICK f : Looped(f, d, s, n) /\ DecodeItems(type, s, n) = f[n]
  BY <1>4, ItemsLoop
<1>8. TookItems(f, d, e, Got(type), s, n, n)
  <2> HIDE DEF d
  <2>1. f[n].ok
    BY <1>6, <1>7
  <2> QED  BY <1>1, <1>4, <1>7, <2>1, LoopTook
<1>9. PICK items \in Seq(Got(type)), y \in Bytes, t \in Bytes :
        /\ Len(items) = n
        /\ s = y ++ t /\ Len(y) >= n
        /\ f[n] = Ok(items, t)
        /\ \A u \in Bytes : \A g : Looped(g, d, y ++ u, n) => g[n] = Ok(items, u)
        /\ UsizeWidth = 8 => y = Codes(e, items)
  <2> HIDE DEF d
  <2> QED  BY <1>8 DEF TookItems
<1>10. PICK a \in Bytes : /\ a = EncodeVarInt(n) /\ Len(a) >= 1
                        /\ \A u \in Bytes : DecodeVarInt(a ++ u) = Ok(n, u)
  <2>1. EncodeVarInt(n) \in Bytes /\ Len(EncodeVarInt(n)) >= 1
    BY NoBytes, VarIntReads
  <2> QED  BY <2>1, VarIntReads
<1>11. PICK x \in Bytes : x = a ++ y
  BY Closed
<1>12. Len(x) >= 1
  <2>1. Len(a ++ y) = Len(a) + Len(y) /\ Len(a) \in Nat /\ Len(y) \in Nat
    BY Lengths
  <2> QED  BY <1>10, <1>11, <2>1
<1>13. \A u \in Bytes : x ++ u = a ++ (y ++ u)
  BY <1>11, Grouped
<1>14. r = x ++ t
  BY <1>3, <1>9, <1>10, <1>13
<1>15. ASSUME NEW u \in Bytes
       PROVE  DecodeVec(type, x ++ u) = Ok(items, u)
  <2>1. PICK v \in Bytes : v = y ++ u
    BY Closed
  <2>2. DecodeVarInt(a ++ v) = Ok(n, v)
    BY <1>10
  <2>3. ~ (n > Len(v))
    <3>1. Len(y ++ u) = Len(y) + Len(u) /\ Len(y) \in Nat /\ Len(u) \in Nat
      BY Lengths
    <3> QED  BY <1>4, <1>9, <2>1, <3>1
  <2>4. DecodeVec(type, a ++ v) = DecodeItems(type, v, n)
    BY <2>2, <2>3, VecAt
  <2>5. PICK g : Looped(g, d, v, n) /\ DecodeItems(type, v, n) = g[n]
    BY <1>4, ItemsLoop
  <2>6. g[n] = Ok(items, u)
    <3> HIDE DEF d
    <3> QED  BY <1>9, <2>1, <2>5
  <2> QED  BY <1>13, <2>1, <2>4, <2>5, <2>6
<1>16. UsizeWidth = 8 => x = EncodeVec(type, items)
  BY <1>9, <1>10, <1>11, VecIsCodes DEF e
<1>17. Took(r, x, t)
  BY <1>12, <1>14 DEF Took
<1>18. DecodeVec(type, r) = Ok(items, t)
  BY <1>6, <1>7, <1>9
<1> HIDE DEF d
<1> QED  BY <1>9, <1>15, <1>16, <1>17, <1>18

\* A vector that cannot be read is an error.
LEMMA VecFails ==
  ASSUME NEW type \in Types, NEW r \in Bytes, ~DecodeVec(type, r).ok
  PROVE  DecodeVec(type, r) = Err
<1>1. CASE ~DecodeVarInt(r).ok
  BY <1>1, Zenon DEF DecodeVec, Then
<1>2. CASE DecodeVarInt(r).ok
  <2>1. PICK n \in VarInts, s \in Bytes : DecodeVarInt(r) = Ok(n, s)
    BY <1>2, VarIntTook
  <2>2. DecodeVec(type, r) = IF n > Len(s) THEN Err ELSE DecodeItems(type, s, n)
    BY <2>1, VecAt
  <2>3. n \in Nat
    BY DEF VarInts
  <2>4. DecodeItems(type, s, n) \in Read(Seq(Got(type)))
    BY <2>3, ItemsLoop
  <2> QED  BY <2>2, <2>4, ReadForms
<1> QED  BY <1>1, <1>2

-----------------------------------------------------------------------------
(* Witnesses.                                                              *)

WitnessReader == [s \in Bytes |-> DecodeVec("bytes", s)]
WitnessCode == [w \in Witnesses |-> EncodeVec("bytes", w)]

\* A witness reads back.
LEMMA WitnessReads ==
  ASSUME NEW w \in Witnesses, NEW t \in Bytes
  PROVE  /\ EncodeVec("bytes", w) \in Bytes /\ Len(EncodeVec("bytes", w)) >= 1
         /\ DecodeVec("bytes", EncodeVec("bytes", w) ++ t) = Ok(w, t)
<1>1. "bytes" \in Types /\ w \in Seq(Sent("bytes")) /\ Len(w) \in VarInts
  BY DEF Types, Sent, Witnesses
<1> QED  BY <1>1, VecReads

\* What reads as a witness is taken without regard to what follows.
LEMMA WitnessTook ==
  ASSUME NEW r \in Bytes, DecodeVec("bytes", r).ok
  PROVE  \E w \in Witnesses, x, t \in Bytes :
           /\ Took(r, x, t)
           /\ DecodeVec("bytes", r) = Ok(w, t)
           /\ \A u \in Bytes : DecodeVec("bytes", x ++ u) = Ok(w, u)
           /\ UsizeWidth = 8 => x = EncodeVec("bytes", w)
<1>1. "bytes" \in Types /\ Got("bytes") = Data
  BY DEF Types, Got
<1>2. PICK w \in Seq(Data), x \in Bytes, t \in Bytes :
           /\ Took(r, x, t)
           /\ Len(w) \in VarInts
           /\ DecodeVec("bytes", r) = Ok(w, t)
           /\ \A u \in Bytes : DecodeVec("bytes", x ++ u) = Ok(w, u)
           /\ UsizeWidth = 8 => x = EncodeVec("bytes", w)
  BY <1>1, VecTook
<1>3. w \in Witnesses
  BY <1>2 DEF Witnesses
<1> QED  BY <1>2, <1>3

\* The decoder of witnesses is a reader.
LEMMA WitnessReaderType == WitnessReader \in [Bytes -> Read(Witnesses)]
<1> SUFFICES ASSUME NEW s \in Bytes
             PROVE  DecodeVec("bytes", s) \in Read(Witnesses)
  BY DEF WitnessReader
<1>1. CASE DecodeVec("bytes", s).ok
  <2>1. \E w \in Witnesses, t \in Bytes : DecodeVec("bytes", s) = Ok(w, t)
    BY <1>1, WitnessTook
  <2> QED  BY <2>1, IsRead
<1>2. CASE ~DecodeVec("bytes", s).ok
  <2>1. "bytes" \in Types
    BY DEF Types
  <2>2. DecodeVec("bytes", s) = Err
    BY <1>2, <2>1, VecFails
  <2> QED  BY <2>2 DEF Read
<1> QED  BY <1>1, <1>2

\* Decoder and encoder of witnesses say of each other what a loop needs.
LEMMA WitnessesReadAndTook ==
  /\ Reads(WitnessReader, WitnessCode, Witnesses)
  /\ Takes(WitnessReader, WitnessCode, Witnesses)
  /\ WitnessCode \in [Witnesses -> Bytes]
<1>1. ASSUME NEW w \in Witnesses, NEW t \in Bytes
      PROVE  WitnessReader[WitnessCode[w] ++ t] = Ok(w, t) /\ Len(WitnessCode[w]) >= 1
  <2>1. WitnessCode[w] = EncodeVec("bytes", w)
    BY DEF WitnessCode
  <2>2. EncodeVec("bytes", w) \in Bytes
    BY NoBytes, WitnessReads
  <2>3. EncodeVec("bytes", w) ++ t \in Bytes
    BY <2>2, Closed
  <2>4. WitnessReader[EncodeVec("bytes", w) ++ t] = DecodeVec("bytes", EncodeVec("bytes", w) ++ t)
    BY <2>3 DEF WitnessReader
  <2> QED  BY <2>1, <2>4, WitnessReads
<1>2. ASSUME NEW r \in Bytes, WitnessReader[r].ok
      PROVE  \E w \in Witnesses, x, t \in Bytes :
               /\ Took(r, x, t)
               /\ WitnessReader[r] = Ok(w, t)
               /\ \A u \in Bytes : WitnessReader[x ++ u] = Ok(w, u)
               /\ UsizeWidth = 8 => x = WitnessCode[w]
  <2>1. \A s \in Bytes : WitnessReader[s] = DecodeVec("bytes", s)
    BY DEF WitnessReader
  <2>2. PICK w \in Witnesses, x \in Bytes, t \in Bytes :
           /\ Took(r, x, t)
           /\ DecodeVec("bytes", r) = Ok(w, t)
           /\ \A u \in Bytes : DecodeVec("bytes", x ++ u) = Ok(w, u)
           /\ UsizeWidth = 8 => x = EncodeVec("bytes", w)
    BY <1>2, <2>1, WitnessTook
  <2>3. \A u \in Bytes : WitnessReader[x ++ u] = Ok(w, u)
    BY <2>1, <2>2, Closed
  <2>4. WitnessCode[w] = EncodeVec("bytes", w)
    BY DEF WitnessCode
  <2> QED  BY <2>1, <2>2, <2>3, <2>4
<1>3. WitnessCode \in [Witnesses -> Bytes]
  BY NoBytes, WitnessReads DEF WitnessCode
<1> QED  BY <1>1, <1>2, <1>3 DEF Reads, Takes

\* A turn of the loop over the inputs is a turn of the loop above.
LEMMA PushWitnessIsTurn ==
  ASSUME NEW v \in Read(Seq(Witnesses))
  PROVE  PushWitness(v) = Turn(WitnessReader, v)
<1>1. CASE ~v.ok
  BY <1>1, Zenon DEF PushWitness, Then, Turn
<1>2. CASE v.ok
  <2>1. v.rest \in Bytes
    BY <1>2, ReadForms, Results
  <2>2. WitnessReader[v.rest] = DecodeVec("bytes", v.rest)
    BY <2>1 DEF WitnessReader
  <2> QED  BY <1>2, <2>2, Zenon DEF PushWitness, Then, Turn
<1> QED  BY <1>1, <1>2

\* DecodeWitnesses is such a loop.
LEMMA WitnessesLoop ==
  ASSUME NEW r \in Bytes, NEW n \in Nat
  PROVE  \E g : Looped(g, WitnessReader, r, n) /\ DecodeWitnesses(r, n) = g[n]
<1> DEFINE d == WitnessReader
           F(f) == [k \in 0 .. n |-> IF k = 0 THEN Ok(<< >>, r) ELSE PushWitness(f[k - 1])]
           g == CHOOSE f : f = F(f)
<1>1. d \in [Bytes -> Read(Witnesses)]
  BY WitnessReaderType
<1>2. PICK f \in [0 .. n -> Read(Seq(Witnesses))] : Looped(f, d, r, n)
  <2> HIDE DEF d
  <2> QED  BY <1>1, LoopExists
<1>3. f = F(f)
  <2>1. f = [k \in 0 .. n |-> f[k]]
    OBVIOUS
  <2>2. \A k \in 0 .. n : f[k] = IF k = 0 THEN Ok(<< >>, r) ELSE PushWitness(f[k - 1])
    <3> TAKE k \in 0 .. n
    <3>1. CASE k = 0
      BY <1>2, <3>1 DEF Looped
    <3>2. CASE k # 0
      <4>1. k \in 1 .. n /\ k - 1 \in 0 .. n
        BY <3>2
      <4>2. f[k] = Turn(d, f[k - 1])
        BY <1>2, <4>1 DEF Looped
      <4>3. f[k - 1] \in Read(Seq(Witnesses))
        BY <4>1
      <4> QED  BY <3>2, <4>2, <4>3, PushWitnessIsTurn
    <3> QED  BY <3>1, <3>2
  <2> QED  BY <2>1, <2>2, Zenon
<1>4. g = F(g)
  BY <1>3, Zenon
<1>5. DecodeWitnesses(r, n) = g[n]
  BY Zenon DEF DecodeWitnesses
<1> HIDE DEF g
<1>6. g[0] = Ok(<< >>, r)
  BY <1>4
<1>7. ASSUME NEW k \in 1 .. n, NEW v \in Read(Seq(Witnesses)), g[k - 1] = v
      PROVE  g[k] = Turn(d, v)
  <2>1. k \in 0 .. n /\ k # 0
    OBVIOUS
  <2>2. g[k] = PushWitness(g[k - 1])
    BY <1>4, <2>1
  <2> QED  BY <1>7, <2>2, PushWitnessIsTurn
<1>8. Looped(g, d, r, n)
  <2> HIDE DEF d
  <2> QED  BY <1>1, <1>6, <1>7, LoopIs
<1> QED  BY <1>5, <1>8

\* The inputs with their witnesses, and without.
Filled(input, ws) == [j \in DOMAIN input |-> [input[j] EXCEPT !.witness = ws[j]]]

\* The marker says that there are witnesses.
Worthwhile(input, ws) == input # << >> => \E j \in DOMAIN input : ws[j] # << >>

\* What the reader does behind the outputs.
LEMMA WitnessesAt ==
  ASSUME NEW input, NEW r, NEW ws, NEW t, DecodeWitnesses(r, Len(input)) = Ok(ws, t)
  PROVE  ReadWitnesses(input, r) = IF Worthwhile(input, ws) THEN Ok(Filled(input, ws), t) ELSE Err
<1>1. /\ DecodeWitnesses(r, Len(input)).ok /\ DecodeWitnesses(r, Len(input)).value = ws
      /\ DecodeWitnesses(r, Len(input)).rest = t
  BY Results
<1>2. ReadWitnesses(input, r)
        = IF input # << >> /\ \A j \in DOMAIN input : ws[j] = << >> THEN Err
          ELSE Ok([j \in DOMAIN input |-> [input[j] EXCEPT !.witness = ws[j]]], t)
  BY <1>1, Zenon DEF ReadWitnesses, Then
<1> QED  BY <1>2, Zenon DEF Worthwhile, Filled

\* The witnesses of all inputs read back, unless every one is empty.
LEMMA AllWitnessesRead ==
  ASSUME NEW input, NEW ws \in Seq(Witnesses), Len(ws) = Len(input), Worthwhile(input, ws),
         NEW t \in Bytes
  PROVE  /\ Codes(WitnessCode, ws) \in Bytes
         /\ ReadWitnesses(input, Codes(WitnessCode, ws) ++ t) = Ok(Filled(input, ws), t)
<1>1. PICK b \in Bytes : b = Codes(WitnessCode, ws)
  BY WitnessesReadAndTook, CodesType
<1>2. PICK s \in Bytes : s = b ++ t
  BY Closed
<1>3. Len(ws) \in Nat
  OBVIOUS
<1>4. PICK g : Looped(g, WitnessReader, s, Len(ws)) /\ DecodeWitnesses(s, Len(ws)) = g[Len(ws)]
  BY <1>3, WitnessesLoop
<1>5. g[Len(ws)] = Ok(ws, t)
  BY <1>1, <1>2, <1>4, WitnessesReadAndTook, LoopReads
<1>6. DecodeWitnesses(s, Len(input)) = Ok(ws, t)
  BY <1>4, <1>5
<1> QED  BY <1>1, <1>2, <1>6, WitnessesAt

\* What reads as the witnesses is taken without regard to what follows.
LEMMA AllWitnessesTook ==
  ASSUME NEW input, Len(input) \in Nat, NEW r \in Bytes, ReadWitnesses(input, r).ok
  PROVE  \E ws \in Seq(Witnesses), x, t \in Bytes :
           /\ Len(ws) = Len(input) /\ Worthwhile(input, ws)
           /\ r = x ++ t
           /\ ReadWitnesses(input, r) = Ok(Filled(input, ws), t)
           /\ \A u \in Bytes : ReadWitnesses(input, x ++ u) = Ok(Filled(input, ws), u)
           /\ UsizeWidth = 8 => x = Codes(WitnessCode, ws)
<1> DEFINE n == Len(input)
<1> HIDE DEF n
<1>1. n \in Nat
  BY DEF n
<1>2. DecodeWitnesses(r, n).ok
  BY Results DEF ReadWitnesses, Then, n
<1>3. PICK f : Looped(f, WitnessReader, r, n) /\ DecodeWitnesses(r, n) = f[n]
  BY <1>1, WitnessesLoop
<1>4. TookItems(f, WitnessReader, WitnessCode, Witnesses, r, n, n)
  <2>1. f[n].ok
    BY <1>2, <1>3
  <2> QED  BY <1>1, <1>3, <2>1, WitnessesReadAndTook, LoopTook
<1>5. PICK ws \in Seq(Witnesses), x \in Bytes, t \in Bytes :
        /\ Len(ws) = n
        /\ r = x ++ t /\ Len(x) >= n
        /\ f[n] = Ok(ws, t)
        /\ \A u \in Bytes : \A g : Looped(g, WitnessReader, x ++ u, n) => g[n] = Ok(ws, u)
        /\ UsizeWidth = 8 => x = Codes(WitnessCode, ws)
  BY <1>4 DEF TookItems
<1>6. ASSUME NEW u \in Bytes
      PROVE  DecodeWitnesses(x ++ u, n) = Ok(ws, u)
  <2>1. PICK s \in Bytes : s = x ++ u
    BY Closed
  <2>2. PICK g : Looped(g, WitnessReader, s, n) /\ DecodeWitnesses(s, n) = g[n]
    BY <1>1, WitnessesLoop
  <2> QED  BY <1>5, <2>1, <2>2
<1>7. DecodeWitnesses(r, n) = Ok(ws, t)
  BY <1>3, <1>5
<1>8. ReadWitnesses(input, r) = IF Worthwhile(input, ws) THEN Ok(Filled(input, ws), t) ELSE Err
  BY <1>7, WitnessesAt DEF n
<1>9. Worthwhile(input, ws)
  BY <1>8, Results
<1>10. \A u \in Bytes : ReadWitnesses(input, x ++ u) = Ok(Filled(input, ws), u)
  BY <1>6, <1>9, WitnessesAt DEF n
<1> QED  BY <1>5, <1>8, <1>9, <1>10 DEF n

-----------------------------------------------------------------------------
(* Transactions.                                                           *)

Bare(input) == [j \in DOMAIN input |-> [input[j] EXCEPT !.witness = << >>]]

\* An input without its witness is an item of a vector; with it, it is itself.
LEMMA InputForms ==
  ASSUME NEW in \in TxIns
  PROVE  /\ [in EXCEPT !.witness = << >>] \in Inputs(Scripts)
         /\ [[in EXCEPT !.witness = << >>] EXCEPT !.witness = in.witness] = in
         /\ EncodeTxIn([in EXCEPT !.witness = << >>]) = EncodeTxIn(in)
         /\ in.witness = << >> => [in EXCEPT !.witness = << >>] = in
<1> DEFINE bare == [in EXCEPT !.witness = << >>]
           o == in.previous_output
<1>1. /\ o \in [txid : Txids, vout : Byte] /\ in.script_sig \in Scripts
      /\ in.sequence \in Byte
      /\ in = [previous_output |-> o, script_sig |-> in.script_sig,
               sequence |-> in.sequence, witness |-> in.witness]
  BY DEF TxIns
<1>2. o = OutPoint(o.txid, o.vout) /\ o.txid \in Txids /\ o.vout \in Byte
  BY <1>1 DEF OutPoint
<1>3. bare = TxIn(o.txid, o.vout, in.script_sig, in.sequence, << >>)
  BY <1>1, <1>2 DEF TxIn
<1>4. bare \in Inputs(Scripts)
  BY <1>1, <1>2, <1>3 DEF Inputs
<1>5. [bare EXCEPT !.witness = in.witness] = in
  BY <1>1
<1>6. EncodeTxIn(bare) = EncodeTxIn(in)
  BY <1>1 DEF EncodeTxIn
<1>7. in.witness = << >> => bare = in
  BY <1>1
<1> QED  BY <1>4, <1>5, <1>6, <1>7

\* Inputs are written as they are without witnesses, and are whole with them.
LEMMA InputsBare ==
  ASSUME NEW input \in Seq(TxIns)
  PROVE  /\ Bare(input) \in Seq(Inputs(Scripts)) /\ Len(Bare(input)) = Len(input)
         /\ EncodeVec("TxIn", Bare(input)) = EncodeVec("TxIn", input)
         /\ \A ws : (\A j \in DOMAIN input : ws[j] = input[j].witness) =>
                    Filled(Bare(input), ws) = input
         /\ (\A j \in DOMAIN input : input[j].witness = << >>) => Bare(input) = input
<1> DEFINE b == Bare(input)
           n == Len(input)
<1>1. n \in Nat /\ DOMAIN input = 1 .. n /\ \A j \in 1 .. n : input[j] \in TxIns
  BY ElementOfSeq
<1>2. \A j \in 1 .. n : b[j] = [input[j] EXCEPT !.witness = << >>]
  BY <1>1 DEF Bare
<1>3. b \in [1 .. n -> Inputs(Scripts)]
  BY <1>1, InputForms DEF Bare
<1> HIDE DEF b, n
<1>4. b \in Seq(Inputs(Scripts)) /\ Len(b) = n /\ DOMAIN b = 1 .. n
  BY <1>1, <1>3, ArrayIsString
<1>5. EncodeVec("TxIn", b) = EncodeVec("TxIn", input)
  <2>1. ASSUME NEW j \in 1 .. n
        PROVE  EncodeItem("TxIn", b[j]) = EncodeItem("TxIn", input[j])
    <3>1. EncodeTxIn(b[j]) = EncodeTxIn(input[j])
      BY <1>1, <1>2, InputForms
    <3> QED  BY <3>1 DEF EncodeItem
  <2>2. [k \in 1 .. n |-> EncodeItem("TxIn", b[k])] = [k \in 1 .. n |-> EncodeItem("TxIn", input[k])]
    BY <2>1, Zenon
  <2>3. Len(input) = n
    BY DEF n
  <2> QED  BY <1>4, <2>2, <2>3 DEF EncodeVec
<1>6. ASSUME NEW ws, \A j \in 1 .. n : ws[j] = input[j].witness
      PROVE  Filled(b, ws) = input
  <2>1. \A j \in 1 .. n : [b[j] EXCEPT !.witness = ws[j]] = input[j]
    BY <1>1, <1>2, <1>6, InputForms
  <2>2. input = [j \in 1 .. n |-> input[j]]
    BY <1>1
  <2> QED  BY <1>4, <2>1, <2>2 DEF Filled
<1>7. ASSUME \A j \in 1 .. n : input[j].witness = << >>
      PROVE  b = input
  <2>1. \A j \in 1 .. n : b[j] = input[j]
    BY <1>1, <1>2, <1>7, InputForms
  <2>2. input = [j \in 1 .. n |-> input[j]] /\ b = [j \in 1 .. n |-> b[j]]
    BY <1>1, <1>3
  <2> QED  BY <2>1, <2>2
<1> QED  BY <1>1, <1>4, <1>5, <1>6, <1>7 DEF b, n

\* The vectors of the transaction read back.
LEMMA PartsRead ==
  ASSUME NEW t \in BitcoinTransactions, NEW tail \in Bytes
  PROVE  /\ EncodeVec("TxIn", t.input) \in Bytes /\ EncodeVec("TxOut", t.output) \in Bytes
         /\ DecodeVec("TxIn", EncodeVec("TxIn", t.input) ++ tail) = Ok(Bare(t.input), tail)
         /\ DecodeVec("TxOut", EncodeVec("TxOut", t.output) ++ tail) = Ok(t.output, tail)
<1>1. /\ t.input \in Seq(TxIns) /\ Len(t.input) \in VarInts
      /\ t.output \in Seq(TxOuts) /\ Len(t.output) \in VarInts
  BY DEF BitcoinTransactions
<1>2. "TxIn" \in Types /\ "TxOut" \in Types /\ Sent("TxIn") = Inputs(Scripts) /\ Sent("TxOut") = Outputs
  BY DEF Types, Sent
<1>3. /\ EncodeVec("TxIn", t.input) \in Bytes
      /\ DecodeVec("TxIn", EncodeVec("TxIn", t.input) ++ tail) = Ok(Bare(t.input), tail)
  <2> DEFINE b == Bare(t.input)
  <2>1. b \in Seq(Inputs(Scripts)) /\ Len(b) \in VarInts
        /\ EncodeVec("TxIn", b) = EncodeVec("TxIn", t.input)
    BY <1>1, InputsBare
  <2> HIDE DEF b
  <2>2. /\ EncodeVec("TxIn", b) \in Bytes
        /\ DecodeVec("TxIn", EncodeVec("TxIn", b) ++ tail) = Ok(b, tail)
    BY <1>2, <2>1, VecReads
  <2> QED  BY <2>1, <2>2 DEF b
<1>4. TxOuts = Outputs
  <2>1. ASSUME NEW out \in TxOuts
        PROVE  out \in Outputs
    <3>1. out = TxOut(out.value, out.script_pubkey) /\ out.value \in Byte /\ out.script_pubkey \in Data
      BY DEF TxOuts, TxOut
    <3> QED  BY <3>1 DEF Outputs
  <2>2. ASSUME NEW out \in Outputs
        PROVE  out \in TxOuts
    BY DEF Outputs, TxOuts, TxOut
  <2> QED  BY <2>1, <2>2
<1>5. /\ EncodeVec("TxOut", t.output) \in Bytes
      /\ DecodeVec("TxOut", EncodeVec("TxOut", t.output) ++ tail) = Ok(t.output, tail)
  BY <1>1, <1>2, <1>4, VecReads
<1> QED  BY <1>3, <1>5

Transaction(version, lock_time, input, output) ==
  [version |-> version, lock_time |-> lock_time, input |-> input, output |-> output]

\* The last step of the reader.
LEMMA EndAt ==
  ASSUME NEW version, NEW input, NEW output, NEW b \in Byte, NEW u \in Bytes
  PROVE  ReadEnd(version, input, output, <<b>> ++ u) =
           IF u # << >> THEN Err
           ELSE Ok(Transaction(version, b, input, output), << >>)
<1>1. ReadByte(<<b>> ++ u) = Ok(b, u)
  BY ReadByteReads
<1>2. /\ ReadByte(<<b>> ++ u).ok /\ ReadByte(<<b>> ++ u).value = b
      /\ ReadByte(<<b>> ++ u).rest = u
  BY <1>1, Results
<1> QED  BY <1>2, Zenon DEF ReadEnd, DecodeLockTime, Then, Transaction

\* The first step of the reader.
LEMMA VersionAt ==
  ASSUME NEW b \in Byte, NEW u \in Bytes
  PROVE  DecodeVersion(<<b>> ++ u) = IF b \in {1, 2} THEN Ok(b, u) ELSE Err
<1>1. ReadByte(<<b>> ++ u) = Ok(b, u)
  BY ReadByteReads
<1>2. /\ ReadByte(<<b>> ++ u).ok /\ ReadByte(<<b>> ++ u).value = b
      /\ ReadByte(<<b>> ++ u).rest = u
  BY <1>1, Results
<1> QED  BY <1>2, Zenon DEF DecodeVersion, Then

\* A transaction with inputs and without witnesses.
LEMMA PlainChain ==
  ASSUME NEW r, NEW r1, NEW r2, NEW r3, NEW version, NEW input, NEW output, input # << >>,
         DecodeVersion(r) = Ok(version, r1), DecodeVec("TxIn", r1) = Ok(input, r2),
         DecodeVec("TxOut", r2) = Ok(output, r3)
  PROVE  ReadTransaction(r) = ReadEnd(version, input, output, r3)
<1>1. /\ DecodeVersion(r).ok /\ DecodeVersion(r).value = version /\ DecodeVersion(r).rest = r1
      /\ DecodeVec("TxIn", r1).ok /\ DecodeVec("TxIn", r1).value = input
      /\ DecodeVec("TxIn", r1).rest = r2
      /\ DecodeVec("TxOut", r2).ok /\ DecodeVec("TxOut", r2).value = output
      /\ DecodeVec("TxOut", r2).rest = r3
  BY Results
<1> QED  BY <1>1, Zenon DEF ReadTransaction, Then

\* One that begins with no inputs, which is the marker.
LEMMA MarkerChain ==
  ASSUME NEW r, NEW r1, NEW r2, NEW version,
         DecodeVersion(r) = Ok(version, r1), DecodeVec("TxIn", r1) = Ok(<< >>, r2)
  PROVE  ReadTransaction(r) = ReadSegwit(version, r2)
<1>1. /\ DecodeVersion(r).ok /\ DecodeVersion(r).value = version /\ DecodeVersion(r).rest = r1
      /\ DecodeVec("TxIn", r1).ok /\ DecodeVec("TxIn", r1).value = << >>
      /\ DecodeVec("TxIn", r1).rest = r2
  BY Results
<1> QED  BY <1>1, Zenon DEF ReadTransaction, Then

\* The steps behind the marker.
LEMMA SegwitChain ==
  ASSUME NEW r, NEW r1, NEW r2, NEW r3, NEW r4, NEW version, NEW input, NEW output, NEW full,
         ReadByte(r) = Ok(SegwitFlag, r1), DecodeVec("TxIn", r1) = Ok(input, r2),
         DecodeVec("TxOut", r2) = Ok(output, r3), ReadWitnesses(input, r3) = Ok(full, r4)
  PROVE  ReadSegwit(version, r) = ReadEnd(version, full, output, r4)
<1>1. /\ ReadByte(r).ok /\ ReadByte(r).value = SegwitFlag /\ ReadByte(r).rest = r1
      /\ DecodeVec("TxIn", r1).ok /\ DecodeVec("TxIn", r1).value = input
      /\ DecodeVec("TxIn", r1).rest = r2
      /\ DecodeVec("TxOut", r2).ok /\ DecodeVec("TxOut", r2).value = output
      /\ DecodeVec("TxOut", r2).rest = r3
      /\ ReadWitnesses(input, r3).ok /\ ReadWitnesses(input, r3).value = full
      /\ ReadWitnesses(input, r3).rest = r4
  BY Results
<1> QED  BY <1>1, Zenon DEF ReadSegwit, Then

\* No inputs are written as the marker.
LEMMA Marker ==
  /\ EncodeVec("TxIn", << >>) = <<SegwitMarker>>
  /\ SegwitMarker \in Byte /\ SegwitFlag \in Byte
  /\ \A t \in Bytes : DecodeVec("TxIn", <<SegwitMarker>> ++ t) = Ok(<< >>, t)
<1>1. SegwitMarker \in Byte /\ SegwitFlag \in Byte /\ 0 \in VarInts
  <2>1. Power(8) \in Nat /\ Radix <= Power(8)
    BY PowersAscend, RadixAssumption
  <2> QED  BY <2>1, RadixAssumption DEF SegwitMarker, SegwitFlag, Byte, VarInts
<1>2. << >> \in Seq(Sent("TxIn")) /\ Len(<< >>) = 0 /\ "TxIn" \in Types
  BY EmptySeq DEF Types
<1>3. EncodeVarInt(0) = <<0>>
  <2>1. 0 < Least(2)
    BY TagFacts
  <2>2. WidthOf(0) = 0
    BY <1>1, <2>1, WidthFacts
  <2> QED  BY <2>2 DEF EncodeVarInt
<1>4. EncodeVec("TxIn", << >>) = <<SegwitMarker>>
  <2>1. << >> \in Seq({})
    BY EmptySeq
  <2>2. EncodeVec("TxIn", << >>) = EncodeVarInt(0) ++ Codes(ItemCode("TxIn", {}), << >>)
    BY <1>2, <2>1, VecIsCodes
  <2>3. Codes(ItemCode("TxIn", {}), << >>) = << >>
    BY CodesEmpty
  <2>4. <<0>> ++ << >> = <<0>>
    BY <1>1, NoBytes, OneByte DEF SegwitMarker
  <2> QED  BY <1>3, <2>2, <2>3, <2>4 DEF SegwitMarker
<1>5. \A t \in Bytes : DecodeVec("TxIn", <<SegwitMarker>> ++ t) = Ok(<< >>, t)
  BY <1>1, <1>2, <1>4, VecReads
<1> QED  BY <1>1, <1>4, <1>5

\* The fields of a serialized transaction.
LEMMA EncodeForms ==
  ASSUME NEW t, NEW S, t.input \in Seq(S), \A in \in S : in.witness \in Witnesses
  PROVE  LET w == [j \in 1 .. Len(t.input) |-> t.input[j].witness]
         IN /\ w \in Seq(Witnesses) /\ Len(w) = Len(t.input)
            /\ UsesSegwitSerialization(t) =>
                 Encode(t) = ((((<<t.version>> ++ <<SegwitMarker, SegwitFlag>>)
                                ++ EncodeVec("TxIn", t.input)) ++ EncodeVec("TxOut", t.output))
                               ++ Codes(WitnessCode, w)) ++ <<t.lock_time>>
            /\ ~UsesSegwitSerialization(t) =>
                 Encode(t) = ((((<<t.version>> ++ << >>)
                                ++ EncodeVec("TxIn", t.input)) ++ EncodeVec("TxOut", t.output))
                               ++ << >>) ++ <<t.lock_time>>
<1> DEFINE n == Len(t.input)
           w == [j \in 1 .. n |-> t.input[j].witness]
           codes == FlattenSeq([j \in 1 .. n |-> EncodeVec("bytes", t.input[j].witness)])
<1>1. n \in Nat /\ \A j \in 1 .. n : t.input[j] \in S
  BY ElementOfSeq
<1>2. w \in [1 .. n -> Witnesses]
  BY <1>1
<1>3. w \in Seq(Witnesses) /\ Len(w) = n
  <2> HIDE DEF w, n
  <2> QED  BY <1>1, <1>2, ArrayIsString
<1>4. codes = Codes(WitnessCode, w)
  <2>1. ASSUME NEW j \in 1 .. n
        PROVE  WitnessCode[w[j]] = EncodeVec("bytes", t.input[j].witness)
    <3>1. w[j] = t.input[j].witness /\ w[j] \in Witnesses
      BY <1>2
    <3> QED  BY <3>1 DEF WitnessCode
  <2>2. [j \in 1 .. n |-> WitnessCode[w[j]]] = [j \in 1 .. n |-> EncodeVec("bytes", t.input[j].witness)]
    <3> HIDE DEF w, n
    <3> QED  BY <2>1, Zenon
  <2>3. Codes(WitnessCode, w) = FlattenSeq([j \in 1 .. n |-> WitnessCode[w[j]]])
    <3> HIDE DEF w
    <3> QED  BY <1>3 DEF Codes
  <2> QED  BY <2>2, <2>3
<1> HIDE DEF w
<1>5. ASSUME UsesSegwitSerialization(t)
      PROVE  Encode(t) = ((((<<t.version>> ++ <<SegwitMarker, SegwitFlag>>)
                            ++ EncodeVec("TxIn", t.input)) ++ EncodeVec("TxOut", t.output))
                           ++ codes) ++ <<t.lock_time>>
  BY <1>5, Zenon DEF Encode, ++
<1>6. ASSUME ~UsesSegwitSerialization(t)
      PROVE  Encode(t) = ((((<<t.version>> ++ << >>)
                            ++ EncodeVec("TxIn", t.input)) ++ EncodeVec("TxOut", t.output))
                           ++ << >>) ++ <<t.lock_time>>
  BY <1>6, Zenon DEF Encode, ++
<1> HIDE DEF codes
<1> QED  BY <1>3, <1>4, <1>5, <1>6 DEF w

\* Chains of strings.
LEMMA SixClosed ==
  ASSUME NEW a \in Bytes, NEW m \in Bytes, NEW b \in Bytes, NEW c \in Bytes, NEW d \in Bytes,
         NEW e \in Bytes
  PROVE  ((((a ++ m) ++ b) ++ c) ++ d) ++ e \in Bytes
<1>1. PICK f \in Bytes : f = (a ++ m) ++ b
  BY Closed
<1>2. (f ++ c) ++ d \in Bytes
  BY Closed
<1> QED  BY <1>1, <1>2, Closed

\* Two bytes, one after the other.
LEMMA TwoBytes ==
  ASSUME NEW a \in Byte, NEW b \in Byte
  PROVE  <<a, b>> = <<a>> ++ <<b>>
<1> DEFINE p == <<a, b>>
           q == <<a>> \o <<b>>
<1>1. p \in Bytes /\ Len(p) = 2 /\ p[1] = a /\ p[2] = b
  BY DEF Bytes
<1>2. q \in Bytes /\ Len(q) = 2 /\ q[1] = a /\ q[2] = b
  BY DEF Bytes
<1> HIDE DEF p, q
<1>3. \A i \in 1 .. 2 : p[i] = q[i]
  BY <1>1, <1>2
<1>4. p = q
  BY <1>1, <1>2, <1>3, SeqEqual DEF Bytes
<1> QED  BY <1>4 DEF p, q, ++

\* The marker and the flag are two bytes.
LEMMA MarkerAndFlag ==
  /\ <<SegwitMarker, SegwitFlag>> = <<SegwitMarker>> ++ <<SegwitFlag>>
  /\ <<SegwitMarker>> \in Bytes /\ <<SegwitFlag>> \in Bytes
  /\ <<SegwitMarker, SegwitFlag>> \in Bytes
<1>1. <<SegwitMarker>> \in Bytes /\ <<SegwitFlag>> \in Bytes
  BY Marker, OneByte
<1>2. <<SegwitMarker, SegwitFlag>> = <<SegwitMarker>> ++ <<SegwitFlag>>
  BY Marker, TwoBytes
<1> QED  BY <1>1, <1>2, Closed

\* What serialize writes is read as what it was.
LEMMA TransactionReads ==
  ASSUME NEW t \in BitcoinTransactions
  PROVE  Encode(t) \in Bytes /\ ReadTransaction(Encode(t)) = Ok(t, << >>)
<1> DEFINE w == [j \in 1 .. Len(t.input) |-> t.input[j].witness]
<1>1. /\ w \in Seq(Witnesses) /\ Len(w) = Len(t.input)
      /\ UsesSegwitSerialization(t) =>
                 Encode(t) = ((((<<t.version>> ++ <<SegwitMarker, SegwitFlag>>)
                                ++ EncodeVec("TxIn", t.input)) ++ EncodeVec("TxOut", t.output))
                               ++ Codes(WitnessCode, w)) ++ <<t.lock_time>>
      /\ ~UsesSegwitSerialization(t) =>
                 Encode(t) = ((((<<t.version>> ++ << >>)
                                ++ EncodeVec("TxIn", t.input)) ++ EncodeVec("TxOut", t.output))
                               ++ << >>) ++ <<t.lock_time>>
  <2>1. t.input \in Seq(TxIns) /\ \A in \in TxIns : in.witness \in Witnesses
    BY DEF BitcoinTransactions, TxIns
  <2> QED  BY <2>1, EncodeForms, Zenon
<1>2. /\ t.input \in Seq(TxIns) /\ DOMAIN t.input = 1 .. Len(t.input) /\ Len(t.input) \in Nat
      /\ t.version \in {1, 2} /\ t.lock_time \in Byte
      /\ t = Transaction(t.version, t.lock_time, t.input, t.output)
  BY DEF BitcoinTransactions, Transaction
<1>3. \A j \in DOMAIN t.input : w[j] = t.input[j].witness
  BY <1>2
<1> HIDE DEF w
<1>4. t.version \in Byte
  BY <1>2, RadixAssumption DEF Byte
<1>5. PICK v \in Bytes : v = <<t.version>> /\ \A u \in Bytes : DecodeVersion(v ++ u) = Ok(t.version, u)
  <2>1. <<t.version>> \in Bytes
    BY <1>4, OneByte
  <2> QED  BY <1>2, <1>4, <2>1, VersionAt
<1>6. PICK b \in Bytes : b = EncodeVec("TxIn", t.input)
                      /\ \A u \in Bytes : DecodeVec("TxIn", b ++ u) = Ok(Bare(t.input), u)
  <2>1. EncodeVec("TxIn", t.input) \in Bytes
    BY NoBytes, PartsRead
  <2> QED  BY <2>1, PartsRead
<1>7. PICK c \in Bytes : c = EncodeVec("TxOut", t.output)
                      /\ \A u \in Bytes : DecodeVec("TxOut", c ++ u) = Ok(t.output, u)
  <2>1. EncodeVec("TxOut", t.output) \in Bytes
    BY NoBytes, PartsRead
  <2> QED  BY <2>1, PartsRead
<1>8. PICK e \in Bytes : e = <<t.lock_time>> /\ e ++ << >> = e
                      /\ \A input : ReadEnd(t.version, input, t.output, e)
                           = Ok(Transaction(t.version, t.lock_time, input, t.output), << >>)
  <2>1. <<t.lock_time>> \in Bytes
    BY <1>2, OneByte
  <2>2. <<t.lock_time>> ++ << >> = <<t.lock_time>>
    BY <2>1, NoBytes
  <2>3. << >> \in Bytes
    BY NoBytes
  <2>4. \A input : ReadEnd(t.version, input, t.output, <<t.lock_time>> ++ << >>)
                     = Ok(Transaction(t.version, t.lock_time, input, t.output), << >>)
    BY <1>2, <2>3, EndAt
  <2> QED  BY <2>1, <2>2, <2>4
<1>9. CASE UsesSegwitSerialization(t)
  <2>1. Len(Bare(t.input)) = Len(t.input) /\ Filled(Bare(t.input), w) = t.input
        /\ DOMAIN Bare(t.input) = DOMAIN t.input
    BY <1>2, <1>3, InputsBare DEF Bare
  <2>2. Worthwhile(Bare(t.input), w)
    <3>1. \/ \E j \in DOMAIN t.input : w[j] # << >>
          \/ t.input = << >>
      BY <1>3, <1>9 DEF UsesSegwitSerialization
    <3>2. ASSUME t.input = << >>
          PROVE  Bare(t.input) = << >>
      BY <3>2 DEF Bare
    <3> QED  BY <2>1, <3>1, <3>2 DEF Worthwhile
  <2>3. PICK d \in Bytes : d = Codes(WitnessCode, w)
                        /\ \A u \in Bytes : ReadWitnesses(Bare(t.input), d ++ u) = Ok(t.input, u)
    <3>1. Codes(WitnessCode, w) \in Bytes
      BY <1>1, <2>1, <2>2, NoBytes, AllWitnessesRead
    <3> QED  BY <1>1, <2>1, <2>2, <3>1, AllWitnessesRead
  <2>4. PICK m \in Bytes : m = <<SegwitMarker>> /\ \A u \in Bytes : DecodeVec("TxIn", m ++ u) = Ok(<< >>, u)
    BY Marker, MarkerAndFlag
  <2>5. PICK f \in Bytes : f = <<SegwitFlag>> /\ \A u \in Bytes : ReadByte(f ++ u) = Ok(SegwitFlag, u)
    BY Marker, MarkerAndFlag, ReadByteReads
  <2>6. PICK mf \in Bytes : mf = m ++ f /\ mf = <<SegwitMarker, SegwitFlag>>
    BY <2>4, <2>5, MarkerAndFlag
  <2>7. Encode(t) = ((((v ++ mf) ++ b) ++ c) ++ d) ++ e
    BY <1>1, <1>5, <1>6, <1>7, <1>8, <1>9, <2>3, <2>6
  <2>8. PICK x \in Bytes : x = ((((v ++ mf) ++ b) ++ c) ++ d) ++ e
    BY SixClosed
  <2>11. PICK s5 \in Bytes : s5 = d ++ e
    BY Closed
  <2>12. PICK s4 \in Bytes : s4 = c ++ s5
    BY Closed
  <2>13. PICK s3 \in Bytes : s3 = b ++ s4
    BY Closed
  <2>14. PICK s2 \in Bytes : s2 = f ++ s3
    BY Closed
  <2>15. PICK s1 \in Bytes : s1 = m ++ s2
    BY Closed
  <2>16. mf ++ s3 = s1
    <3>1. (m ++ f) ++ s3 = m ++ (f ++ s3)
      BY Grouped
    <3> QED  BY <2>6, <2>14, <2>15, <3>1
  <2>17. x = v ++ s1
    <3>1. PICK p1 \in Bytes : p1 = v ++ mf
      BY Closed
    <3>2. PICK p2 \in Bytes : p2 = p1 ++ b
      BY Closed
    <3>3. PICK p3 \in Bytes : p3 = p2 ++ c
      BY Closed
    <3>4. (p3 ++ d) ++ e = p3 ++ s5
      BY <2>11, Grouped
    <3>5. (p2 ++ c) ++ s5 = p2 ++ s4
      BY <2>12, Grouped
    <3>6. (p1 ++ b) ++ s4 = p1 ++ s3
      BY <2>13, Grouped
    <3>7. (v ++ mf) ++ s3 = v ++ s1
      BY <2>16, Grouped
    <3> QED  BY <2>8, <3>1, <3>2, <3>3, <3>4, <3>5, <3>6, <3>7
  <2>18. ReadTransaction(x) = ReadSegwit(t.version, s2)
    <3>1. DecodeVersion(x) = Ok(t.version, s1)
      BY <1>5, <2>17
    <3>2. DecodeVec("TxIn", s1) = Ok(<< >>, s2)
      BY <2>4, <2>15
    <3> QED  BY <3>1, <3>2, MarkerChain
  <2>19. ReadSegwit(t.version, s2) = ReadEnd(t.version, t.input, t.output, e)
    <3>1. ReadByte(s2) = Ok(SegwitFlag, s3)
      BY <2>5, <2>14
    <3>2. DecodeVec("TxIn", s3) = Ok(Bare(t.input), s4)
      BY <1>6, <2>13
    <3>3. DecodeVec("TxOut", s4) = Ok(t.output, s5)
      BY <1>7, <2>12
    <3>4. ReadWitnesses(Bare(t.input), s5) = Ok(t.input, e)
      BY <2>3, <2>11
    <3> QED  BY <3>1, <3>2, <3>3, <3>4, SegwitChain
  <2>20. ReadTransaction(x) = Ok(t, << >>)
    BY <1>2, <1>8, <2>18, <2>19
  <2> QED  BY <2>7, <2>8, <2>20
<1>10. CASE ~UsesSegwitSerialization(t)
  <2>1. t.input # << >> /\ Bare(t.input) = t.input
    <3>1. t.input # << >> /\ \A j \in DOMAIN t.input : t.input[j].witness = << >>
      BY <1>10 DEF UsesSegwitSerialization
    <3> QED  BY <1>2, <3>1, InputsBare
  <2>2. PICK z \in Bytes : z = << >>
    BY NoBytes
  <2>3. Encode(t) = ((((v ++ z) ++ b) ++ c) ++ z) ++ e
    BY <1>1, <1>5, <1>6, <1>7, <1>8, <1>10, <2>2
  <2>4. PICK x \in Bytes : x = ((((v ++ z) ++ b) ++ c) ++ z) ++ e
    BY SixClosed
  <2>5. \A s \in Bytes : z ++ s = s /\ s ++ z = s
    BY <2>2, NoBytes
  <2>6. PICK s3 \in Bytes : s3 = c ++ e
    BY Closed
  <2>7. PICK s2 \in Bytes : s2 = b ++ s3
    BY Closed
  <2>8. x = v ++ s2
    <3>1. (v ++ z) = v /\ \A s \in Bytes : (s ++ z) ++ e = s ++ e
      BY <2>5
    <3>2. PICK p2 \in Bytes : p2 = v ++ b
      BY Closed
    <3>3. PICK p3 \in Bytes : p3 = p2 ++ c
      BY Closed
    <3>4. x = p3 ++ e
      BY <2>4, <3>1, <3>2, <3>3
    <3>5. (p2 ++ c) ++ e = p2 ++ s3
      BY <2>6, Grouped
    <3>6. (v ++ b) ++ s3 = v ++ s2
      BY <2>7, Grouped
    <3> QED  BY <3>2, <3>3, <3>4, <3>5, <3>6
  <2>9. DecodeVersion(x) = Ok(t.version, s2)
    BY <1>5, <2>8
  <2>10. DecodeVec("TxIn", s2) = Ok(t.input, s3)
    BY <1>6, <2>1, <2>7
  <2>11. DecodeVec("TxOut", s3) = Ok(t.output, e)
    BY <1>7, <2>6
  <2>12. ReadTransaction(x) = ReadEnd(t.version, t.input, t.output, e)
    BY <2>1, <2>9, <2>10, <2>11, PlainChain
  <2>13. ReadTransaction(x) = Ok(t, << >>)
    BY <1>2, <1>8, <2>12
  <2> QED  BY <2>3, <2>4, <2>13
<1> QED  BY <1>9, <1>10

\* The last byte.
LEMMA EndTook ==
  ASSUME NEW version, NEW input, NEW output, NEW r \in Bytes, ReadEnd(version, input, output, r).ok
  PROVE  \E b \in Byte :
           /\ r = <<b>>
           /\ ReadEnd(version, input, output, r)
                = Ok(Transaction(version, b, input, output), << >>)
<1>1. ReadByte(r).ok
  BY Results DEF ReadEnd, DecodeLockTime, Then
<1>2. PICK b \in Byte, u \in Bytes : r = <<b>> ++ u
  BY <1>1, ReadByteTook
<1>3. ReadEnd(version, input, output, r) =
        IF u # << >> THEN Err
        ELSE Ok(Transaction(version, b, input, output), << >>)
  BY <1>2, EndAt
<1>4. u = << >>
  BY <1>3, Results
<1>5. r = <<b>>
  BY <1>2, <1>4, OneByte, NoBytes
<1> QED  BY <1>3, <1>4, <1>5

Versions == {1, 2}

\* What reads as a version is one byte.
LEMMA VersionTook ==
  ASSUME NEW r \in Bytes, DecodeVersion(r).ok
  PROVE  \E b \in Versions, u \in Bytes :
           b \in Byte /\ r = <<b>> ++ u /\ DecodeVersion(r) = Ok(b, u)
<1>1. ReadByte(r).ok
  BY Results DEF DecodeVersion, Then
<1>2. PICK b \in Byte, u \in Bytes : r = <<b>> ++ u
  BY <1>1, ReadByteTook
<1>3. DecodeVersion(r) = IF b \in {1, 2} THEN Ok(b, u) ELSE Err
  BY <1>2, VersionAt
<1>4. b \in {1, 2}
  BY <1>3, Results
<1> QED  BY <1>2, <1>3, <1>4 DEF Versions

\* More bytes than were needed are refused.
LEMMA EndRefuses ==
  ASSUME NEW version, NEW input, NEW output, NEW b \in Byte, NEW u \in Bytes, u # << >>
  PROVE  ReadEnd(version, input, output, <<b>> ++ u) = Err
  BY EndAt

\* Inputs as they are read, with their witnesses.
FullInputs == {TxIn(id, vout, script, sequence, w) :
                 id \in Txids, vout \in Byte, script \in Data, sequence \in Byte, w \in Witnesses}

\* An input without a witness has an empty one.
LEMMA NoWitness == << >> \in Witnesses
<1>1. << >> \in Seq(Data) /\ Len(<< >>) = 0
  BY EmptySeq
<1>2. 0 \in VarInts
  BY PowersAscend, RadixAssumption DEF VarInts
<1> QED  BY <1>1, <1>2 DEF Witnesses

\* Inputs with the witnesses that were read are written like those without.
LEMMA InputsFilled ==
  ASSUME NEW input \in Seq(Inputs(Data)), NEW ws \in Seq(Witnesses), Len(ws) = Len(input)
  PROVE  LET full == Filled(input, ws)
         IN /\ full \in Seq(FullInputs) /\ Len(full) = Len(input) /\ DOMAIN full = DOMAIN input
            /\ [j \in 1 .. Len(full) |-> full[j].witness] = ws
            /\ \A j \in DOMAIN full : full[j].witness = ws[j]
            /\ EncodeVec("TxIn", full) = EncodeVec("TxIn", input)
<1> DEFINE full == Filled(input, ws)
           n == Len(input)
<1>1. /\ n \in Nat /\ DOMAIN input = 1 .. n
      /\ \A j \in 1 .. n : input[j] \in Inputs(Data) /\ ws[j] \in Witnesses
  BY ElementOfSeq
<1>2. \A j \in 1 .. n : full[j] = [input[j] EXCEPT !.witness = ws[j]]
  BY <1>1 DEF Filled
<1>3. ASSUME NEW j \in 1 .. n
      PROVE  /\ full[j] \in FullInputs /\ full[j].witness = ws[j]
             /\ EncodeTxIn(full[j]) = EncodeTxIn(input[j])
  <2>1. PICK id \in Txids, vout \in Byte, script \in Data, sequence \in Byte :
          input[j] = TxIn(id, vout, script, sequence, << >>)
    BY <1>1 DEF Inputs
  <2>2. full[j] = TxIn(id, vout, script, sequence, ws[j])
    BY <1>2, <2>1 DEF TxIn
  <2> HIDE DEF full
  <2>3. full[j] \in FullInputs
    BY <1>1, <2>2 DEF FullInputs
  <2>4. full[j].witness = ws[j]
    BY <2>2 DEF TxIn
  <2>5. EncodeTxIn(full[j]) = EncodeTxIn(input[j])
    <3>1. EncodeTxIn(TxIn(id, vout, script, sequence, ws[j]))
            = EncodeTxIn(TxIn(id, vout, script, sequence, << >>))
      BY DEF EncodeTxIn, TxIn, OutPoint
    <3> QED  BY <2>1, <2>2, <3>1
  <2> QED  BY <2>3, <2>4, <2>5
<1>4. full \in [1 .. n -> FullInputs]
  <2>1. full = [j \in 1 .. n |-> full[j]]
    BY <1>1 DEF Filled
  <2> HIDE DEF full
  <2> QED  BY <1>3, <2>1
<1> HIDE DEF full, n
<1>5. full \in Seq(FullInputs) /\ Len(full) = n /\ DOMAIN full = 1 .. n
  BY <1>1, <1>4, ArrayIsString
<1>6. [j \in 1 .. n |-> full[j].witness] = ws
  <2>1. ws = [j \in 1 .. n |-> ws[j]]
    <3>1. ws = [j \in 1 .. Len(ws) |-> ws[j]]
      OBVIOUS
    <3> QED  BY <3>1 DEF n
  <2>2. [j \in 1 .. n |-> full[j].witness] = [j \in 1 .. n |-> ws[j]]
    BY <1>3, Zenon
  <2> QED  BY <2>1, <2>2
<1>7. EncodeVec("TxIn", full) = EncodeVec("TxIn", input)
  <2>1. ASSUME NEW j \in 1 .. n
        PROVE  EncodeItem("TxIn", full[j]) = EncodeItem("TxIn", input[j])
    BY <1>3 DEF EncodeItem
  <2>2. [k \in 1 .. n |-> EncodeItem("TxIn", full[k])] = [k \in 1 .. n |-> EncodeItem("TxIn", input[k])]
    BY <2>1, Zenon
  <2>3. Len(input) = n
    BY DEF n
  <2> QED  BY <1>5, <2>2, <2>3 DEF EncodeVec
<1>8. \A j \in DOMAIN full : full[j].witness = ws[j]
  BY <1>3, <1>5
<1> QED  BY <1>1, <1>5, <1>6, <1>7, <1>8 DEF full, n

\* Bytes that are accepted without a marker.
LEMMA PlainTook ==
  ASSUME NEW r \in Bytes, ReadTransaction(r).ok,
         NEW version \in Versions, NEW r1 \in Bytes, version \in Byte, r = <<version>> ++ r1,
         DecodeVersion(r) = Ok(version, r1),
         NEW input \in Seq(Inputs(Data)), NEW x \in Bytes, NEW r2 \in Bytes, input # << >>,
         r1 = x ++ r2, DecodeVec("TxIn", r1) = Ok(input, r2),
         \A u \in Bytes : DecodeVec("TxIn", x ++ u) = Ok(input, u),
         UsizeWidth = 8 => x = EncodeVec("TxIn", input)
  PROVE  /\ \A u \in Bytes : u # << >> => ReadTransaction(r ++ u) = Err
         /\ UsizeWidth = 8 => Encode(ReadTransaction(r).value) = r
<1>1. /\ DecodeVersion(r).ok /\ DecodeVersion(r).value = version /\ DecodeVersion(r).rest = r1
      /\ DecodeVec("TxIn", r1).ok /\ DecodeVec("TxIn", r1).value = input
      /\ DecodeVec("TxIn", r1).rest = r2
  BY Results
<1>2. ReadTransaction(r) = Then(DecodeVec("TxOut", r2), LAMBDA output, r3 :
                             ReadEnd(version, input, output, r3))
  BY <1>1, Zenon DEF ReadTransaction, Then
<1>3. DecodeVec("TxOut", r2).ok
  BY <1>2, Results DEF Then
<1>4. "TxOut" \in Types
  BY DEF Types
<1>5. PICK output \in Seq(Got("TxOut")), y \in Bytes, r3 \in Bytes :
        /\ Took(r2, y, r3)
        /\ Len(output) \in VarInts
        /\ DecodeVec("TxOut", r2) = Ok(output, r3)
        /\ \A u \in Bytes : DecodeVec("TxOut", y ++ u) = Ok(output, u)
        /\ UsizeWidth = 8 => y = EncodeVec("TxOut", output)
  BY <1>3, <1>4, VecTook
<1>6. ReadTransaction(r) = ReadEnd(version, input, output, r3)
  BY <1>5, PlainChain
<1>7. PICK b \in Byte :
        /\ r3 = <<b>>
        /\ ReadTransaction(r)
             = Ok(Transaction(version, b, input, output), << >>)
  <2>1. ReadEnd(version, input, output, r3).ok
    BY <1>6
  <2>2. \E b \in Byte :
          /\ r3 = <<b>>
          /\ ReadEnd(version, input, output, r3)
               = Ok(Transaction(version, b, input, output), << >>)
    BY <2>1, EndTook
  <2> QED  BY <1>6, <2>2
<1>8. PICK v \in Bytes : v = <<version>>
  BY OneByte
<1>9. r2 = y ++ r3
  BY <1>5 DEF Took
<1>10. ASSUME NEW u \in Bytes, u # << >>
       PROVE  ReadTransaction(r ++ u) = Err
  <2>1. PICK s3 \in Bytes : s3 = r3 ++ u
    BY Closed
  <2>2. PICK s2 \in Bytes : s2 = y ++ s3
    BY Closed
  <2>3. PICK s1 \in Bytes : s1 = x ++ s2
    BY Closed
  <2>4. r ++ u = v ++ s1
    <3>1. (y ++ r3) ++ u = y ++ s3
      BY <2>1, Grouped
    <3>2. (x ++ r2) ++ u = x ++ s2
      BY <1>9, <2>2, <3>1, Grouped
    <3>3. (v ++ r1) ++ u = v ++ s1
      BY <2>3, <3>2, Grouped
    <3> QED  BY <1>8, <3>3
  <2>5. DecodeVersion(v ++ s1) = Ok(version, s1)
    BY <1>8, VersionAt DEF Versions
  <2>6. ReadTransaction(v ++ s1) = ReadEnd(version, input, output, s3)
    BY <1>5, <2>2, <2>3, <2>5, PlainChain
  <2>7. ReadEnd(version, input, output, s3) = Err
    <3>1. ReadEnd(version, input, output, <<b>> ++ u) = Err
      BY <1>10, EndRefuses
    <3> QED  BY <1>7, <2>1, <3>1
  <2> QED  BY <2>4, <2>6, <2>7
<1>11. ASSUME UsizeWidth = 8
       PROVE  Encode(ReadTransaction(r).value) = r
  <2> DEFINE t == Transaction(version, b, input, output)
  <2>1. ReadTransaction(r).value = t
    BY <1>7, Results
  <2>2. \A in \in Inputs(Data) : in.witness = << >>
    BY DEF Inputs, TxIn
  <2>3. t.input = input /\ t.output = output /\ t.version = version /\ t.lock_time = b
    BY DEF Transaction
  <2> HIDE DEF t
  <2>4. \A in \in Inputs(Data) : in.witness \in Witnesses
    BY <2>2, NoWitness
  <2>5. ~UsesSegwitSerialization(t)
    <3>1. DOMAIN input = 1 .. Len(input) /\ \A j \in 1 .. Len(input) : input[j] \in Inputs(Data)
      BY ElementOfSeq
    <3> QED  BY <2>2, <2>3, <3>1 DEF UsesSegwitSerialization
  <2>6. Encode(t) = ((((v ++ << >>) ++ x) ++ y) ++ << >>) ++ r3
    <3>1. Encode(t) = ((((<<t.version>> ++ << >>)
                                ++ EncodeVec("TxIn", t.input)) ++ EncodeVec("TxOut", t.output))
                               ++ << >>) ++ <<t.lock_time>>
      BY <2>3, <2>4, <2>5, EncodeForms, Zenon
    <3> QED  BY <1>5, <1>7, <1>8, <1>11, <2>3, <3>1
  <2>7. Encode(t) = ((v ++ x) ++ y) ++ r3
    <3>1. v ++ << >> = v
      BY NoBytes
    <3>2. PICK p \in Bytes : p = (v ++ x) ++ y
      BY Closed
    <3>3. p ++ << >> = p
      BY NoBytes
    <3> QED  BY <2>6, <3>1, <3>2, <3>3
  <2>8. ((v ++ x) ++ y) ++ r3 = r
    <3>1. PICK p \in Bytes : p = v ++ x
      BY Closed
    <3>2. (p ++ y) ++ r3 = p ++ r2
      BY <1>9, Grouped
    <3>3. (v ++ x) ++ r2 = v ++ r1
      BY Grouped
    <3> QED  BY <1>8, <3>1, <3>2, <3>3
  <2> QED  BY <2>1, <2>7, <2>8
<1> QED  BY <1>10, <1>11

\* Bytes that are accepted behind a marker.
LEMMA SegwitTook ==
  ASSUME NEW r \in Bytes, ReadTransaction(r).ok,
         NEW version \in Versions, NEW r1 \in Bytes, version \in Byte, r = <<version>> ++ r1,
         DecodeVersion(r) = Ok(version, r1),
         NEW x \in Bytes, NEW r2 \in Bytes,
         r1 = x ++ r2, DecodeVec("TxIn", r1) = Ok(<< >>, r2),
         \A u \in Bytes : DecodeVec("TxIn", x ++ u) = Ok(<< >>, u),
         UsizeWidth = 8 => x = EncodeVec("TxIn", << >>)
  PROVE  /\ \A u \in Bytes : u # << >> => ReadTransaction(r ++ u) = Err
         /\ UsizeWidth = 8 => Encode(ReadTransaction(r).value) = r
<1>0. "TxOut" \in Types /\ "TxIn" \in Types /\ Got("TxIn") = Inputs(Data)
  BY DEF Types, Got
<1>1. ReadTransaction(r) = ReadSegwit(version, r2)
  BY MarkerChain
<1>2. ReadByte(r2).ok
  BY <1>1, Results DEF ReadSegwit, Then
<1>3. PICK flag \in Byte, r3 \in Bytes : r2 = <<flag>> ++ r3 /\ ReadByte(r2) = Ok(flag, r3)
  BY <1>2, ReadByteTook
<1>4. ReadByte(r2).value = flag /\ ReadByte(r2).rest = r3
  BY <1>3, Results
<1>5. flag = SegwitFlag /\ DecodeVec("TxIn", r3).ok
  <2>1. ReadSegwit(version, r2) =
          IF flag # SegwitFlag THEN Err
          ELSE Then(DecodeVec("TxIn", r3), LAMBDA input, s2 :
               Then(DecodeVec("TxOut", s2), LAMBDA output, s3 :
               Then(ReadWitnesses(input, s3), LAMBDA full, s4 :
                 ReadEnd(version, full, output, s4))))
    BY <1>2, <1>4, Zenon DEF ReadSegwit, Then
  <2>2. flag = SegwitFlag
    BY <1>1, <2>1, Results
  <2>3. ASSUME ~DecodeVec("TxIn", r3).ok
        PROVE  FALSE
    <3>1. ReadSegwit(version, r2) = Err
      BY <2>1, <2>2, <2>3, Zenon DEF Then
    <3> QED  BY <1>1, <3>1, Results
  <2> QED  BY <2>2, <2>3
<1>6. PICK input \in Seq(Inputs(Data)), y \in Bytes, r4 \in Bytes :
        /\ Took(r3, y, r4)
        /\ Len(input) \in VarInts
        /\ DecodeVec("TxIn", r3) = Ok(input, r4)
        /\ \A u \in Bytes : DecodeVec("TxIn", y ++ u) = Ok(input, u)
        /\ UsizeWidth = 8 => y = EncodeVec("TxIn", input)
  BY <1>0, <1>5, VecTook
<1>7. DecodeVec("TxIn", r3).value = input /\ DecodeVec("TxIn", r3).rest = r4
  BY <1>6, Results
<1>8. ReadSegwit(version, r2) =
        Then(DecodeVec("TxOut", r4), LAMBDA output, s3 :
          Then(ReadWitnesses(input, s3), LAMBDA full, s4 : ReadEnd(version, full, output, s4)))
  BY <1>2, <1>4, <1>5, <1>7, Zenon DEF ReadSegwit, Then
<1>9. DecodeVec("TxOut", r4).ok
  <2> SUFFICES ASSUME ~DecodeVec("TxOut", r4).ok PROVE FALSE
    OBVIOUS
  <2>1. ReadSegwit(version, r2) = Err
    BY <1>8, Zenon DEF Then
  <2> QED  BY <1>1, <2>1, Results
<1>10. PICK output \in Seq(Got("TxOut")), z \in Bytes, r5 \in Bytes :
        /\ Took(r4, z, r5)
        /\ Len(output) \in VarInts
        /\ DecodeVec("TxOut", r4) = Ok(output, r5)
        /\ \A u \in Bytes : DecodeVec("TxOut", z ++ u) = Ok(output, u)
        /\ UsizeWidth = 8 => z = EncodeVec("TxOut", output)
  BY <1>0, <1>9, VecTook
<1>11. DecodeVec("TxOut", r4).value = output /\ DecodeVec("TxOut", r4).rest = r5
  BY <1>10, Results
<1>12. ReadSegwit(version, r2) =
         Then(ReadWitnesses(input, r5), LAMBDA full, s4 : ReadEnd(version, full, output, s4))
  BY <1>8, <1>9, <1>11, Zenon DEF Then
<1>13. ReadWitnesses(input, r5).ok
  <2> SUFFICES ASSUME ~ReadWitnesses(input, r5).ok PROVE FALSE
    OBVIOUS
  <2>1. ReadSegwit(version, r2) = Err
    BY <1>12, Zenon DEF Then
  <2> QED  BY <1>1, <2>1, Results
<1>14. PICK ws \in Seq(Witnesses), w \in Bytes, r6 \in Bytes :
         /\ Len(ws) = Len(input) /\ Worthwhile(input, ws)
         /\ r5 = w ++ r6
         /\ ReadWitnesses(input, r5) = Ok(Filled(input, ws), r6)
         /\ \A u \in Bytes : ReadWitnesses(input, w ++ u) = Ok(Filled(input, ws), u)
         /\ UsizeWidth = 8 => w = Codes(WitnessCode, ws)
  <2>1. Len(input) \in Nat
    OBVIOUS
  <2> QED  BY <1>13, <2>1, AllWitnessesTook
<1> DEFINE full == Filled(input, ws)
<1>15. ReadWitnesses(input, r5).value = full /\ ReadWitnesses(input, r5).rest = r6
  BY <1>14, Results
<1>16. ReadTransaction(r) = ReadEnd(version, full, output, r6)
  <2> HIDE DEF full
  <2> QED  BY <1>1, <1>12, <1>13, <1>15, Zenon DEF Then
<1>17. PICK b \in Byte :
         /\ r6 = <<b>>
         /\ ReadTransaction(r) = Ok(Transaction(version, b, full, output), << >>)
  <2> HIDE DEF full
  <2>1. ReadEnd(version, full, output, r6).ok
    BY <1>16
  <2>2. \E b \in Byte :
          /\ r6 = <<b>>
          /\ ReadEnd(version, full, output, r6) = Ok(Transaction(version, b, full, output), << >>)
    BY <2>1, EndTook
  <2> QED  BY <1>16, <2>2
<1>18. PICK v \in Bytes : v = <<version>>
  BY OneByte
<1>19. PICK f \in Bytes : f = <<SegwitFlag>>
  BY MarkerAndFlag
<1>20. r2 = f ++ r3 /\ r3 = y ++ r4 /\ r4 = z ++ r5
  BY <1>3, <1>5, <1>6, <1>10, <1>19 DEF Took
<1>21. ASSUME NEW u \in Bytes, u # << >>
       PROVE  ReadTransaction(r ++ u) = Err
  <2>1. PICK s6 \in Bytes : s6 = r6 ++ u
    BY Closed
  <2>2. PICK s5 \in Bytes : s5 = w ++ s6
    BY Closed
  <2>3. PICK s4 \in Bytes : s4 = z ++ s5
    BY Closed
  <2>4. PICK s3 \in Bytes : s3 = y ++ s4
    BY Closed
  <2>5. PICK s2 \in Bytes : s2 = f ++ s3
    BY Closed
  <2>6. PICK s1 \in Bytes : s1 = x ++ s2
    BY Closed
  <2>7. r ++ u = v ++ s1
    <3>1. (w ++ r6) ++ u = w ++ s6
      BY <2>1, Grouped
    <3>2. (z ++ r5) ++ u = z ++ s5
      BY <1>14, <2>2, <3>1, Grouped
    <3>3. (y ++ r4) ++ u = y ++ s4
      BY <1>20, <2>3, <3>2, Grouped
    <3>4. (f ++ r3) ++ u = f ++ s3
      BY <1>20, <2>4, <3>3, Grouped
    <3>5. (x ++ r2) ++ u = x ++ s2
      BY <1>20, <2>5, <3>4, Grouped
    <3>6. (v ++ r1) ++ u = v ++ s1
      BY <2>6, <3>5, Grouped
    <3> QED  BY <1>18, <3>6
  <2>8. DecodeVersion(v ++ s1) = Ok(version, s1)
    BY <1>18, VersionAt DEF Versions
  <2>9. ReadTransaction(v ++ s1) = ReadSegwit(version, s2)
    BY <2>6, <2>8, MarkerChain
  <2>10. ReadByte(s2) = Ok(SegwitFlag, s3)
    BY <1>19, <2>5, Marker, ReadByteReads
  <2>11. DecodeVec("TxIn", s3) = Ok(input, s4)
    BY <1>6, <2>4
  <2>12. DecodeVec("TxOut", s4) = Ok(output, s5)
    BY <1>10, <2>3
  <2> HIDE DEF full
  <2>13. ReadWitnesses(input, s5) = Ok(full, s6)
    BY <1>14, <2>2 DEF full
  <2>14. ReadSegwit(version, s2) = ReadEnd(version, full, output, s6)
    BY <2>10, <2>11, <2>12, <2>13, SegwitChain
  <2>15. ReadEnd(version, full, output, s6) = Err
    <3>1. ReadEnd(version, full, output, <<b>> ++ u) = Err
      BY <1>21, EndRefuses
    <3> QED  BY <1>17, <2>1, <3>1
  <2> QED  BY <2>7, <2>9, <2>14, <2>15
<1>22. ASSUME UsizeWidth = 8
       PROVE  Encode(ReadTransaction(r).value) = r
  <2> DEFINE t == Transaction(version, b, full, output)
  <2>1. ReadTransaction(r).value = t
    BY <1>17, Results
  <2>2. t.input = full /\ t.output = output /\ t.version = version /\ t.lock_time = b
    BY DEF Transaction
  <2> HIDE DEF t
  <2>3. /\ full \in Seq(FullInputs) /\ Len(full) = Len(input) /\ DOMAIN full = DOMAIN input
        /\ [j \in 1 .. Len(full) |-> full[j].witness] = ws
        /\ \A j \in DOMAIN full : full[j].witness = ws[j]
        /\ EncodeVec("TxIn", full) = EncodeVec("TxIn", input)
    BY <1>14, InputsFilled
  <2> HIDE DEF full
  <2>4. \A in \in FullInputs : in.witness \in Witnesses
    BY DEF FullInputs, TxIn
  <2>5. UsesSegwitSerialization(t)
    <3>1. CASE input = << >>
      <4>1. Len(full) = 0
        BY <2>3, <3>1
      <4>2. full = << >>
        BY <2>3, <4>1, EmptySeq
      <4> QED  BY <2>2, <4>2 DEF UsesSegwitSerialization
    <3>2. CASE input # << >>
      <4>1. PICK j \in DOMAIN input : ws[j] # << >>
        BY <1>14, <3>2 DEF Worthwhile
      <4> QED  BY <2>2, <2>3, <4>1 DEF UsesSegwitSerialization
    <3> QED  BY <3>1, <3>2
  <2>6. PICK mf \in Bytes : mf = x ++ f /\ mf = <<SegwitMarker, SegwitFlag>>
    <3>1. x ++ f = <<SegwitMarker, SegwitFlag>>
      BY <1>19, <1>22, Marker, MarkerAndFlag
    <3> QED  BY <3>1, MarkerAndFlag
  <2>7. Encode(t) = ((((v ++ mf) ++ y) ++ z) ++ w) ++ r6
    <3>1. Encode(t) = ((((<<t.version>> ++ <<SegwitMarker, SegwitFlag>>)
                                ++ EncodeVec("TxIn", t.input)) ++ EncodeVec("TxOut", t.output))
                               ++ Codes(WitnessCode, [j \in 1 .. Len(t.input) |-> t.input[j].witness]))
                        ++ <<t.lock_time>>
      BY <2>2, <2>3, <2>4, <2>5, EncodeForms, Zenon
    <3>2. [j \in 1 .. Len(t.input) |-> t.input[j].witness] = ws
      BY <2>2, <2>3
    <3>3. Encode(t) = ((((<<t.version>> ++ <<SegwitMarker, SegwitFlag>>)
                                ++ EncodeVec("TxIn", t.input)) ++ EncodeVec("TxOut", t.output))
                               ++ Codes(WitnessCode, ws)) ++ <<t.lock_time>>
      BY <3>1, <3>2, Zenon
    <3> QED  BY <1>6, <1>10, <1>14, <1>17, <1>18, <1>22, <2>2, <2>3, <2>6, <3>3
  <2>8. ((((v ++ mf) ++ y) ++ z) ++ w) ++ r6 = r
    <3>1. PICK p1 \in Bytes : p1 = v ++ mf
      BY Closed
    <3>2. PICK p2 \in Bytes : p2 = p1 ++ y
      BY Closed
    <3>3. PICK p3 \in Bytes : p3 = p2 ++ z
      BY Closed
    <3>4. (p3 ++ w) ++ r6 = p3 ++ r5
      BY <1>14, Grouped
    <3>5. (p2 ++ z) ++ r5 = p2 ++ r4
      BY <1>20, Grouped
    <3>6. (p1 ++ y) ++ r4 = p1 ++ r3
      BY <1>20, Grouped
    <3>7. (v ++ mf) ++ r3 = v ++ (mf ++ r3)
      BY Grouped
    <3>8. (x ++ f) ++ r3 = x ++ r2
      BY <1>20, Grouped
    <3> QED  BY <1>18, <2>6, <3>1, <3>2, <3>3, <3>4, <3>5, <3>6, <3>7, <3>8
  <2> QED  BY <2>1, <2>7, <2>8
<1> QED  BY <1>21, <1>22

\* Whatever is accepted is refused with more bytes behind it, and is the only
\* way to write what is read from it where a usize holds every length.
LEMMA TransactionTook ==
  ASSUME NEW r \in Bytes, ReadTransaction(r).ok
  PROVE  /\ \A u \in Bytes : u # << >> => ReadTransaction(r ++ u) = Err
         /\ UsizeWidth = 8 => Encode(ReadTransaction(r).value) = r
<1>0. "TxIn" \in Types /\ Got("TxIn") = Inputs(Data)
  BY DEF Types, Got
<1>1. DecodeVersion(r).ok
  BY Results DEF ReadTransaction, Then
<1>2. PICK version \in Versions, r1 \in Bytes :
        version \in Byte /\ r = <<version>> ++ r1 /\ DecodeVersion(r) = Ok(version, r1)
  BY <1>1, VersionTook
<1>3. DecodeVersion(r).value = version /\ DecodeVersion(r).rest = r1
  BY <1>2, Results
<1>4. DecodeVec("TxIn", r1).ok
  <2> SUFFICES ASSUME ~DecodeVec("TxIn", r1).ok PROVE FALSE
    OBVIOUS
  <2>1. ReadTransaction(r) = Err
    BY <1>1, <1>3, Zenon DEF ReadTransaction, Then
  <2> QED  BY <2>1, Results
<1>5. PICK input \in Seq(Inputs(Data)), x \in Bytes, r2 \in Bytes :
        /\ Took(r1, x, r2)
        /\ Len(input) \in VarInts
        /\ DecodeVec("TxIn", r1) = Ok(input, r2)
        /\ \A u \in Bytes : DecodeVec("TxIn", x ++ u) = Ok(input, u)
        /\ UsizeWidth = 8 => x = EncodeVec("TxIn", input)
  BY <1>0, <1>4, VecTook
<1>6. r1 = x ++ r2
  BY <1>5 DEF Took
<1>7. CASE input # << >>
  BY <1>2, <1>5, <1>6, <1>7, PlainTook
<1>8. CASE input = << >>
  BY <1>2, <1>5, <1>6, <1>8, SegwitTook
<1> QED  BY <1>7, <1>8

-----------------------------------------------------------------------------
(* The way.                                                                *)

\* What is on its way are the bytes of the transaction, a part of them or as
\* many others, and what was received is what a reader makes of them.
Delivery ==
  /\ tx \in BitcoinTransactions
  /\ wire \in Bytes
  /\ intact => wire = << >> \/ wire = Encode(tx)
  /\ \/ wire = << >>
     \/ Len(wire) = Len(Encode(tx))
     \/ \E n \in 1 .. Len(Encode(tx)) - 1 : wire = SubSeq(Encode(tx), 1, n)
  /\ received = IF arrived THEN ReadTransaction(wire) ELSE Err
  /\ arrived => wire # << >>

\* A changed byte leaves a string of the same length.
LEMMA ChangedString ==
  ASSUME NEW r \in Bytes, NEW k \in 1 .. Len(r), NEW b \in Byte
  PROVE  [r EXCEPT ![k] = b] \in Bytes /\ Len([r EXCEPT ![k] = b]) = Len(r)
  BY DEF Bytes

\* Serializing, cutting, changing and receiving keep the invariant.
LEMMA DeliveryInvariant == DeliverySpec => []Delivery
<1>1. DeliveryInit => Delivery
  <2> SUFFICES ASSUME DeliveryInit PROVE Delivery
    OBVIOUS
  <2>1. tx \in BitcoinTransactions
    BY TransactionsAssumption DEF DeliveryInit
  <2> QED  BY <2>1, NoBytes DEF DeliveryInit, Delivery
<1>2. Delivery /\ [DeliveryNext]_deliveryVars => Delivery'
  <2> SUFFICES ASSUME Delivery, [DeliveryNext]_deliveryVars PROVE Delivery'
    OBVIOUS
  <2>0. Encode(tx) \in Bytes /\ Len(Encode(tx)) \in Nat /\ Len(wire) \in Nat
    <3>1. Encode(tx) \in Bytes
      BY TransactionReads DEF Delivery
    <3> QED  BY <3>1, Lengths DEF Delivery
  <2>1. CASE Serialize
    BY <2>0, <2>1 DEF Delivery, Serialize
  <2>2. ASSUME NEW n \in 1 .. Len(wire), Cut(n)
        PROVE  Delivery'
    <3>1. /\ wire = Encode(tx) /\ wire # << >> /\ n < Len(wire) /\ ~arrived /\ received = Err
          /\ wire' = SubSeq(wire, 1, n) /\ ~intact' /\ tx' = tx /\ arrived' = arrived
          /\ received' = received
      BY <2>2 DEF Delivery, Cut, OnTheWay
    <3>2. n \in 0 .. Len(wire) /\ n \in 1 .. Len(Encode(tx)) - 1
      BY <2>0, <3>1
    <3>3. wire' \in Bytes
      <4>1. \E a, t \in Bytes : a = SubSeq(wire, 1, n)
        BY <2>0, <3>1, <3>2, Cuts
      <4> QED  BY <3>1, <4>1
    <3>4. wire' = SubSeq(Encode(tx'), 1, n) /\ n \in 1 .. Len(Encode(tx')) - 1
      BY <3>1, <3>2
    <3> QED  BY <3>1, <3>3, <3>4 DEF Delivery
  <2>3. ASSUME NEW k \in 1 .. Len(wire), NEW byte \in Byte, Change(k, byte)
        PROVE  Delivery'
    <3>1. /\ wire = Encode(tx) /\ ~arrived /\ received = Err
          /\ wire' = [wire EXCEPT ![k] = byte] /\ ~intact' /\ tx' = tx /\ arrived' = arrived
          /\ received' = received
      BY <2>3 DEF Delivery, Change, OnTheWay
    <3>2. wire' \in Bytes /\ Len(wire') = Len(Encode(tx'))
      BY <2>0, <3>1, ChangedString
    <3> QED  BY <3>1, <3>2 DEF Delivery
  <2>4. CASE Receive
    BY <2>4 DEF Delivery, Receive
  <2>5. CASE Delivered
    BY <2>5 DEF Delivery, Delivered, deliveryVars
  <2>6. CASE UNCHANGED deliveryVars
    BY <2>6 DEF Delivery, deliveryVars
  <2> QED  BY <2>1, <2>2, <2>3, <2>4, <2>5, <2>6 DEF DeliveryNext
<1> QED  BY <1>1, <1>2, PTL DEF DeliverySpec

\* The inputs of every transaction, without their witnesses, and its outputs read
\* back from what was written, and the bytes behind them are left alone
\* (consensus_encode and consensus_decode of the vectors).
THEOREM EachPartReadsBack == DeliverySpec => []PartsReadBack
<1>1. Delivery => PartsReadBack
  <2> SUFFICES ASSUME Delivery PROVE PartsReadBack
    OBVIOUS
  <2>1. tx \in BitcoinTransactions /\ tx.lock_time \in Byte
    BY DEF Delivery, BitcoinTransactions
  <2>2. <<tx.lock_time>> \in Bytes
    BY <2>1, OneByte
  <2> QED  BY <2>1, <2>2, PartsRead DEF PartsReadBack, Bare, ++
<1> QED  BY <1>1, DeliveryInvariant, PTL

\* Bytes that nothing happened to are read as the transaction that was
\* serialized (serialize and consensus_decode of BitcoinTransaction).
THEOREM WholeArrives == DeliverySpec => []ArrivesWhole
<1>1. Delivery => ArrivesWhole
  <2> SUFFICES ASSUME Delivery, intact, arrived PROVE received.ok /\ received.value = tx
    BY DEF ArrivesWhole
  <2>1. received = Ok(tx, << >>)
    BY TransactionReads DEF Delivery
  <2> QED  BY <2>1, Results
<1> QED  BY <1>1, DeliveryInvariant, PTL

\* No part of the bytes of a transaction reads as a transaction: every reader
\* along the way needs what was cut off.
THEOREM PrefixRefused == DeliverySpec => []NoPrefixAccepted
<1>1. Delivery => NoPrefixAccepted
  <2> SUFFICES ASSUME Delivery, received.ok, Len(wire) # Len(Encode(tx)) PROVE FALSE
    BY DEF NoPrefixAccepted
  <2>1. received = ReadTransaction(wire) /\ arrived /\ wire # << >> /\ wire \in Bytes
    BY Results DEF Delivery
  <2>2. PICK n \in 1 .. Len(Encode(tx)) - 1 : wire = SubSeq(Encode(tx), 1, n)
    BY <2>1 DEF Delivery
  <2>3. Encode(tx) \in Bytes /\ ReadTransaction(Encode(tx)) = Ok(tx, << >>)
    BY TransactionReads DEF Delivery
  <2>4. n \in 0 .. Len(Encode(tx)) /\ Len(Encode(tx)) \in Nat /\ n < Len(Encode(tx)) /\ n \in Nat
    BY <2>3, Lengths
  <2>5. PICK a \in Bytes, t \in Bytes : Encode(tx) = a ++ t /\ Len(a) = n /\ a = wire
    BY <2>2, <2>3, <2>4, Cuts
  <2>6. t # << >>
    <3>1. Len(Encode(tx)) = n + Len(t) /\ Len(t) \in Nat
      BY <2>5, Lengths
    <3>2. Len(t) # 0
      BY <2>4, <3>1
    <3> QED  BY <3>2, NoBytes
  <2>7. ReadTransaction(wire ++ t) = Err
    BY <2>1, <2>6, TransactionTook
  <2> QED  BY <2>3, <2>5, <2>7, Results
<1> QED  BY <1>1, DeliveryInvariant, PTL

\* Where a usize holds every length that a VarInt can say, bytes that are accepted
\* are the ones that serialize writes for what was read.
THEOREM OneEncodingEach ==
  ASSUME UsizeWidth = 8
  PROVE  DeliverySpec => []AcceptedIsCanonical
<1>1. Delivery => AcceptedIsCanonical
  <2> SUFFICES ASSUME Delivery, received.ok PROVE Encode(received.value) = wire
    BY DEF AcceptedIsCanonical
  <2>1. received = ReadTransaction(wire) /\ wire \in Bytes
    BY Results DEF Delivery
  <2> QED  BY <2>1, TransactionTook
<1> QED  BY <1>1, DeliveryInvariant, PTL
=============================================================================
