------------------------------ MODULE EvmProofs ------------------------------
(***************************************************************************)
(* EVM transactions, for every value of their fields: what the two         *)
(* builders write through the stream a node reads back (ReadsBack); a      *)
(* signature that was asked for from a transaction is good for that one    *)
(* and no other (AcceptedExactlyIfFresh), so that a session does no more   *)
(* than IdealAuthorization allows; from_json reads what each text says     *)
(* (AsWritten).                                                            *)
(***************************************************************************)
EXTENDS EvmEncoding, EvmSession, EvmFromJson, SequenceInduction

-----------------------------------------------------------------------------
(* Numbers and their bytes.                                                *)

\* A value of the recursion for each number up to m.
BytesUpTo(f, m) ==
  /\ f \in [0 .. m -> Seq(Byte)]
  /\ \A n \in 0 .. m : f[n] = IF n = 0 THEN << >> ELSE Append(f[n \div 256], n % 256)

\* The last byte of a number and the others.
LEMMA Quotient ==
  \A n \in Nat \ {0} : /\ n \div 256 \in Nat /\ n \div 256 < n
                       /\ n % 256 \in Byte /\ n = 256 * (n \div 256) + (n % 256)
                       /\ (n \div 256 = 0 => n % 256 # 0)
  BY DEF Byte

\* The recursion of BigEndian has values up to any number.
LEMMA BytesUpToExist == \A m \in Nat : \E f : BytesUpTo(f, m)
<1> DEFINE Reached == {m \in Nat : \E f : BytesUpTo(f, m)}
<1>1. 0 \in Reached
  <2> DEFINE f == [n \in 0 .. 0 |-> << >>]
  <2>1. BytesUpTo(f, 0)
    BY DEF BytesUpTo
  <2> QED  BY <2>1
<1>2. ASSUME NEW m \in Reached
      PROVE  m + 1 \in Reached
  <2>1. PICK g : BytesUpTo(g, m)
    OBVIOUS
  <2> DEFINE last == Append(g[(m + 1) \div 256], (m + 1) % 256)
             f == [n \in 0 .. m + 1 |-> IF n = m + 1 THEN last ELSE g[n]]
  <2>2. m \in Nat /\ (m + 1) \div 256 \in 0 .. m /\ (m + 1) % 256 \in Byte
    BY DEF Byte
  <2>3. last \in Seq(Byte)
    BY <2>1, <2>2 DEF BytesUpTo
  <2>4. f \in [0 .. m + 1 -> Seq(Byte)]
    <3> HIDE DEF last
    <3> QED  BY <2>1, <2>2, <2>3 DEF BytesUpTo
  <2>5. ASSUME NEW n \in 0 .. m + 1
        PROVE  f[n] = IF n = 0 THEN << >> ELSE Append(f[n \div 256], n % 256)
    <3>1. CASE n = m + 1
      <4>1. n # 0 /\ n \div 256 \in 0 .. m + 1 /\ n \div 256 # m + 1
        BY <2>2, <3>1
      <4>2. f[n \div 256] = g[n \div 256]
        <5> HIDE DEF last
        <5> QED  BY <4>1
      <4> QED  BY <3>1, <4>1, <4>2
    <3>2. CASE n # m + 1
      <4>1. n \in 0 .. m /\ n \in Nat
        BY <2>2, <3>2
      <4>2. f[n] = g[n]
        BY <3>2
      <4>3. CASE n = 0
        BY <2>1, <4>1, <4>2, <4>3 DEF BytesUpTo
      <4>4. CASE n # 0
        <5>1. n \div 256 \in 0 .. m + 1 /\ n \div 256 # m + 1
          BY <2>2, <4>1, <4>4, Quotient
        <5>2. f[n \div 256] = g[n \div 256]
          <6> HIDE DEF last
          <6> QED  BY <5>1
        <5>3. g[n] = Append(g[n \div 256], n % 256)
          BY <2>1, <4>1, <4>4, ZenonT(60) DEF BytesUpTo
        <5> QED  BY <4>2, <4>4, <5>2, <5>3
      <4> QED  BY <4>3, <4>4
    <3> QED  BY <3>1, <3>2
  <2>6. BytesUpTo(f, m + 1)
    <3> HIDE DEF f
    <3> QED  BY <2>4, <2>5 DEF BytesUpTo
  <2> QED  BY <2>2, <2>6
<1>3. Reached = Nat
  <2> HIDE DEF Reached
  <2>1. Reached \in SUBSET Nat
    BY DEF Reached
  <2> QED  BY <1>1, <1>2, <2>1, SetInduction
<1> QED  BY <1>3

\* Those values are the same for every bound.
LEMMA BytesUpToAgree ==
  ASSUME NEW m \in Nat, NEW k \in Nat, NEW f, NEW g, BytesUpTo(f, m), BytesUpTo(g, k)
  PROVE  \A n \in 0 .. m : n <= k => f[n] = g[n]
<1> DEFINE Differ == {n \in Nat : n <= m /\ n <= k /\ f[n] # g[n]}
<1>1. SUFFICES ASSUME Differ # {} PROVE FALSE
  OBVIOUS
<1>2. PICK n \in Differ : \A j \in Differ : n <= j
  <2>1. Differ \in SUBSET Nat
    OBVIOUS
  <2> HIDE DEF Differ
  <2> QED  BY <1>1, <2>1, LeastElement
<1>0. \A h, l : BytesUpTo(h, l) =>
        \A j \in 0 .. l : h[j] = IF j = 0 THEN << >> ELSE Append(h[j \div 256], j % 256)
  BY DEF BytesUpTo
<1>a. n \in Nat /\ n \in 0 .. m /\ n \in 0 .. k /\ f[n] # g[n]
  OBVIOUS
<1>3. n # 0
  BY <1>0, <1>a
<1>4. n \div 256 \in Nat /\ n \div 256 < n
  BY <1>3, Quotient
<1>5. f[n \div 256] = g[n \div 256]
  <2>1. n \div 256 \notin Differ
    BY <1>2, <1>4
  <2> QED  BY <1>4, <2>1
<1>6. f[n] = Append(f[n \div 256], n % 256) /\ g[n] = Append(g[n \div 256], n % 256)
  <2> HIDE DEF Differ
  <2>1. /\ f[n] = IF n = 0 THEN << >> ELSE Append(f[n \div 256], n % 256)
        /\ g[n] = IF n = 0 THEN << >> ELSE Append(g[n \div 256], n % 256)
    BY <1>0, <1>a
  <2> QED  BY <1>3, <2>1
<1> QED  BY <1>5, <1>6, <1>a

\* The bytes of a number are those of its 256th and its last byte.
LEMMA BigEndianAt ==
  /\ BigEndian \in [Nat -> Seq(Byte)]
  /\ \A n \in Nat : BigEndian[n] = IF n = 0 THEN << >> ELSE Append(BigEndian[n \div 256], n % 256)
<1> DEFINE upTo(m) == CHOOSE f : BytesUpTo(f, m)
           G == [n \in Nat |-> upTo(n)[n]]
           F(f) == [n \in Nat |-> IF n = 0 THEN << >> ELSE Append(f[n \div 256], n % 256)]
<1>1. \A m \in Nat : BytesUpTo(upTo(m), m)
  BY BytesUpToExist
<1> HIDE DEF upTo
<1>2. G \in [Nat -> Seq(Byte)]
  <2>1. \A n \in Nat : upTo(n)[n] \in Seq(Byte)
    BY <1>1 DEF BytesUpTo
  <2> QED  BY <2>1
<1>3. ASSUME NEW n \in Nat
      PROVE  G[n] = IF n = 0 THEN << >> ELSE Append(G[n \div 256], n % 256)
  <2>1. upTo(n)[n] = IF n = 0 THEN << >> ELSE Append(upTo(n)[n \div 256], n % 256)
    BY <1>1 DEF BytesUpTo
  <2>2. CASE n = 0
    BY <2>1, <2>2
  <2>3. CASE n # 0
    <3> DEFINE q == n \div 256
    <3>1. q \in Nat /\ q < n
      BY <2>3, Quotient
    <3> HIDE DEF q
    <3>2. upTo(q)[q] = upTo(n)[q]
      <4>1. q \in 0 .. q /\ q <= n
        BY <3>1
      <4>2. BytesUpTo(upTo(q), q) /\ BytesUpTo(upTo(n), n)
        BY <1>1, <3>1
      <4> QED  BY <3>1, <4>1, <4>2, BytesUpToAgree
    <3>3. G[q] = upTo(n)[q]
      BY <3>1, <3>2
    <3> QED  BY <2>1, <2>3, <3>3 DEF q
  <2> QED  BY <2>2, <2>3
<1>4. G = F(G)
  <2>1. G = [n \in Nat |-> G[n]]
    BY <1>2
  <2> HIDE DEF G
  <2> QED  BY <1>3, <2>1
<1>5. BigEndian = CHOOSE f : f = F(f)
  BY Zenon DEF BigEndian
<1>6. BigEndian = F(BigEndian)
  <2> HIDE DEF F
  <2> QED  BY <1>4, <1>5, Zenon
<1>7. \A n \in Nat : BigEndian[n] = IF n = 0 THEN << >> ELSE Append(BigEndian[n \div 256], n % 256)
  <2>1. \A n \in Nat : F(BigEndian)[n] = IF n = 0 THEN << >> ELSE Append(BigEndian[n \div 256], n % 256)
    OBVIOUS
  <2> HIDE DEF F
  <2> QED  BY <1>6, <2>1
<1>8. \A n \in Nat : BigEndian[n] \in Seq(Byte)
  <2> DEFINE Wrong == {n \in Nat : BigEndian[n] \notin Seq(Byte)}
  <2>1. SUFFICES ASSUME Wrong # {} PROVE FALSE
    OBVIOUS
  <2>2. PICK n \in Wrong : \A j \in Wrong : n <= j
    <3>1. Wrong \in SUBSET Nat
      OBVIOUS
    <3> HIDE DEF Wrong
    <3> QED  BY <2>1, <3>1, LeastElement
  <2>a. n \in Nat /\ BigEndian[n] \notin Seq(Byte)
    OBVIOUS
  <2>b. << >> \in Seq(Byte)
    OBVIOUS
  <2> HIDE DEF Wrong, F
  <2>3. n # 0
    BY <1>7, <2>a, <2>b
  <2>4. n \div 256 \in Nat /\ n \div 256 < n /\ n % 256 \in Byte
    BY <2>3, <2>a, Quotient
  <2>5. BigEndian[n \div 256] \in Seq(Byte)
    <3>1. n \div 256 \notin Wrong
      <4>1. ~ (n <= n \div 256)
        BY <2>4, <2>a
      <4> QED  BY <2>2, <4>1
    <3> QED  BY <2>4, <3>1 DEF Wrong
  <2>6. BigEndian[n] = Append(BigEndian[n \div 256], n % 256)
    BY <1>7, <2>3, <2>a
  <2> QED  BY <2>4, <2>5, <2>6, <2>a, AppendProperties
<1>9. BigEndian = [n \in Nat |-> BigEndian[n]]
  <2>1. F(BigEndian) = [n \in Nat |-> F(BigEndian)[n]]
    OBVIOUS
  <2> HIDE DEF F
  <2> QED  BY <1>6, <2>1
<1> QED  BY <1>7, <1>8, <1>9

\* What holds of 0, and of a number if of its 256th, holds of all numbers.
LEMMA ByteInduction ==
  ASSUME NEW P \in SUBSET Nat, 0 \in P,
         \A n \in Nat \ {0} : n \div 256 \in P => n \in P
  PROVE  P = Nat
<1> SUFFICES ASSUME Nat \ P # {} PROVE FALSE
  OBVIOUS
<1>1. PICK n \in Nat \ P : \A j \in Nat \ P : n <= j
  BY LeastElement
<1>2. n \in Nat \ {0}
  OBVIOUS
<1>3. n \div 256 \in Nat /\ ~ (n <= n \div 256)
  BY <1>2, Quotient
<1>4. n \div 256 \in P
  BY <1>1, <1>3
<1> QED  BY <1>2, <1>4

\* The first byte of a number is not zero, and only zero has none.
LEMMA NoLeadingZero ==
  \A n \in Nat : BigEndian[n] = << >> <=> n = 0
<1> TAKE n \in Nat
<1>1. CASE n = 0
  BY <1>1, BigEndianAt
<1>2. CASE n # 0
  <2>1. n \div 256 \in Nat /\ n % 256 \in Byte
    BY <1>2, Quotient
  <2>2. BigEndian[n] = Append(BigEndian[n \div 256], n % 256) /\ BigEndian[n \div 256] \in Seq(Byte)
    <3>1. BigEndian[n] = Append(BigEndian[n \div 256], n % 256)
      BY <1>2, BigEndianAt, Zenon
    <3>2. \A m \in Nat : BigEndian[m] \in Seq(Byte)
      BY BigEndianAt
    <3> QED  BY <2>1, <3>1, <3>2, Zenon
  <2>3. BigEndian[n] # << >>
    BY <2>1, <2>2, AppendProperties
  <2> QED  BY <1>2, <2>3
<1> QED  BY <1>1, <1>2

\* The first byte of a number is not zero.
LEMMA FirstByte ==
  \A n \in Nat \ {0} : BigEndian[n] # << >> /\ BigEndian[n][1] # 0
<1> DEFINE P == {n \in Nat : n = 0 \/ BigEndian[n][1] # 0}
<1>1. 0 \in P
  OBVIOUS
<1>2. ASSUME NEW n \in Nat \ {0}, n \div 256 \in P
      PROVE  n \in P
  <2> DEFINE q == n \div 256  d == n % 256
  <2>1. q \in Nat /\ d \in Byte /\ (q = 0 => d # 0) /\ n \in Nat /\ n # 0
    BY Quotient
  <2>2. q = 0 \/ BigEndian[q][1] # 0
    BY <1>2
  <2>3. BigEndian[n] = Append(BigEndian[q], d)
    BY BigEndianAt
  <2> HIDE DEF q, d
  <2>4. BigEndian[q] \in Seq(Byte)
    BY <2>1, BigEndianAt
  <2>5. CASE q = 0
    <3>1. BigEndian[q] = << >>
      BY <2>5, <2>1, NoLeadingZero
    <3>2. BigEndian[n][1] = d
      BY <2>3, <3>1
    <3> QED  BY <2>1, <2>5, <3>2
  <2>6. CASE q # 0
    <3>1. BigEndian[q] # << >>
      BY <2>1, <2>6, NoLeadingZero
    <3>2. 1 \in 1 .. Len(BigEndian[q])
      BY <2>4, <3>1, EmptySeq
    <3>3. BigEndian[n][1] = BigEndian[q][1]
      BY <2>1, <2>3, <2>4, <3>2, AppendProperties
    <3> QED  BY <2>1, <2>2, <2>6, <3>3
  <2> QED  BY <2>5, <2>6
<1>3. P = Nat
  <2> HIDE DEF P
  <2>1. P \in SUBSET Nat
    BY DEF P
  <2> QED  BY <1>1, <1>2, <2>1, ByteInduction
<1>4. \A n \in Nat \ {0} : n \in P
  BY <1>3
<1> QED  BY <1>4, NoLeadingZero

\* The last byte is one more.
LEMMA OneByteMore ==
  ASSUME NEW n \in Nat \ {0}
  PROVE  n \div 256 \in Nat /\ Len(BigEndian[n]) = Len(BigEndian[n \div 256]) + 1
<1> DEFINE q == n \div 256  d == n % 256
<1>1. q \in Nat /\ d \in Byte
  BY Quotient
<1>2. BigEndian[n] = Append(BigEndian[q], d)
  BY BigEndianAt
<1> HIDE DEF q, d
<1>3. BigEndian[q] \in Seq(Byte)
  BY <1>1, BigEndianAt
<1>4. Len(BigEndian[n]) = Len(BigEndian[q]) + 1
  BY <1>1, <1>2, <1>3, AppendProperties
<1> QED  BY <1>1, <1>4 DEF q

\* A larger number has no fewer bytes.
LEMMA MoreBytes ==
  \A n \in Nat : \A m \in 0 .. n : Len(BigEndian[m]) <= Len(BigEndian[n])
<1> DEFINE P == {n \in Nat : \A m \in 0 .. n : Len(BigEndian[m]) <= Len(BigEndian[n])}
<1>0. \A n \in Nat : Len(BigEndian[n]) \in Nat
  BY BigEndianAt
<1>1. 0 \in P
  <2>1. \A m \in 0 .. 0 : Len(BigEndian[m]) <= Len(BigEndian[0])
    BY <1>0
  <2> QED  BY <2>1
<1>2. ASSUME NEW n \in Nat \ {0}, n \div 256 \in P
      PROVE  n \in P
  <2>1. n \div 256 \in Nat /\ n % 256 \in Byte
    BY Quotient
  <2>2. Len(BigEndian[n]) = Len(BigEndian[n \div 256]) + 1
    BY OneByteMore
  <2>3. ASSUME NEW m \in 0 .. n
        PROVE  Len(BigEndian[m]) <= Len(BigEndian[n])
    <3>1. CASE m = 0
      <4>1. Len(BigEndian[m]) = 0
        BY <3>1, BigEndianAt, EmptySeq
      <4> QED  BY <4>1, <1>0
    <3>2. CASE m # 0
      <4>1. m \div 256 \in 0 .. n \div 256 /\ m % 256 \in Byte /\ m \in Nat /\ m \div 256 \in Nat
        BY <3>2 DEF Byte
      <4>2. Len(BigEndian[m]) = Len(BigEndian[m \div 256]) + 1
        BY <3>2, <4>1, OneByteMore
      <4>3. Len(BigEndian[m \div 256]) <= Len(BigEndian[n \div 256])
        BY <1>2, <4>1
      <4> QED  BY <1>0, <2>1, <2>2, <4>1, <4>2, <4>3
    <3> QED  BY <3>1, <3>2
  <2> QED  BY <2>3
<1>3. P = Nat
  <2> HIDE DEF P
  <2>1. P \in SUBSET Nat
    BY DEF P
  <2> QED  BY <1>1, <1>2, <2>1, ByteInduction
<1>4. \A n \in Nat : n \in P
  BY <1>3
<1> QED  BY <1>4

-----------------------------------------------------------------------------

\* v is the value of the first k bytes at each k.
ValuesOf(v, bytes) ==
  v = [k \in 0 .. Len(bytes) |-> IF k = 0 THEN 0 ELSE 256 * v[k - 1] + bytes[k]]

\* The recursion of NumberOf has values.
LEMMA ValuesExist ==
  ASSUME NEW bytes \in Seq(Byte)
  PROVE  \E v \in [0 .. Len(bytes) -> Nat] : ValuesOf(v, bytes)
<1> DEFINE n == Len(bytes)
           h == [kv \in (1 .. n) \X Nat |-> 256 * kv[2] + bytes[kv[1]]]
<1>1. n \in Nat
  OBVIOUS
<1>2. h \in [(1 .. n) \X Nat -> Nat]
  <2>1. \A kv \in (1 .. n) \X Nat : 256 * kv[2] + bytes[kv[1]] \in Nat
    <3> TAKE kv \in (1 .. n) \X Nat
    <3>1. kv[2] \in Nat /\ bytes[kv[1]] \in Byte
      OBVIOUS
    <3>0. Byte \subseteq Nat
      BY DEF Byte
    <3>2. bytes[kv[1]] \in Nat
      BY <3>0, <3>1
    <3>3. \A a, b \in Nat : 256 * a + b \in Nat
      OBVIOUS
    <3> QED  BY <3>1, <3>2, <3>3
  <2> QED  BY <2>1
<1>3. \A k \in 1 .. n : \A v \in Nat : h[<<k, v>>] = 256 * v + bytes[k]
  OBVIOUS
<1> HIDE DEF h
<1>4. PICK v \in [0 .. n -> Nat] : Iterated(v, 0, n, h)
  <2> HIDE DEF n
  <2> QED  BY <1>1, <1>2, IterationExists
<1>5. ASSUME NEW k \in 0 .. n
      PROVE  v[k] = IF k = 0 THEN 0 ELSE 256 * v[k - 1] + bytes[k]
  <2>1. v[k] = IF k = 0 THEN 0 ELSE h[<<k, v[k - 1]>>]
    <3> DEFINE I == [j \in 0 .. n |-> IF j = 0 THEN 0 ELSE h[<<j, v[j - 1]>>]]
    <3>1. v = I
      BY <1>4 DEF Iterated
    <3>2. I[k] = IF k = 0 THEN 0 ELSE h[<<k, v[k - 1]>>]
      OBVIOUS
    <3> HIDE DEF I
    <3> QED  BY <3>1, <3>2
  <2>2. k # 0 => k \in 1 .. n /\ v[k - 1] \in Nat
    BY <1>1
  <2> QED  BY <1>3, <2>1, <2>2
<1>6. ValuesOf(v, bytes)
  <2> DEFINE w == [k \in 0 .. n |-> IF k = 0 THEN 0 ELSE 256 * v[k - 1] + bytes[k]]
  <2>1. ASSUME NEW k \in 0 .. n
        PROVE  w[k] = v[k]
    <3>1. w[k] = IF k = 0 THEN 0 ELSE 256 * v[k - 1] + bytes[k]
      OBVIOUS
    <3> HIDE DEF w
    <3> QED  BY <1>5, <3>1
  <2>2. w = v
    <3>1. v = [k \in 0 .. n |-> v[k]] /\ w = [k \in 0 .. n |-> w[k]]
      OBVIOUS
    <3> HIDE DEF w
    <3> QED  BY <2>1, <3>1, Zenon
  <2> QED  BY <2>2 DEF ValuesOf
<1> QED  BY <1>6

\* Each follows from the one before.
LEMMA ValuesAt ==
  ASSUME NEW v, NEW bytes, ValuesOf(v, bytes), NEW k \in 0 .. Len(bytes)
  PROVE  v[k] = IF k = 0 THEN 0 ELSE 256 * v[k - 1] + bytes[k]
<1> DEFINE I == [j \in 0 .. Len(bytes) |-> IF j = 0 THEN 0 ELSE 256 * v[j - 1] + bytes[j]]
<1>1. v = I
  BY DEF ValuesOf
<1>2. I[k] = IF k = 0 THEN 0 ELSE 256 * v[k - 1] + bytes[k]
  OBVIOUS
<1> HIDE DEF I
<1> QED  BY <1>1, <1>2

\* They depend on the bytes so far and on nothing else.
LEMMA ValuesAgree ==
  ASSUME NEW v, NEW w, NEW s \in Seq(Byte), NEW t \in Seq(Byte), Len(s) <= Len(t),
         ValuesOf(v, s), ValuesOf(w, t), \A i \in 1 .. Len(s) : s[i] = t[i]
  PROVE  \A k \in 0 .. Len(s) : v[k] = w[k]
<1> DEFINE Same == {k \in Nat : k <= Len(s) => v[k] = w[k]}
<1>0. Len(s) \in Nat /\ Len(t) \in Nat
  OBVIOUS
<1>1. 0 \in Same
  <2>1. 0 \in 0 .. Len(s) /\ 0 \in 0 .. Len(t)
    BY <1>0
  <2>2. v[0] = 0 /\ w[0] = 0
    BY <2>1, ValuesAt
  <2> QED  BY <2>2
<1>2. ASSUME NEW k \in Same
      PROVE  k + 1 \in Same
  <2> SUFFICES ASSUME k + 1 <= Len(s)
               PROVE  v[k + 1] = w[k + 1]
    OBVIOUS
  <2>1. k \in Nat /\ v[k] = w[k] /\ k + 1 \in 0 .. Len(s) /\ k + 1 \in 0 .. Len(t)
        /\ k + 1 \in 1 .. Len(s) /\ k + 1 # 0 /\ (k + 1) - 1 = k
    BY <1>0
  <2>2. v[k + 1] = 256 * v[(k + 1) - 1] + s[k + 1] /\ w[k + 1] = 256 * w[(k + 1) - 1] + t[k + 1]
    BY <2>1, ValuesAt
  <2>3. s[k + 1] = t[k + 1]
    BY <2>1
  <2> QED  BY <2>1, <2>2, <2>3
<1>3. Same = Nat
  <2> HIDE DEF Same
  <2>1. Same \in SUBSET Nat
    BY DEF Same
  <2> QED  BY <1>1, <1>2, <2>1, SetInduction
<1> QED  BY <1>0, <1>3

\* The last one is the number.
LEMMA NumberOfValues ==
  ASSUME NEW bytes \in Seq(Byte)
  PROVE  \E v \in [0 .. Len(bytes) -> Nat] : ValuesOf(v, bytes) /\ NumberOf(bytes) = v[Len(bytes)]
<1> DEFINE value == CHOOSE v : v = [k \in 0 .. Len(bytes) |->
                                      IF k = 0 THEN 0 ELSE 256 * v[k - 1] + bytes[k]]
<1>1. NumberOf(bytes) = value[Len(bytes)]
  BY Zenon DEF NumberOf
<1>2. PICK w \in [0 .. Len(bytes) -> Nat] : ValuesOf(w, bytes)
  BY ValuesExist
<1>3. ValuesOf(value, bytes)
  BY <1>2, ZenonT(60) DEF ValuesOf
<1> HIDE DEF value
<1>4. Len(bytes) \in Nat /\ Len(bytes) <= Len(bytes) /\ Len(bytes) \in 0 .. Len(bytes)
  OBVIOUS
<1>5. \A k \in 0 .. Len(bytes) : value[k] = w[k]
  BY <1>2, <1>3, <1>4, ValuesAgree
<1> QED  BY <1>1, <1>2, <1>4, <1>5

\* One more byte.
LEMMA NumberOfAppend ==
  ASSUME NEW bytes \in Seq(Byte), NEW b \in Byte
  PROVE  NumberOf(Append(bytes, b)) = 256 * NumberOf(bytes) + b
<1> DEFINE n == Len(bytes)  t == Append(bytes, b)
<1>1. n \in Nat /\ t \in Seq(Byte) /\ Len(t) = n + 1 /\ t[n + 1] = b /\ \A i \in 1 .. n : bytes[i] = t[i]
  OBVIOUS
<1> HIDE DEF t
<1>2. PICK v : ValuesOf(v, bytes) /\ NumberOf(bytes) = v[n]
  BY NumberOfValues
<1>3. PICK w : ValuesOf(w, t) /\ NumberOf(t) = w[n + 1]
  BY <1>1, NumberOfValues
<1>4. v[n] = w[n]
  <2>1. Len(bytes) <= Len(t) /\ n \in 0 .. Len(bytes)
    BY <1>1
  <2> QED  BY <1>1, <1>2, <1>3, <2>1, ValuesAgree
<1>5. w[n + 1] = 256 * w[n] + b
  <2>1. n + 1 \in 0 .. Len(t) /\ n + 1 # 0 /\ (n + 1) - 1 = n
    BY <1>1
  <2>2. w[n + 1] = 256 * w[(n + 1) - 1] + t[n + 1]
    BY <1>3, <2>1, ValuesAt
  <2> QED  BY <1>1, <2>1, <2>2
<1> QED  BY <1>2, <1>3, <1>4, <1>5 DEF t

\* No bytes are zero.
LEMMA NumberOfNone == NumberOf(<< >>) = 0
<1>1. << >> \in Seq(Byte) /\ Len(<< >>) = 0 /\ 0 \in 0 .. Len(<< >>)
  OBVIOUS
<1>2. PICK v : ValuesOf(v, << >>) /\ NumberOf(<< >>) = v[0]
  BY <1>1, NumberOfValues
<1> QED  BY <1>1, <1>2, ValuesAt

\* The bytes of a number are read as that number.
LEMMA NumberReadsBack == \A n \in Nat : NumberOf(BigEndian[n]) = n
<1> DEFINE P == {n \in Nat : NumberOf(BigEndian[n]) = n}
<1>1. 0 \in P
  BY BigEndianAt, NumberOfNone
<1>2. ASSUME NEW n \in Nat \ {0}, n \div 256 \in P
      PROVE  n \in P
  <2> DEFINE q == n \div 256  d == n % 256
  <2>1. q \in Nat /\ d \in Byte /\ n = 256 * q + d
    BY Quotient
  <2>2. NumberOf(BigEndian[q]) = q
    BY <1>2
  <2>3. BigEndian[n] = Append(BigEndian[q], d)
    BY BigEndianAt
  <2> HIDE DEF q, d
  <2>4. BigEndian[q] \in Seq(Byte)
    BY <2>1, BigEndianAt
  <2>5. NumberOf(BigEndian[n]) = 256 * q + d
    BY <2>1, <2>2, <2>3, <2>4, NumberOfAppend
  <2> QED  BY <2>1, <2>5
<1>3. P = Nat
  <2> HIDE DEF P
  <2>1. P \in SUBSET Nat
    BY DEF P
  <2> QED  BY <1>1, <1>2, <2>1, ByteInduction
<1>4. \A n \in Nat : n \in P
  BY <1>3
<1> QED  BY <1>4

-----------------------------------------------------------------------------
(* Items: a header, and bytes of that length behind it.                    *)

\* The items that a node can be sent.
Item == [item : {"bytes", "list"}, bytes : Seq(Nat)]

\* Strings and lists.
Bases == {128, 192}

\* What a header is made of.
LEMMA ShortHeader ==
  ASSUME NEW base \in Bases, NEW len \in Nat, len <= 55
  PROVE  /\ Header(base, len) \in Seq(Nat)
         /\ Len(Header(base, len)) = 1
         /\ Header(base, len)[1] = base + len
<1>1. Header(base, len) = <<base + len>>
  BY DEF Header
<1>2. base + len \in Nat
  BY DEF Bases
<1> QED  BY <1>1, <1>2

\* The bytes of a number are numbers.
LEMMA BigEndianNat == \A n \in Nat : BigEndian[n] \in Seq(Nat)
<1>1. Byte \subseteq Nat
  BY DEF Byte
<1> TAKE n \in Nat
<1> DEFINE B == BigEndian[n]
<1>2. B \in Seq(Byte)
  BY BigEndianAt
<1> HIDE DEF B
<1>3. B \in Seq(Nat)
  BY <1>1, <1>2, SeqMonotonic
<1> QED  BY <1>3 DEF B

\* The header of more than 55 bytes begins with the length of their length.
LEMMA LongHeader ==
  ASSUME NEW base \in Bases, NEW len \in Nat, ~ len <= 55
  PROVE  /\ Len(BigEndian[len]) \in Nat \ {0}
         /\ base + 55 + Len(BigEndian[len]) \in Nat
         /\ Header(base, len) = <<base + 55 + Len(BigEndian[len])>> \o BigEndian[len]
         /\ Header(base, len) \in Seq(Nat)
         /\ Len(Header(base, len)) = 1 + Len(BigEndian[len])
         /\ Header(base, len)[1] = base + 55 + Len(BigEndian[len])
<1> DEFINE B == BigEndian[len]  size == Len(B)  first == base + 55 + size
<1>1. B \in Seq(Nat) /\ B # << >>
  BY BigEndianNat, NoLeadingZero
<1>2. size \in Nat \ {0}
  BY <1>1, EmptySeq
<1>3. Header(base, len) = <<first>> \o B
  BY DEF Header
<1> HIDE DEF size
<1>5. first \in Nat
  BY <1>2 DEF Bases
<1> HIDE DEF first, B
<1>6. <<first>> \o B \in Seq(Nat) /\ Len(<<first>> \o B) = 1 + size /\ (<<first>> \o B)[1] = first
  BY <1>1, <1>5 DEF size
<1> QED  BY <1>2, <1>3, <1>5, <1>6 DEF size, B, first

\* A header and as many bytes as it says are read as that item, and what stands
\* behind them is left.
LEMMA HeadedItem ==
  ASSUME NEW base \in Bases, NEW data \in Seq(Nat), NEW t \in Seq(Nat),
         IsLength(Len(data)), ~ (base = 128 /\ Len(data) = 1 /\ data[1] < 128)
  PROVE  FirstItem((Header(base, Len(data)) \o data) \o t)
           = [item |-> IF base = 128 THEN Bytes(data) ELSE List(data), rest |-> t]
<1> DEFINE n == Len(data)
           H == Header(base, n)
           B == BigEndian[n]
           b == (H \o data) \o t
           L == IF n <= 55 THEN 0 ELSE Len(B)
<1>a. n \in Nat /\ Len(t) \in Nat /\ B \in Seq(Nat) /\ Len(B) <= 8
  BY BigEndianNat DEF IsLength
<1>b. /\ L \in 0 .. 8 /\ (L = 0 <=> n <= 55)
      /\ H \in Seq(Nat) /\ Len(H) = 1 + L
      /\ H[1] = base + (IF n <= 55 THEN n ELSE 55 + L)
      /\ L # 0 => base + 55 + L \in Nat /\ H = <<base + 55 + L>> \o B /\ Len(B) = L
  <2>1. CASE n <= 55
    <3>1. L = 0
      BY <2>1
    <3> HIDE DEF L
    <3> QED  BY <1>a, <2>1, <3>1, ShortHeader
  <2>2. CASE ~ n <= 55
    <3>1. L = Len(B)
      BY <2>2
    <3>2. /\ L \in 1 .. 8 /\ base + 55 + L \in Nat
          /\ H = <<base + 55 + L>> \o B
          /\ H \in Seq(Nat) /\ Len(H) = 1 + L /\ H[1] = base + 55 + L
      <4>1. /\ Len(B) \in Nat \ {0}
            /\ base + 55 + Len(B) \in Nat
            /\ H = <<base + 55 + Len(B)>> \o B
            /\ H \in Seq(Nat)
            /\ Len(H) = 1 + Len(B)
            /\ H[1] = base + 55 + Len(B)
        <5>1. IsLength(n)
          OBVIOUS
        <5> HIDE DEF n, L, b
        <5> QED  BY <1>a, <2>2, <5>1, LongHeader
      <4> HIDE DEF L, H, B
      <4>2. L \in Nat \ {0} /\ L <= 8
        BY <1>a, <3>1, <4>1
      <4>3. L \in 1 .. 8
        BY <4>2
      <4> QED  BY <3>1, <4>1, <4>3
    <3> HIDE DEF L, H, B
    <3>3. L # 0 /\ L \in 0 .. 8 /\ base + (55 + L) = base + 55 + L
      BY <3>2 DEF Bases
    <3> QED  BY <2>2, <3>1, <3>2, <3>3
  <2> QED  BY <2>1, <2>2
<1>0. n \in Nat /\ Len(t) \in Nat /\ L \in 0 .. 8 /\ (L = 0 <=> n <= 55) /\ B \in Seq(Nat)
  BY <1>a, <1>b
<1>1. H \in Seq(Nat) /\ Len(H) = 1 + L /\ H[1] = base + (IF n <= 55 THEN n ELSE 55 + L)
  BY <1>b
<1>2. L # 0 => base + 55 + L \in Nat /\ H = <<base + 55 + L>> \o B /\ Len(B) = L
  BY <1>b
<1>3. b \in Seq(Nat) /\ Len(b) = 1 + L + n + Len(t) /\ b[1] = H[1]
  <2> HIDE DEF L, H
  <2>1. H \in Seq(Nat)
    BY <1>1
  <2>2. H \o data \in Seq(Nat) /\ Len(H \o data) = Len(H) + n
        /\ \A i \in 1 .. Len(H) : (H \o data)[i] = H[i]
    BY <2>1, ConcatParts
  <2>3. b \in Seq(Nat) /\ Len(b) = Len(H \o data) + Len(t)
        /\ \A i \in 1 .. Len(H \o data) : b[i] = (H \o data)[i]
    BY <2>2, ConcatParts
  <2>4. 1 \in 1 .. Len(H) /\ 1 \in 1 .. Len(H \o data)
    BY <1>0, <1>1, <2>2
  <2> HIDE DEF b
  <2> QED  BY <1>0, <1>1, <2>2, <2>3, <2>4, SMTT(40)
<1>4. /\ SubSeq(b, 1, 1 + L) = H
      /\ SubSeq(b, 2 + L, 1 + L + n) = data
      /\ SubSeq(b, (1 + L + n) + 1, Len(b)) = t
  <2>1. H \in Seq(Nat)
    BY <1>1
  <2>2. Len(H) = 1 + L /\ Len(H) + 1 = 2 + L /\ Len(H) + n = 1 + L + n
    BY <1>0, <1>1
  <2> HIDE DEF H, L
  <2>3. /\ SubSeq(b, 1, Len(H)) = H
        /\ SubSeq(b, Len(H) + 1, Len(H) + n) = data
        /\ SubSeq(b, Len(H) + n + 1, Len(b)) = t
    <3>1. n = Len(data) /\ b = (H \o data) \o t
      OBVIOUS
    <3> HIDE DEF n, b
    <3>2. SubSeq((H \o data) \o t, 1, Len(H)) = H
      BY <2>1, CutHead
    <3>3. SubSeq((H \o data) \o t, Len(H) + 1, Len(H) + Len(data)) = data
      BY <2>1, Between
    <3>4. SubSeq((H \o data) \o t, Len(H) + Len(data) + 1, Len((H \o data) \o t)) = t
      BY <2>1, CutTail
    <3> QED  BY <3>1, <3>2, <3>3, <3>4
  <2> HIDE DEF b
  <2> QED  BY <2>2, <2>3
<1>7. ASSUME L # 0
      PROVE  SubSeq(b, 2, 1 + L) = B
  <2> DEFINE f == <<base + 55 + L>>
  <2>1. H = f \o B /\ Len(B) = L /\ base + 55 + L \in Nat
    BY <1>2, <1>7
  <2> HIDE DEF H, L, B
  <2>2. f \in Seq(Nat) /\ Len(f) = 1
    BY <2>1
  <2> HIDE DEF f
  <2>3. SubSeq(((f \o B) \o data) \o t, Len(f) + 1, Len(f) + Len(B)) = B
    <3>1. f \in Seq(Nat) /\ B \in Seq(Nat)
      BY <1>0, <2>2
    <3> QED  BY <3>1, CutInside, SMTT(40)
  <2>4. Len(f) + 1 = 2 /\ Len(f) + Len(B) = 1 + L
    BY <2>1, <2>2
  <2> QED  BY <2>1, <2>3, <2>4
<1>8. NumberOf(B) = n
  BY <1>0, NumberReadsBack
<1> DEFINE base1  == IF b[1] < 192 THEN 128 ELSE 192
           sizes1 == IF b[1] - base1 <= 55 THEN 0 ELSE b[1] - base1 - 55
           len1   == IF sizes1 = 0 THEN b[1] - base1 ELSE NumberOf(SubSeq(b, 2, 1 + sizes1))
           end1   == 1 + sizes1 + len1
           data1  == SubSeq(b, 2 + sizes1, end1)
<1>9. FirstItem(b) =
        IF b[1] < 128 THEN [item |-> Bytes(<<b[1]>>), rest |-> Tail(b)]
        ELSE IF \/ sizes1 >= Len(b)
                \/ end1 > Len(b)
                \/ SubSeq(b, 1, 1 + sizes1) # Header(base1, len1)
                \/ base1 = 128 /\ len1 = 1 /\ data1[1] < 128
             THEN [item |-> Malformed, rest |-> << >>]
             ELSE [item |-> IF base1 = 128 THEN Bytes(data1) ELSE List(data1),
                   rest |-> SubSeq(b, end1 + 1, Len(b))]
  BY Zenon DEF FirstItem
<1> HIDE DEF b, H, B, L
<1>c. base = 128 \/ base = 192
  BY DEF Bases
<1>d. L \in Nat /\ L <= 8 /\ b[1] = base + (IF n <= 55 THEN n ELSE 55 + L)
  BY <1>0, <1>1, <1>3, SMTT(40)
<1>e. b[1] \in Nat /\ b[1] >= base /\ b[1] <= base + 63
  <2>1. CASE n <= 55
    <3>1. b[1] = base + n
      BY <1>d, <2>1
    <3> QED  BY <1>0, <1>c, <2>1, <3>1, SMTT(40)
  <2>2. CASE ~ n <= 55
    <3>1. b[1] = base + (55 + L)
      BY <1>d, <2>2
    <3> QED  BY <1>c, <1>d, <3>1
  <2> QED  BY <2>1, <2>2
<1>10. b[1] >= 128 /\ ~ b[1] < 128 /\ base1 = base
  <2>1. CASE base = 128
    BY <1>e, <2>1
  <2>2. CASE base = 192
    BY <1>e, <2>2
  <2> QED  BY <1>c, <2>1, <2>2
<1> HIDE DEF base1
<1>11. sizes1 = L
  <2>1. CASE n <= 55
    <3>1. b[1] = base + n /\ L = 0
      BY <1>0, <1>d, <2>1
    <3>2. b[1] - base1 = n
      BY <1>0, <1>10, <1>c, <3>1
    <3> QED  BY <2>1, <3>1, <3>2 DEF sizes1
  <2>2. CASE ~ n <= 55
    <3>1. b[1] = base + (55 + L) /\ L # 0
      BY <1>0, <1>d, <2>2
    <3>2. b[1] - base1 = 55 + L
      BY <1>10, <1>c, <1>d, <3>1
    <3>3. ~ (55 + L <= 55) /\ (55 + L) - 55 = L
      BY <1>d, <3>1
    <3> QED  BY <3>2, <3>3 DEF sizes1
  <2> QED  BY <2>1, <2>2
<1> HIDE DEF sizes1
<1>12. len1 = n
  <2>1. CASE L = 0
    BY <1>0, <1>1, <1>3, <1>10, <1>11, <2>1 DEF Bases
  <2>2. CASE L # 0
    BY <1>7, <1>8, <1>11, <2>2
  <2> QED  BY <2>1, <2>2
<1> HIDE DEF len1
<1>13. end1 = 1 + L + n
  BY <1>11, <1>12
<1> HIDE DEF end1
<1>14. data1 = data
  BY <1>4, <1>11, <1>13
<1> HIDE DEF data1
<1>15. ~ sizes1 >= Len(b) /\ ~ end1 > Len(b)
  BY <1>0, <1>3, <1>11, <1>13, SMTT(40)
<1>16. SubSeq(b, 1, 1 + sizes1) = Header(base1, len1)
  BY <1>4, <1>10, <1>11, <1>12 DEF H
<1>17. ~ (base1 = 128 /\ len1 = 1 /\ data1[1] < 128)
  BY <1>10, <1>12, <1>14
<1>18. FirstItem(b) = [item |-> IF base1 = 128 THEN Bytes(data1) ELSE List(data1),
                       rest |-> SubSeq(b, end1 + 1, Len(b))]
  BY <1>9, <1>10, <1>15, <1>16, <1>17
<1>19. SubSeq(b, end1 + 1, Len(b)) = t
  BY <1>4, <1>13
<1>20. FirstItem(b) = [item |-> IF base = 128 THEN Bytes(data) ELSE List(data), rest |-> t]
  BY <1>10, <1>14, <1>18, <1>19
<1> QED  BY <1>20 DEF b, H

\* A header is not empty.
LEMMA HeaderType ==
  ASSUME NEW base \in Bases, NEW len \in Nat
  PROVE  Header(base, len) \in Seq(Nat) /\ Len(Header(base, len)) \in Nat \ {0}
<1>1. CASE len <= 55
  BY <1>1, ShortHeader
<1>2. CASE ~ len <= 55
  <2>1. Header(base, len) \in Seq(Nat) /\ Len(BigEndian[len]) \in Nat \ {0}
        /\ Len(Header(base, len)) = 1 + Len(BigEndian[len])
    BY <1>2, LongHeader
  <2> QED  BY <2>1
<1> QED  BY <1>1, <1>2

\* A byte string or a list of one.
LEMMA ItemForm ==
  ASSUME NEW item \in Item
  PROVE  /\ item.bytes \in Seq(Nat)
         /\ item = (IF IsBytes(item) THEN Bytes(item.bytes) ELSE List(item.bytes))
  BY DEF Item, IsBytes, Bytes, List

\* An encoded item is read as that item, with nothing of what stands behind.
LEMMA ItemReadsBack ==
  ASSUME NEW item \in Item, IsLength(Len(item.bytes)), NEW t \in Seq(Nat)
  PROVE  FirstItem(Encoded(item) \o t) = [item |-> item, rest |-> t]
<1> DEFINE d == item.bytes
<1>1. d \in Seq(Nat) /\ item = (IF IsBytes(item) THEN Bytes(d) ELSE List(d))
  BY ItemForm
<1>2. 128 \in Bases /\ 192 \in Bases
  BY DEF Bases
<1>3. IsLength(Len(d))
  OBVIOUS
<1> HIDE DEF d
<1>4. CASE IsBytes(item) /\ Len(d) = 1 /\ d[1] < 128
  <2> DEFINE b == d \o t
  <2>1. Encoded(item) = d
    BY <1>4 DEF Encoded, EncodeValue, d
  <2>2. d = <<d[1]>> /\ b \in Seq(Nat) /\ b[1] = d[1] /\ Tail(b) = t
    <3>1. d \in Seq(Nat) /\ Len(d) = 1
      BY <1>1, <1>4
    <3> QED  BY <3>1, OneInFront, SMTT(40)
  <2> HIDE DEF b
  <2>3. FirstItem(b) = [item |-> Bytes(<<b[1]>>), rest |-> Tail(b)]
    BY <1>4, <2>2 DEF FirstItem
  <2>4. item = Bytes(d)
    BY <1>1, <1>4
  <2> QED  BY <2>1, <2>2, <2>3, <2>4 DEF b
<1>5. CASE IsBytes(item) /\ ~ (Len(d) = 1 /\ d[1] < 128)
  <2>1. Encoded(item) = Header(128, Len(d)) \o d
    BY <1>5 DEF Encoded, EncodeValue, d
  <2>2. ~ (128 = 128 /\ Len(d) = 1 /\ d[1] < 128)
    BY <1>5
  <2>3. FirstItem((Header(128, Len(d)) \o d) \o t)
          = [item |-> IF 128 = 128 THEN Bytes(d) ELSE List(d), rest |-> t]
    BY <1>1, <1>2, <1>3, <2>2, HeadedItem
  <2>4. item = Bytes(d)
    BY <1>1, <1>5
  <2> QED  BY <2>1, <2>3, <2>4
<1>6. CASE ~ IsBytes(item)
  <2>1. Encoded(item) = Header(192, Len(d)) \o d
    BY <1>6 DEF Encoded, d
  <2>2. ~ (192 = 128 /\ Len(d) = 1 /\ d[1] < 128)
    OBVIOUS
  <2>3. FirstItem((Header(192, Len(d)) \o d) \o t)
          = [item |-> IF 192 = 128 THEN Bytes(d) ELSE List(d), rest |-> t]
    BY <1>1, <1>2, <1>3, <2>2, HeadedItem
  <2>4. item = List(d)
    BY <1>1, <1>6
  <2> QED  BY <2>1, <2>3, <2>4
<1> QED  BY <1>4, <1>5, <1>6

\* No encoding is empty or shorter than what it encodes.
LEMMA EncodedType ==
  ASSUME NEW item \in Item
  PROVE  /\ Encoded(item) \in Seq(Nat)
         /\ Encoded(item) # << >>
         /\ Len(item.bytes) <= Len(Encoded(item))
<1> DEFINE d == item.bytes
<1>1. d \in Seq(Nat) /\ Len(d) \in Nat
  BY ItemForm
<1>2. 128 \in Bases /\ 192 \in Bases
  BY DEF Bases
<1>3. \/ Encoded(item) = d /\ Len(d) = 1
      \/ Encoded(item) = Header(128, Len(d)) \o d
      \/ Encoded(item) = Header(192, Len(d)) \o d
  BY ZenonT(60) DEF Encoded, EncodeValue
<1> HIDE DEF d
<1>5. ASSUME NEW base \in Bases, Encoded(item) = Header(base, Len(d)) \o d
      PROVE  Encoded(item) \in Seq(Nat) /\ Encoded(item) # << >> /\ Len(d) <= Len(Encoded(item))
  <2> DEFINE H == Header(base, Len(d))
  <2>1. H \in Seq(Nat) /\ Len(H) \in Nat \ {0}
    BY <1>1, HeaderType
  <2>2. Encoded(item) = H \o d
    BY <1>5
  <2> HIDE DEF H
  <2>3. H \o d \in Seq(Nat) /\ Len(H \o d) = Len(H) + Len(d)
    BY <1>1, <2>1
  <2>4. Len(H \o d) # 0
    BY <1>1, <2>1, <2>3
  <2>5. H \o d # << >>
    BY <2>4
  <2> QED  BY <1>1, <2>1, <2>2, <2>3, <2>5
<1>6. CASE Encoded(item) = d /\ Len(d) = 1
  <2>1. d # << >>
    <3>1. Len(d) # 0
      BY <1>6
    <3> QED  BY <3>1, NotEmpty
  <2> QED  BY <1>1, <1>6, <2>1 DEF d
<1> QED  BY <1>2, <1>3, <1>5, <1>6 DEF d

-----------------------------------------------------------------------------

\* f reads one item after the other.
Reading(f, b) ==
  f = [k \in 0 .. Len(b) |-> IF k = 0 THEN [items |-> << >>, rest |-> b] ELSE ReadItem(f[k - 1])]

\* What was read after k steps.
LEMMA ReadingAt ==
  ASSUME NEW f, NEW b, Reading(f, b), NEW k \in 0 .. Len(b)
  PROVE  f[k] = IF k = 0 THEN [items |-> << >>, rest |-> b] ELSE ReadItem(f[k - 1])
<1> DEFINE F == [j \in 0 .. Len(b) |->
                   IF j = 0 THEN [items |-> << >>, rest |-> b] ELSE ReadItem(f[j - 1])]
<1>1. f = F
  BY DEF Reading
<1>2. F[k] = IF k = 0 THEN [items |-> << >>, rest |-> b] ELSE ReadItem(f[k - 1])
  OBVIOUS
<1> HIDE DEF F
<1> QED  BY <1>1, <1>2

\* There is one such reading.
LEMMA ReadingAgree ==
  ASSUME NEW b, Len(b) \in Nat, NEW f, NEW g, Reading(f, b), Reading(g, b)
  PROVE  f[Len(b)] = g[Len(b)]
<1> DEFINE Same == {k \in Nat : k <= Len(b) => f[k] = g[k]}
<1>1. 0 \in Same
  <2>1. 0 \in 0 .. Len(b)
    OBVIOUS
  <2>2. f[0] = [items |-> << >>, rest |-> b] /\ g[0] = [items |-> << >>, rest |-> b]
    BY <2>1, ReadingAt
  <2> QED  BY <2>2
<1>2. ASSUME NEW k \in Same
      PROVE  k + 1 \in Same
  <2> SUFFICES ASSUME k + 1 <= Len(b)
               PROVE  f[k + 1] = g[k + 1]
    OBVIOUS
  <2>1. k \in Nat /\ f[k] = g[k] /\ k + 1 \in 0 .. Len(b) /\ k + 1 # 0 /\ (k + 1) - 1 = k
    OBVIOUS
  <2>2. f[k + 1] = ReadItem(f[(k + 1) - 1]) /\ g[k + 1] = ReadItem(g[(k + 1) - 1])
    BY <2>1, ReadingAt
  <2> QED  BY <2>1, <2>2
<1>3. Same = Nat
  <2> HIDE DEF Same
  <2>1. Same \in SUBSET Nat
    BY DEF Same
  <2> QED  BY <1>1, <1>2, <2>1, SetInduction
<1> QED  BY <1>3

\* It is the one that ReadItems means.
LEMMA ReadingIsRead ==
  ASSUME NEW b, Len(b) \in Nat, NEW f, Reading(f, b)
  PROVE  ReadItems(b) = f[Len(b)].items
<1> DEFINE read == CHOOSE g : g = [k \in 0 .. Len(b) |->
                     IF k = 0 THEN [items |-> << >>, rest |-> b] ELSE ReadItem(g[k - 1])]
<1>1. ReadItems(b) = read[Len(b)].items
  BY Zenon DEF ReadItems
<1>2. Reading(read, b)
  BY Zenon DEF Reading
<1> HIDE DEF read
<1>3. read[Len(b)] = f[Len(b)]
  BY <1>2, ReadingAgree
<1> QED  BY <1>1, <1>3

-----------------------------------------------------------------------------
(* Lists: items one behind the other, each at least a byte.                *)

Encodings(items) == [i \in DOMAIN items |-> Encoded(items[i])]

\* The encodings of items, one for each.
LEMMA EncodingsType ==
  ASSUME NEW items \in Seq(Item)
  PROVE  /\ Encodings(items) \in Seq(Seq(Nat))
         /\ Len(Encodings(items)) = Len(items)
         /\ \A i \in 1 .. Len(items) : /\ items[i] \in Item
                                       /\ Encodings(items)[i] = Encoded(items[i])
                                       /\ Encoded(items[i]) \in Seq(Nat)
                                       /\ Encoded(items[i]) # << >>
<1>1. \A i \in 1 .. Len(items) : items[i] \in Item
  OBVIOUS
<1>2. \A i \in 1 .. Len(items) : Encoded(items[i]) \in Seq(Nat) /\ Encoded(items[i]) # << >>
  BY <1>1, EncodedType
<1>3. Len(items) \in Nat /\ DOMAIN items = 1 .. Len(items)
  OBVIOUS
<1> QED  BY <1>1, <1>2, <1>3 DEF Encodings

\* A step of the reader, where it sees an item.
LEMMA OneItem ==
  ASSUME NEW its, NEW b, b # << >>, NEW x, NEW t, FirstItem(b) = [item |-> x, rest |-> t]
  PROVE  ReadItem([items |-> its, rest |-> b]) = [items |-> Append(its, x), rest |-> t]
  BY DEF ReadItem

\* Items whose lengths have eight bytes.
Sendable == {item \in Item : IsLength(Len(item.bytes))}

\* What the encodings of items are read as: those items.
LEMMA ItemsReadBack ==
  ASSUME NEW items \in Seq(Sendable)
  PROVE  ReadItems(FlattenSeq(Encodings(items))) = items
<1> DEFINE e == Encodings(items)
           n == Len(items)
           b == FlattenSeq(e)
           left(k) == FlattenSeq(SubSeq(e, k + 1, n))
           f == [k \in 0 .. Len(b) |->
                   IF k <= n THEN [items |-> SubSeq(items, 1, k), rest |-> left(k)]
                   ELSE [items |-> items, rest |-> << >>]]
<1>1. e \in Seq(Seq(Nat)) /\ Len(e) = n /\ n \in Nat
      /\ \A i \in 1 .. n : items[i] \in Sendable /\ e[i] = Encoded(items[i]) /\ e[i] \in Seq(Nat)
                           /\ e[i] # << >>
  <2>1. items \in Seq(Item) /\ n \in Nat /\ \A i \in 1 .. n : items[i] \in Sendable
    <3>1. Sendable \subseteq Item
      BY DEF Sendable
    <3> QED  BY <3>1
  <2> HIDE DEF e
  <2>2. /\ e \in Seq(Seq(Nat))
        /\ Len(e) = n
        /\ \A i \in 1 .. n : e[i] = Encoded(items[i]) /\ Encoded(items[i]) \in Seq(Nat)
                             /\ Encoded(items[i]) # << >>
    BY <2>1, EncodingsType DEF e
  <2> QED  BY <2>1, <2>2
<1> HIDE DEF e, n
<1>2. b \in Seq(Nat) /\ Len(b) \in Nat /\ n <= Len(b)
  <2>1. b \in Seq(Nat)
    BY <1>1, FlattenType
  <2>2. Len(e) <= Len(FlattenSeq(e))
    BY <1>1, FlattenLength
  <2>3. Len(b) \in Nat
    BY <2>1
  <2> QED  BY <1>1, <2>1, <2>2, <2>3
<1>3. \A k \in 0 .. n : left(k) \in Seq(Nat)
  <2> TAKE k \in 0 .. n
  <2>1. \A i \in k + 1 .. n : e[i] \in Seq(Nat)
    BY <1>1
  <2>2. SubSeq(e, k + 1, n) \in Seq(Seq(Nat))
    BY <1>1, <2>1, SubSeqProperties
  <2> QED  BY <2>2, FlattenType
<1>4. SubSeq(items, 1, 0) = << >> /\ SubSeq(items, 1, n) = items
  <2>1. SubSeq(items, 1, n) = items
    BY SubSeqFull DEF n
  <2>2. SubSeq(items, 1, 0) = << >>
    BY SubSeqEmpty
  <2> QED  BY <2>1, <2>2
<1>5. left(0) = b /\ left(n) = << >>
  <2>1. SubSeq(e, 1, n) = e
    BY <1>1, SubSeqFull
  <2>2. SubSeq(e, n + 1, n) = << >>
    BY <1>1, SubSeqEmpty
  <2>3. 0 + 1 = 1
    OBVIOUS
  <2>4. left(0) = FlattenSeq(SubSeq(e, 1, n))
    BY <2>3
  <2> QED  BY <2>1, <2>2, <2>4, FlattenEmpty
<1> DEFINE start == [items |-> << >>, rest |-> b]
<1>6. ASSUME NEW k \in 0 .. Len(b)
      PROVE  f[k] = IF k = 0 THEN start ELSE ReadItem(f[k - 1])
  <2>1. CASE k = 0
    BY <1>1, <1>2, <1>4, <1>5, <2>1
  <2>2. CASE k # 0 /\ k <= n
    <3> DEFINE j == k - 1
    <3>1. k \in 1 .. n /\ j \in 0 .. n /\ j + 1 = k /\ j \in 0 .. Len(b) /\ j <= n /\ j \in Nat
      BY <1>1, <1>2, <2>2
    <3>2. items[k] \in Item /\ IsLength(Len(items[k].bytes)) /\ e[k] = Encoded(items[k])
          /\ e[k] \in Seq(Nat) /\ e[k] # << >>
      BY <1>1, <3>1 DEF Sendable
    <3>3. f[k] = [items |-> SubSeq(items, 1, k), rest |-> left(k)]
          /\ f[j] = [items |-> SubSeq(items, 1, j), rest |-> left(j)]
      <4> HIDE DEF left, b, j
      <4> QED  BY <2>2, <3>1
    <3>4. left(j) = e[k] \o left(k)
      <4>1. FlattenSeq(SubSeq(e, k, Len(e))) = e[k] \o FlattenSeq(SubSeq(e, k + 1, Len(e)))
        BY <1>1, <3>1, SuffixFirst
      <4> QED  BY <1>1, <3>1, <4>1
    <3>5. left(k) \in Seq(Nat)
      BY <1>3, <3>1
    <3> HIDE DEF left, f, j, b
    <3>6. left(j) # << >>
      BY <3>2, <3>4, <3>5, ConcatEqualIffEmpty
    <3>7. FirstItem(left(j)) = [item |-> items[k], rest |-> left(k)]
      <4>1. FirstItem(Encoded(items[k]) \o left(k)) = [item |-> items[k], rest |-> left(k)]
        BY <3>2, <3>5, ItemReadsBack
      <4> QED  BY <3>2, <3>4, <4>1
    <3>8. ReadItem(f[j]) = [items |-> Append(SubSeq(items, 1, j), items[k]), rest |-> left(k)]
      <4>1. ReadItem([items |-> SubSeq(items, 1, j), rest |-> left(j)])
              = [items |-> Append(SubSeq(items, 1, j), items[k]), rest |-> left(k)]
        BY <3>6, <3>7, OneItem
      <4> QED  BY <3>3, <4>1
    <3>9. Append(SubSeq(items, 1, j), items[k]) = SubSeq(items, 1, k)
      <4>1. 1 \in 1 .. Len(items) /\ k \in 1 .. Len(items)
        BY <1>1, <3>1 DEF n
      <4>2. SubSeq(items, 1, k) = SubSeq(items, 1, k - 1) \o <<items[k]>>
        BY <4>1, SubSeqRecursiveSecond
      <4>3. SubSeq(items, 1, j) \in Seq(Sendable) /\ items[k] \in Sendable
        <5>1. \A i \in 1 .. j : items[i] \in Sendable
          BY <1>1, <3>1
        <5> QED  BY <1>1, <3>1, <5>1, SubSeqProperties
      <4> QED  BY <4>2, <4>3, AppendIsConcat DEF j
    <3> QED  BY <2>2, <3>3, <3>8, <3>9 DEF j
  <2>3. CASE k # 0 /\ ~ k <= n
    <3> DEFINE j == k - 1
    <3>1. j \in 0 .. Len(b) /\ j \in Nat /\ (j <= n => j = n)
      BY <1>1, <1>2, <2>3
    <3>2. f[k] = [items |-> items, rest |-> << >>]
      <4> HIDE DEF left, b
      <4> QED  BY <2>3
    <3>3. f[j] = [items |-> items, rest |-> << >>]
      <4>1. CASE j <= n
        <5>1. f[j] = [items |-> SubSeq(items, 1, j), rest |-> left(j)]
          <6> HIDE DEF left, b, j
          <6> QED  BY <3>1, <4>1
        <5> HIDE DEF f, left, j
        <5> QED  BY <1>4, <1>5, <3>1, <4>1, <5>1
      <4>2. CASE ~ j <= n
        <5> HIDE DEF left, b, j
        <5> QED  BY <3>1, <4>2
      <4> QED  BY <4>1, <4>2
    <3> HIDE DEF f
    <3>4. ReadItem(f[j]) = f[j]
      BY <3>3 DEF ReadItem
    <3> QED  BY <2>3, <3>2, <3>3, <3>4
  <2> QED  BY <2>1, <2>2, <2>3
<1>7. Reading(f, b)
  <2>1. f = [k \in 0 .. Len(b) |-> f[k]]
    OBVIOUS
  <2> HIDE DEF f, b
  <2> QED  BY <1>6, <2>1, Zenon DEF Reading
<1>8. f[Len(b)].items = items
  <2> HIDE DEF b, left
  <2>1. Len(b) \in 0 .. Len(b)
    BY <1>2
  <2>2. CASE Len(b) <= n
    <3>1. Len(b) = n
      BY <1>1, <1>2, <2>2
    <3>2. f[Len(b)] = [items |-> SubSeq(items, 1, Len(b)), rest |-> left(Len(b))]
      BY <2>1, <2>2
    <3> QED  BY <1>4, <3>1, <3>2
  <2>3. CASE ~ Len(b) <= n
    BY <2>1, <2>3
  <2> QED  BY <2>2, <2>3
<1>9. ReadItems(b) = f[Len(b)].items
  <2> HIDE DEF f, b
  <2> QED  BY <1>2, <1>7, ReadingIsRead
<1>10. ReadItems(b) = items
  BY <1>8, <1>9
<1> QED  BY <1>10 DEF e

\* A length is one if a longer one is.
LEMMA ShorterLength ==
  ASSUME NEW n \in Nat, NEW m \in Nat, m <= n, IsLength(n)
  PROVE  IsLength(m)
<1>1. m \in 0 .. n
  OBVIOUS
<1>2. Len(BigEndian[m]) <= Len(BigEndian[n])
  BY <1>1, MoreBytes
<1>3. Len(BigEndian[m]) \in Nat /\ Len(BigEndian[n]) \in Nat
  BY BigEndianAt
<1> QED  BY <1>2, <1>3 DEF IsLength

\* A list of items is an item.
LEMMA ListIsItem ==
  ASSUME NEW items \in Seq(Item)
  PROVE  /\ ListOf(items) \in Item
         /\ IsList(ListOf(items)) /\ ~ IsBytes(ListOf(items))
         /\ ListOf(items).bytes = FlattenSeq(Encodings(items))
<1>1. FlattenSeq(Encodings(items)) \in Seq(Nat)
  BY EncodingsType, FlattenType
<1> QED  BY <1>1 DEF ListOf, List, Encodings, Item, IsList, IsBytes

\* A list is read as its items, and its items have lengths if it has one.
LEMMA ListReadsBack ==
  ASSUME NEW items \in Seq(Item), IsLength(Len(ListOf(items).bytes))
  PROVE  /\ ItemsOf(ListOf(items)) = items
         /\ \A i \in 1 .. Len(items) : items[i] \in Item /\ IsLength(Len(items[i].bytes))
<1> DEFINE e == Encodings(items)
           b == FlattenSeq(e)
           n == Len(items)
<1>1. ListOf(items).bytes = b
  BY ListIsItem
<1>2. /\ e \in Seq(Seq(Nat)) /\ Len(e) = n
      /\ \A i \in 1 .. n : items[i] \in Item /\ e[i] = Encoded(items[i])
  BY EncodingsType
<1>3. IsLength(Len(b))
  BY <1>1
<1> HIDE DEF e
<1>4. b \in Seq(Nat) /\ \A i \in 1 .. n : Len(e[i]) <= Len(b)
  BY <1>2, FlattenType, FlattenLength
<1> HIDE DEF b
<1>5. ASSUME NEW i \in 1 .. n
      PROVE  items[i] \in Item /\ IsLength(Len(items[i].bytes))
  <2>1. items[i] \in Item /\ e[i] = Encoded(items[i]) /\ Len(e[i]) <= Len(b)
    BY <1>2, <1>4
  <2>2. Encoded(items[i]) \in Seq(Nat) /\ Len(items[i].bytes) <= Len(Encoded(items[i]))
    BY <2>1, EncodedType
  <2>3. items[i].bytes \in Seq(Nat)
    BY <2>1, ItemForm
  <2>4. Len(items[i].bytes) \in Nat /\ Len(b) \in Nat /\ Len(Encoded(items[i])) \in Nat
    BY <1>4, <2>2, <2>3
  <2>5. Len(items[i].bytes) <= Len(b)
    BY <2>1, <2>2, <2>4
  <2> QED  BY <1>3, <2>1, <2>4, <2>5, ShorterLength
<1>6. items \in Seq(Sendable)
  <2>1. \A i \in 1 .. n : items[i] \in Sendable
    BY <1>5 DEF Sendable
  <2>2. n \in Nat /\ items = [i \in 1 .. n |-> items[i]]
    OBVIOUS
  <2> QED  BY <2>1, <2>2
<1>7. ReadItems(b) = items
  BY <1>6, ItemsReadBack DEF b, e
<1> QED  BY <1>1, <1>5, <1>7 DEF ItemsOf

\* The bytes behind the type byte are one item, the list of the fields.
LEMMA FieldListReadsBack ==
  ASSUME NEW fields \in Seq(Item), IsLength(Len(ListOf(fields).bytes))
  PROVE  ReadTransaction(<<EIP_1559_TYPE>> \o Encoded(ListOf(fields)))
           = IF IsFields(fields) THEN <<[tx |-> Fields(fields), signature |-> SignatureOf(fields)]>>
             ELSE << >>
<1> DEFINE l == ListOf(fields)
           E == Encoded(l)
           b == <<EIP_1559_TYPE>> \o E
           one == <<l>>
           items == IF b = << >> THEN << >> ELSE ReadItems(Tail(b))
           read == IF items = << >> THEN << >> ELSE ItemsOf(items[1])
<1>1. l \in Item /\ IsList(l) /\ IsLength(Len(l.bytes)) /\ ItemsOf(l) = fields
  BY ListIsItem, ListReadsBack
<1> HIDE DEF l
<1>2. E \in Seq(Nat)
  BY <1>1, EncodedType
<1> HIDE DEF E
<1>3. b # << >> /\ b[1] = EIP_1559_TYPE /\ Tail(b) = E
  <2> DEFINE h == <<EIP_1559_TYPE>>
  <2>1. h \in Seq(Nat) /\ Len(h) = 1 /\ h[1] = EIP_1559_TYPE
    BY DEF EIP_1559_TYPE
  <2> HIDE DEF h
  <2>2. (h \o E)[1] = h[1] /\ Tail(h \o E) = E
    BY <1>2, <2>1, OneInFront
  <2>3. Len(h \o E) # 0
    BY <1>2, <2>1, ConcatParts, SMTT(40)
  <2>4. h \o E # << >>
    BY <2>3, NotEmpty
  <2> QED  BY <2>1, <2>2, <2>4 DEF h
<1>4. ReadItems(E) = one
  <2>1. one \in Seq(Sendable)
    BY <1>1 DEF Sendable
  <2>2. Encodings(one) = <<E>>
    BY DEF Encodings, E
  <2>3. FlattenSeq(<<E>>) = E
    BY <1>2, FlattenOne
  <2> HIDE DEF one
  <2> QED  BY <2>1, <2>2, <2>3, ItemsReadBack
<1>5. ReadTransaction(b) =
        IF /\ Len(items) = 1
           /\ b[1] = EIP_1559_TYPE
           /\ IsList(items[1])
           /\ IsFields(read)
        THEN <<[tx |-> Fields(read), signature |-> SignatureOf(read)]>>
        ELSE << >>
  BY Zenon DEF ReadTransaction
<1> HIDE DEF b
<1>6. items = one
  BY <1>3, <1>4
<1> HIDE DEF items
<1>7. Len(items) = 1 /\ items[1] = l /\ items # << >>
  BY <1>6
<1>8. read = fields
  BY <1>1, <1>7
<1> HIDE DEF read, one
<1>9. ReadTransaction(b) = IF IsFields(fields) THEN <<[tx |-> Fields(fields), signature |-> SignatureOf(fields)]>>
                           ELSE << >>
  BY <1>1, <1>3, <1>5, <1>7, <1>8
<1> QED  BY <1>9 DEF b, E, l

-----------------------------------------------------------------------------

\* Byte strings as items.
LEMMA BytesItem ==
  ASSUME NEW b \in Seq(Nat)
  PROVE  Bytes(b) \in Item /\ IsBytes(Bytes(b)) /\ Bytes(b).bytes = b
  BY DEF Bytes, Item, IsBytes

\* A number is an item that is read as that number.
LEMMA NumberItem ==
  ASSUME NEW n \in Nat
  PROVE  Number(n) \in Item /\ IsNumber(Number(n)) /\ NumberOf(Number(n).bytes) = n
<1> DEFINE b == BigEndian[n]
<1>1. b \in Seq(Nat) /\ (b # << >> => b[1] # 0) /\ NumberOf(b) = n
  BY BigEndianNat, NoLeadingZero, FirstByte, NumberReadsBack
<1> HIDE DEF b
<1>2. Bytes(b) \in Item /\ IsBytes(Bytes(b)) /\ Bytes(b).bytes = b
  BY <1>1, BytesItem
<1> QED  BY <1>1, <1>2 DEF Number, IsNumber, b

\* Bytes are numbers.
LEMMA SeqByteNat ==
  ASSUME NEW s \in Seq(Byte)
  PROVE  s \in Seq(Nat)
<1>1. Byte \subseteq Nat
  BY DEF Byte
<1> QED  BY <1>1, SeqMonotonic

Access == [address : Address, keys : Seq(Key)]

Strings(keys) == [j \in DOMAIN keys |-> Bytes(keys[j])]

\* An access is read as its address and its keys.
LEMMA AccessReadsBack ==
  ASSUME NEW access \in Access
  PROVE  /\ AccessItem(access) \in Item
         /\ IsLength(Len(AccessItem(access).bytes)) =>
              IsAccess(AccessItem(access)) /\ AccessOf(AccessItem(access)) = access
<1> DEFINE address == access.address
           keys == access.keys
           ks == Strings(keys)
           parts == <<Bytes(address), ListOf(ks)>>
           item == ListOf(parts)
<1>1. address \in Address /\ keys \in Seq(Key) /\ access = [address |-> address, keys |-> keys]
  BY DEF Access
<1>2. AccessItem(access) = item
  BY DEF AccessItem, Strings
<1> HIDE DEF address, keys
<1>3. address \in Seq(Nat) /\ Len(address) = 20
  BY <1>1, SeqByteNat DEF Address
<1>4. \A j \in 1 .. Len(keys) : keys[j] \in Seq(Nat) /\ Len(keys[j]) = 32
  <2> TAKE j \in 1 .. Len(keys)
  <2>1. keys[j] \in Key
    BY <1>1
  <2> QED  BY <2>1, SeqByteNat DEF Key
<1>5. /\ ks \in Seq(Item) /\ Len(ks) = Len(keys) /\ DOMAIN ks = DOMAIN keys
      /\ \A j \in 1 .. Len(keys) : ks[j] \in Item /\ IsKey(ks[j]) /\ ks[j].bytes = keys[j]
  <2>1. \A j \in 1 .. Len(keys) : Bytes(keys[j]) \in Item /\ IsBytes(Bytes(keys[j]))
                                  /\ Bytes(keys[j]).bytes = keys[j]
    BY <1>4, BytesItem
  <2>2. DOMAIN keys = 1 .. Len(keys) /\ Len(keys) \in Nat
    BY <1>1
  <2>3. ks = [j \in 1 .. Len(keys) |-> Bytes(keys[j])]
    BY <2>2 DEF Strings
  <2> HIDE DEF ks
  <2>4. \A j \in 1 .. Len(keys) : ks[j] = Bytes(keys[j])
    BY <2>3
  <2>5. ks \in Seq(Item) /\ Len(ks) = Len(keys) /\ DOMAIN ks = DOMAIN keys
    BY <2>1, <2>2, <2>3
  <2> QED  BY <1>4, <2>1, <2>4, <2>5 DEF IsKey
<1> HIDE DEF ks
<1>6. Bytes(address) \in Item /\ IsBytes(Bytes(address)) /\ Bytes(address).bytes = address
  BY <1>3, BytesItem
<1>7. ListOf(ks) \in Item /\ IsList(ListOf(ks))
  BY <1>5, ListIsItem
<1>8. parts \in Seq(Item) /\ Len(parts) = 2 /\ parts[1] = Bytes(address) /\ parts[2] = ListOf(ks)
  BY <1>6, <1>7
<1> HIDE DEF parts
<1>9. item \in Item /\ IsList(item)
  BY <1>8, ListIsItem
<1>10. ASSUME IsLength(Len(item.bytes))
       PROVE  IsAccess(item) /\ AccessOf(item) = access
  <2>1. ItemsOf(item) = parts /\ IsLength(Len(parts[2].bytes))
    BY <1>8, <1>10, ListReadsBack
  <2>2. ItemsOf(ListOf(ks)) = ks
    BY <1>5, <1>8, <2>1, ListReadsBack
  <2> HIDE DEF item
  <2>3. IsAddress(ItemsOf(item)[1]) /\ ItemsOf(item)[1].bytes = address
    BY <1>3, <1>6, <1>8, <2>1 DEF IsAddress
  <2>4. ItemsOf(ItemsOf(item)[2]) = ks /\ IsList(ItemsOf(item)[2])
    BY <1>7, <1>8, <2>1, <2>2
  <2>5. \A key \in ToSet(ks) : IsKey(key)
    BY <1>5 DEF ToSet
  <2>6. IsAccess(item)
    BY <1>8, <1>9, <2>1, <2>3, <2>4, <2>5 DEF IsAccess
  <2>7. [j \in DOMAIN ks |-> ks[j].bytes] = keys
    <3>1. DOMAIN keys = 1 .. Len(keys) /\ keys = [j \in DOMAIN keys |-> keys[j]]
      BY <1>1
    <3> QED  BY <1>5, <3>1
  <2>8. AccessOf(item) = [address |-> address, keys |-> keys]
    BY <2>3, <2>4, <2>7 DEF AccessOf
  <2> QED  BY <1>1, <2>6, <2>8
<1> QED  BY <1>2, <1>9, <1>10

-----------------------------------------------------------------------------
(* Transactions as items.                                                  *)

Recipients == {a \in Seq(Address) : Len(a) <= 1}

\* The recipient: none, or one address.
LEMMA RecipientReadsBack ==
  ASSUME NEW to \in Recipients
  PROVE  LET item == Bytes(FlattenSeq(to))
         IN /\ item \in Item
            /\ IsAddress(item) \/ item = Bytes(<< >>)
            /\ to = IF item.bytes = << >> THEN << >> ELSE <<item.bytes>>
<1>1. to \in Seq(Address) /\ Len(to) \in Nat /\ Len(to) <= 1
  BY DEF Recipients
<1>2. CASE Len(to) = 0
  <2>1. to = << >>
    BY <1>1, <1>2, EmptySeq
  <2>2. FlattenSeq(to) = << >> /\ << >> \in Seq(Nat)
    BY <2>1, FlattenEmpty
  <2> HIDE DEF FlattenSeq
  <2>3. Bytes(<< >>) \in Item /\ Bytes(<< >>).bytes = << >>
    BY <2>2, BytesItem
  <2> QED  BY <2>1, <2>2, <2>3
<1>3. CASE Len(to) # 0
  <2> DEFINE a == to[1]
  <2>1. Len(to) = 1 /\ to[1] \in Address
    <3>1. \A n \in Nat : n <= 1 /\ n # 0 => n = 1 /\ 1 \in 1 .. n
      OBVIOUS
    <3>2. Len(to) = 1 /\ 1 \in 1 .. Len(to)
      BY <1>1, <1>3, <3>1, Zenon
    <3> QED  BY <1>1, <3>2, ElementOfSeq
  <2>2. a \in Seq(Nat) /\ Len(a) = 20
    BY <2>1, SeqByteNat DEF Address
  <2>3. to = <<a>>
    <3>1. << >> \in Seq(Address)
      OBVIOUS
    <3> QED  BY <1>1, <2>1, <3>1, OneInFront
  <2> HIDE DEF a
  <2>4. FlattenSeq(to) = a
    BY <2>2, <2>3, FlattenOne
  <2>5. Bytes(a) \in Item /\ IsBytes(Bytes(a)) /\ Bytes(a).bytes = a
    BY <2>2, BytesItem
  <2>6. a # << >>
    <3>1. Len(a) # 0
      BY <2>2
    <3> QED  BY <3>1, NotEmpty
  <2> QED  BY <2>2, <2>3, <2>4, <2>5, <2>6 DEF IsAddress
<1> QED  BY <1>2, <1>3

AccessItems(list) == [i \in DOMAIN list |-> AccessItem(list[i])]

\* An access list is read as its accesses.
LEMMA AccessListReadsBack ==
  ASSUME NEW list \in Seq(Access), IsLength(Len(ListOf(AccessItems(list)).bytes))
  PROVE  LET items == ItemsOf(ListOf(AccessItems(list)))
         IN /\ \A access \in ToSet(items) : IsAccess(access)
            /\ [i \in DOMAIN items |-> AccessOf(items[i])] = list
<1> DEFINE items == AccessItems(list)
<1>1. /\ Len(list) \in Nat /\ DOMAIN list = 1 .. Len(list)
      /\ \A i \in 1 .. Len(list) : list[i] \in Access
  OBVIOUS
<1>2. /\ items \in Seq(Item) /\ Len(items) = Len(list) /\ DOMAIN items = 1 .. Len(list)
      /\ \A i \in 1 .. Len(list) : items[i] = AccessItem(list[i])
  <2>1. items = [i \in 1 .. Len(list) |-> AccessItem(list[i])]
    BY <1>1 DEF AccessItems
  <2>2. \A i \in 1 .. Len(list) : AccessItem(list[i]) \in Item
    BY <1>1, AccessReadsBack
  <2> HIDE DEF items
  <2> QED  BY <1>1, <2>1, <2>2
<1> HIDE DEF items
<1>3. /\ ItemsOf(ListOf(items)) = items
      /\ \A i \in 1 .. Len(items) : IsLength(Len(items[i].bytes))
  <2>1. IsLength(Len(ListOf(items).bytes))
    BY DEF items
  <2> QED  BY <1>2, <2>1, ListReadsBack
<1>4. \A i \in 1 .. Len(list) : IsAccess(items[i]) /\ AccessOf(items[i]) = list[i]
  BY <1>1, <1>2, <1>3, AccessReadsBack
<1>5. \A access \in ToSet(items) : IsAccess(access)
  BY <1>2, <1>4 DEF ToSet
<1>6. [i \in DOMAIN items |-> AccessOf(items[i])] = list
  <2>1. list = [i \in 1 .. Len(list) |-> list[i]]
    BY <1>1
  <2> QED  BY <1>2, <1>4, <2>1
<1> QED  BY <1>3, <1>5, <1>6 DEF items

\* Items that begin like those of a transaction are its fields, if what comes
\* behind them is nothing or a signature.
LEMMA FieldsReadBack ==
  ASSUME NEW t \in EVMTransaction, NEW fields \in Seq(Item), Len(fields) \in {9, 12},
         \A i \in 1 .. 9 : fields[i] = FieldItems(t)[i],
         \A i \in {10, 11, 12} \cap DOMAIN fields : IsNumber(fields[i]),
         IsLength(Len(ListOf(fields).bytes))
  PROVE  IsFields(fields) /\ Fields(fields) = t
<1> DEFINE accesses == AccessItems(t.access_list)
           l == ListOf(accesses)
           recipient == Bytes(FlattenSeq(t.to))
<1>1. /\ t.chain_id \in Nat /\ t.nonce \in Nat /\ t.value \in Nat /\ t.gas_limit \in Nat
      /\ t.max_fee_per_gas \in Nat /\ t.max_priority_fee_per_gas \in Nat
      /\ t.to \in Recipients /\ t.input \in Seq(Byte) /\ t.access_list \in Seq(Access)
      /\ t = [chain_id |-> t.chain_id, nonce |-> t.nonce, to |-> t.to, value |-> t.value,
               input |-> t.input, gas_limit |-> t.gas_limit,
               max_fee_per_gas |-> t.max_fee_per_gas,
               max_priority_fee_per_gas |-> t.max_priority_fee_per_gas,
               access_list |-> t.access_list]
  BY DEF EVMTransaction, Recipients, Access
<1>2. /\ fields[1] = Number(t.chain_id) /\ fields[2] = Number(t.nonce)
      /\ fields[3] = Number(t.max_priority_fee_per_gas) /\ fields[4] = Number(t.max_fee_per_gas)
      /\ fields[5] = Number(t.gas_limit) /\ fields[6] = recipient
      /\ fields[7] = Number(t.value) /\ fields[8] = Bytes(t.input) /\ fields[9] = l
  BY DEF FieldItems, AccessItems
<1> HIDE DEF l, recipient
<1>3. 9 \in 1 .. Len(fields) /\ DOMAIN fields \subseteq 1 .. 12
  BY SMTT(40)
<1>4. IsLength(Len(l.bytes)) /\ l \in Item
  BY <1>2, <1>3, ListReadsBack
<1>5. /\ \A access \in ToSet(ItemsOf(l)) : IsAccess(access)
      /\ [i \in DOMAIN ItemsOf(l) |-> AccessOf(ItemsOf(l)[i])] = t.access_list
      /\ IsList(l)
  <2>1. IsLength(Len(ListOf(accesses).bytes))
    BY <1>4 DEF l
  <2>2. /\ \A access \in ToSet(ItemsOf(ListOf(accesses))) : IsAccess(access)
        /\ [i \in DOMAIN ItemsOf(ListOf(accesses)) |-> AccessOf(ItemsOf(ListOf(accesses))[i])]
             = t.access_list
    BY <1>1, <2>1, AccessListReadsBack
  <2>3. IsList(l)
    BY DEF l, IsList, ListOf, List
  <2> QED  BY <2>2, <2>3 DEF l
<1>6. /\ IsAddress(recipient) \/ recipient = Bytes(<< >>)
      /\ t.to = IF recipient.bytes = << >> THEN << >> ELSE <<recipient.bytes>>
  BY <1>1, RecipientReadsBack DEF recipient
<1>7. IsBytes(fields[8]) /\ fields[8].bytes = t.input
  BY <1>1, <1>2, SeqByteNat, BytesItem
<1>8. \A n \in Nat : IsNumber(Number(n)) /\ NumberOf(Number(n).bytes) = n
  BY NumberItem
<1>9. \A i \in {1, 2, 3, 4, 5, 7, 10, 11, 12} \cap DOMAIN fields : IsNumber(fields[i])
  BY <1>1, <1>2, <1>8, ZenonT(60)
<1>10. IsFields(fields)
  BY <1>2, <1>5, <1>6, <1>7, <1>9 DEF IsFields
<1>11. Fields(fields) = [chain_id |-> t.chain_id, nonce |-> t.nonce, to |-> t.to,
               value |-> t.value, input |-> t.input, gas_limit |-> t.gas_limit,
               max_fee_per_gas |-> t.max_fee_per_gas,
               max_priority_fee_per_gas |-> t.max_priority_fee_per_gas,
               access_list |-> t.access_list]
  <2>1. [i \in DOMAIN ItemsOf(fields[9]) |-> AccessOf(ItemsOf(fields[9])[i])] = t.access_list
    BY <1>2, <1>5
  <2>2. (IF fields[6].bytes = << >> THEN << >> ELSE <<fields[6].bytes>>) = t.to
    BY <1>2, <1>6
  <2>3. /\ NumberOf(fields[1].bytes) = t.chain_id /\ NumberOf(fields[2].bytes) = t.nonce
        /\ NumberOf(fields[3].bytes) = t.max_priority_fee_per_gas
        /\ NumberOf(fields[4].bytes) = t.max_fee_per_gas
        /\ NumberOf(fields[5].bytes) = t.gas_limit /\ NumberOf(fields[7].bytes) = t.value
    BY <1>1, <1>2, <1>8
  <2> QED  BY <1>7, <2>1, <2>2, <2>3 DEF Fields
<1> QED  BY <1>1, <1>10, <1>11

SignatureItems(s) == <<Number(s.v), Bytes(s.r), Bytes(s.s)>>

SignedBytes(t, s) ==
  <<EIP_1559_TYPE>> \o Encoded(ListOf(FieldItems(t) \o SignatureItems(s)))

\* A transaction has nine items.
LEMMA FieldItemsType ==
  ASSUME NEW t \in EVMTransaction
  PROVE  FieldItems(t) \in Seq(Item) /\ Len(FieldItems(t)) = 9
<1>1. /\ t.chain_id \in Nat /\ t.nonce \in Nat /\ t.value \in Nat /\ t.gas_limit \in Nat
      /\ t.max_fee_per_gas \in Nat /\ t.max_priority_fee_per_gas \in Nat
      /\ t.to \in Recipients /\ t.input \in Seq(Byte) /\ t.access_list \in Seq(Access)
  BY DEF EVMTransaction, Recipients, Access
<1> DEFINE accesses == [i \in DOMAIN t.access_list |-> AccessItem(t.access_list[i])]
<1>2. accesses \in Seq(Item)
  <2>1. \A i \in 1 .. Len(t.access_list) : AccessItem(t.access_list[i]) \in Item
    BY <1>1, AccessReadsBack
  <2>2. DOMAIN t.access_list = 1 .. Len(t.access_list) /\ Len(t.access_list) \in Nat
    BY <1>1
  <2> QED  BY <2>1, <2>2
<1> HIDE DEF accesses
<1>3. ListOf(accesses) \in Item
  BY <1>2, ListIsItem
<1>4. Bytes(FlattenSeq(t.to)) \in Item
  BY <1>1, RecipientReadsBack
<1>5. Bytes(t.input) \in Item
  BY <1>1, SeqByteNat, BytesItem
<1>6. \A n \in Nat : Number(n) \in Item
  BY NumberItem
<1> QED  BY <1>1, <1>3, <1>4, <1>5, <1>6 DEF FieldItems, accesses

\* A signature has three, and they are numbers if r and s have no leading zeros.
LEMMA SignatureItemsType ==
  ASSUME NEW s \in Signature
  PROVE  /\ SignatureItems(s) \in Seq(Item) /\ Len(SignatureItems(s)) = 3
         /\ SignatureItems(s)[1] = Number(s.v)
         /\ SignatureItems(s)[2] = Bytes(s.r)
         /\ SignatureItems(s)[3] = Bytes(s.s)
         /\ IsNumber(Number(s.v)) /\ NumberOf(Number(s.v).bytes) = s.v
         /\ Bytes(s.r).bytes = s.r /\ Bytes(s.s).bytes = s.s
         /\ IsNumber(Bytes(s.r)) /\ IsNumber(Bytes(s.s)) <=> Unpadded(s)
<1>1. s.v \in Nat /\ s.r \in Seq(Nat) /\ s.s \in Seq(Nat)
  BY SeqByteNat DEF Signature
<1>2. /\ Bytes(s.r) \in Item /\ IsBytes(Bytes(s.r)) /\ Bytes(s.r).bytes = s.r
      /\ Bytes(s.s) \in Item /\ IsBytes(Bytes(s.s)) /\ Bytes(s.s).bytes = s.s
      /\ Number(s.v) \in Item /\ IsNumber(Number(s.v)) /\ NumberOf(Number(s.v).bytes) = s.v
  BY <1>1, BytesItem, NumberItem
<1>3. IsNumber(Bytes(s.r)) /\ IsNumber(Bytes(s.s)) <=> Unpadded(s)
  BY <1>2 DEF IsNumber, Unpadded
<1> QED  BY <1>2, <1>3 DEF SignatureItems

\* If the whole has a length, so has the list of fields in it.
LEMMA ListLength ==
  ASSUME NEW items \in Seq(Item), IsLength(Len(<<EIP_1559_TYPE>> \o Encoded(ListOf(items))))
  PROVE  IsLength(Len(ListOf(items).bytes))
<1> DEFINE l == ListOf(items)
           E == Encoded(l)
           h == <<EIP_1559_TYPE>>
<1>1. l \in Item
  BY ListIsItem
<1>2. IsLength(Len(h \o E))
  OBVIOUS
<1> HIDE DEF l
<1>3. E \in Seq(Nat) /\ Len(l.bytes) <= Len(E) /\ l.bytes \in Seq(Nat)
  BY <1>1, EncodedType, ItemForm
<1>4. h \in Seq(Nat)
  BY DEF EIP_1559_TYPE
<1> HIDE DEF E, h
<1>5. h \o E \in Seq(Nat) /\ Len(h \o E) = Len(h) + Len(E) /\ Len(h) \in Nat /\ Len(E) \in Nat
  BY <1>3, <1>4, ConcatParts
<1>6. Len(l.bytes) \in Nat
  BY <1>3
<1>7. Len(h \o E) \in Nat /\ Len(l.bytes) <= Len(h \o E)
  BY <1>3, <1>5, <1>6
<1>8. IsLength(Len(l.bytes))
  BY <1>2, <1>6, <1>7, ShorterLength
<1> QED  BY <1>8 DEF l

\* The bytes to sign are read as the transaction they were made from.
LEMMA SigningReadsBack ==
  ASSUME NEW t \in EVMTransaction, IsLength(Len(SigningBytes(t)))
  PROVE  ReadTransaction(SigningBytes(t)) = <<[tx |-> t, signature |-> << >>]>>
<1> DEFINE fields == FieldItems(t)
<1>1. fields \in Seq(Item) /\ Len(fields) = 9
  BY FieldItemsType
<1>2. SigningBytes(t) = <<EIP_1559_TYPE>> \o Encoded(ListOf(fields))
  BY DEF SigningBytes
<1>3. \A i \in 1 .. 9 : fields[i] = FieldItems(t)[i]
  OBVIOUS
<1> HIDE DEF fields
<1>4. IsLength(Len(ListOf(fields).bytes))
  BY <1>1, <1>2, ListLength
<1>5. Len(fields) \in {9, 12} /\ {10, 11, 12} \cap DOMAIN fields = {}
  <2>1. DOMAIN fields = 1 .. 9
    BY <1>1
  <2> QED  BY <1>1, <2>1
<1>6. IsFields(fields) /\ Fields(fields) = t
  BY <1>1, <1>3, <1>4, <1>5, FieldsReadBack
<1>7. SignatureOf(fields) = << >>
  BY <1>1 DEF SignatureOf
<1>8. ReadTransaction(<<EIP_1559_TYPE>> \o Encoded(ListOf(fields)))
        = IF IsFields(fields) THEN <<[tx |-> Fields(fields), signature |-> SignatureOf(fields)]>>
          ELSE << >>
  BY <1>1, <1>4, FieldListReadsBack
<1> QED  BY <1>2, <1>6, <1>7, <1>8

\* The bytes with a signature are read as both if r and s are numbers without
\* leading zeros, and refused otherwise.
LEMMA SignedReadsBack ==
  ASSUME NEW t \in EVMTransaction, NEW s \in Signature, IsLength(Len(SignedBytes(t, s)))
  PROVE  ReadTransaction(SignedBytes(t, s))
           = IF Unpadded(s) THEN <<[tx |-> t, signature |-> <<s>>]>> ELSE << >>
<1> DEFINE nine == FieldItems(t)
           three == SignatureItems(s)
           fields == nine \o three
<1>1. nine \in Seq(Item) /\ Len(nine) = 9
  BY FieldItemsType
<1>2. /\ three \in Seq(Item) /\ Len(three) = 3
      /\ three[1] = Number(s.v) /\ three[2] = Bytes(s.r) /\ three[3] = Bytes(s.s)
  BY SignatureItemsType
<1>3. SignedBytes(t, s) = <<EIP_1559_TYPE>> \o Encoded(ListOf(fields))
  BY DEF SignedBytes
<1>4. \A i \in 1 .. 9 : nine[i] = FieldItems(t)[i]
  OBVIOUS
<1> HIDE DEF nine, three
<1>5. /\ fields \in Seq(Item) /\ Len(fields) = 12
      /\ \A i \in 1 .. 9 : fields[i] = FieldItems(t)[i]
      /\ fields[10] = Number(s.v) /\ fields[11] = Bytes(s.r) /\ fields[12] = Bytes(s.s)
  <2>1. /\ fields \in Seq(Item) /\ Len(fields) = 9 + 3
        /\ \A i \in 1 .. 9 : fields[i] = nine[i]
        /\ \A i \in 1 .. 3 : fields[9 + i] = three[i]
    <3>1. /\ nine \o three \in Seq(Item) /\ Len(nine \o three) = Len(nine) + Len(three)
          /\ \A i \in 1 .. Len(nine) : (nine \o three)[i] = nine[i]
          /\ \A i \in 1 .. Len(three) : (nine \o three)[Len(nine) + i] = three[i]
      <4>1. nine \in Seq(Item) /\ three \in Seq(Item)
        BY <1>1, <1>2
      <4> HIDE DEF fields
      <4> QED  BY <4>1, ConcatParts
    <3>2. fields = nine \o three
      OBVIOUS
    <3> HIDE DEF fields
    <3> QED  BY <1>1, <1>2, <3>1, <3>2, Zenon
  <2> HIDE DEF fields
  <2>2. 9 + 1 = 10 /\ 9 + 2 = 11 /\ 9 + 3 = 12 /\ 1 \in 1 .. 3 /\ 2 \in 1 .. 3 /\ 3 \in 1 .. 3
    OBVIOUS
  <2>3. fields[10] = three[1] /\ fields[11] = three[2] /\ fields[12] = three[3]
    BY <2>1, <2>2
  <2> QED  BY <1>2, <1>4, <2>1, <2>2, <2>3
<1> HIDE DEF fields
<1>6. IsLength(Len(ListOf(fields).bytes))
  BY <1>3, <1>5, ListLength
<1>7. ReadTransaction(<<EIP_1559_TYPE>> \o Encoded(ListOf(fields)))
        = IF IsFields(fields) THEN <<[tx |-> Fields(fields), signature |-> SignatureOf(fields)]>>
          ELSE << >>
  BY <1>5, <1>6, FieldListReadsBack
<1>8. DOMAIN fields = 1 .. 12
  BY <1>5
<1>9. IsFields(fields) => Unpadded(s)
  <2> SUFFICES ASSUME IsFields(fields) PROVE Unpadded(s)
    OBVIOUS
  <2>1. \A i \in {1, 2, 3, 4, 5, 7, 10, 11, 12} \cap DOMAIN fields : IsNumber(fields[i])
    BY Zenon DEF IsFields
  <2>2. IsNumber(fields[11]) /\ IsNumber(fields[12])
    BY <1>8, <2>1
  <2> QED  BY <1>5, <2>2, SignatureItemsType
<1>10. ASSUME Unpadded(s)
       PROVE  /\ IsFields(fields) /\ Fields(fields) = t
              /\ SignatureOf(fields) = <<s>>
  <2>1. \A i \in {10, 11, 12} \cap DOMAIN fields : IsNumber(fields[i])
    BY <1>5, <1>10, SignatureItemsType
  <2>2. Len(fields) \in {9, 12}
    BY <1>5
  <2>3. IsFields(fields) /\ Fields(fields) = t
    BY <1>5, <1>6, <2>1, <2>2, FieldsReadBack
  <2>4. /\ NumberOf(fields[10].bytes) = s.v
        /\ fields[11].bytes = s.r /\ fields[12].bytes = s.s
    BY <1>5, SignatureItemsType
  <2>5. s = [v |-> s.v, r |-> s.r, s |-> s.s]
    BY DEF Signature
  <2>6. SignatureOf(fields) = <<s>>
    BY <1>5, <2>4, <2>5 DEF SignatureOf
  <2> QED  BY <2>3, <2>6
<1>11. CASE Unpadded(s)
  BY <1>3, <1>7, <1>10, <1>11
<1>12. CASE ~ Unpadded(s)
  BY <1>3, <1>7, <1>9, <1>12
<1> QED  BY <1>11, <1>12

\* What was made from two transactions is the same only if they are.
THEOREM SigningInjective ==
  ASSUME NEW t \in EVMTransaction, NEW other \in EVMTransaction,
         IsLength(Len(SigningBytes(t))), SigningBytes(t) = SigningBytes(other)
  PROVE  t = other
<1>1. ReadTransaction(SigningBytes(t)) = <<[tx |-> t, signature |-> << >>]>>
  BY SigningReadsBack
<1>2. IsLength(Len(SigningBytes(other)))
  OBVIOUS
<1>3. ReadTransaction(SigningBytes(other)) = <<[tx |-> other, signature |-> << >>]>>
  BY <1>2, SigningReadsBack
<1>4. <<[tx |-> t, signature |-> << >>]>>[1].tx = <<[tx |-> other, signature |-> << >>]>>[1].tx
  BY <1>1, <1>3
<1> QED  BY <1>4

-----------------------------------------------------------------------------
(* The stream: calls one behind the other.                                 *)

\* The streams before the calls and after each.
Trace(f, st, calls) ==
  f = [k \in 0 .. Len(calls) |-> IF k = 0 THEN st ELSE Call(f[k - 1], calls[k])]

\* The stream after k calls.
LEMMA TraceAt ==
  ASSUME NEW f, NEW st, NEW calls, Trace(f, st, calls), NEW k \in 0 .. Len(calls)
  PROVE  f[k] = IF k = 0 THEN st ELSE Call(f[k - 1], calls[k])
<1> DEFINE F == [j \in 0 .. Len(calls) |-> IF j = 0 THEN st ELSE Call(f[j - 1], calls[j])]
<1>1. f = F
  BY DEF Trace
<1>2. F[k] = IF k = 0 THEN st ELSE Call(f[k - 1], calls[k])
  OBVIOUS
<1> HIDE DEF F
<1> QED  BY <1>1, <1>2

\* There are such streams.
LEMMA TraceExists ==
  ASSUME NEW T, NEW st
  PROVE  \A calls \in Seq(T) : \E f : Trace(f, st, calls)
<1> DEFINE P == {calls \in Seq(T) : \E f : Trace(f, st, calls)}
<1>1. << >> \in P
  <2> DEFINE f == [k \in {0} |-> st]
  <2>1. Trace(f, st, << >>)
    <3>1. Len(<< >>) = 0 /\ 0 .. 0 = {0}
      OBVIOUS
    <3>2. f = [k \in {0} |-> IF k = 0 THEN st ELSE Call(f[k - 1], << >>[k])]
      OBVIOUS
    <3> HIDE DEF f
    <3> QED  BY <3>1, <3>2 DEF Trace
  <2> HIDE DEF f
  <2>2. << >> \in Seq(T)
    OBVIOUS
  <2> QED  BY <2>1, <2>2
<1>2. ASSUME NEW calls \in P, NEW c \in T
      PROVE  Append(calls, c) \in P
  <2> DEFINE more == Append(calls, c)
             n == Len(calls)
  <2>1. PICK g : Trace(g, st, calls)
    OBVIOUS
  <2>2. /\ n \in Nat /\ more \in Seq(T) /\ Len(more) = n + 1 /\ more[n + 1] = c
        /\ \A k \in 1 .. n : more[k] = calls[k]
    OBVIOUS
  <2> DEFINE f == [k \in 0 .. n + 1 |-> IF k = n + 1 THEN Call(g[n], c) ELSE g[k]]
  <2>3. \A k \in 0 .. n : g[k] = IF k = 0 THEN st ELSE Call(g[k - 1], calls[k])
    BY <2>1, TraceAt
  <2> HIDE DEF more, n
  <2>4. \A k \in 0 .. n + 1 : f[k] = IF k = 0 THEN st ELSE Call(f[k - 1], more[k])
    <3> SUFFICES ASSUME NEW k \in 0 .. n + 1
                 PROVE  f[k] = IF k = 0 THEN st ELSE Call(f[k - 1], more[k])
      OBVIOUS
    <3>1. CASE k = n + 1
      <4>1. k # 0 /\ k - 1 = n /\ k - 1 \in 0 .. n + 1 /\ k - 1 # n + 1
        BY <2>2, <3>1
      <4> QED  BY <2>2, <3>1, <4>1
    <3>2. CASE k # n + 1
      <4>1. k \in 0 .. n /\ (k # 0 => k - 1 \in 0 .. n /\ k - 1 # n + 1 /\ k \in 1 .. n /\ k - 1 \in 0 .. n + 1)
        BY <2>2, <3>2
      <4>2. f[k] = g[k] /\ (k # 0 => f[k - 1] = g[k - 1])
        BY <3>2, <4>1
      <4> QED  BY <2>2, <2>3, <4>1, <4>2
    <3> QED  BY <3>1, <3>2
  <2>5. f = [k \in 0 .. n + 1 |-> f[k]]
    OBVIOUS
  <2> HIDE DEF f
  <2>6. f = [k \in 0 .. n + 1 |-> IF k = 0 THEN st ELSE Call(f[k - 1], more[k])]
    BY <2>4, <2>5
  <2>7. Trace(f, st, more)
    BY <2>2, <2>6 DEF Trace
  <2> QED  BY <2>2, <2>7 DEF more
<1> HIDE DEF P
<1>3. P = Seq(T)
  <2>1. P \in SUBSET Seq(T)
    BY DEF P
  <2> QED  BY <1>1, <1>2, <2>1, AppendInduction
<1> QED  BY <1>3 DEF P

\* Run means the last of them.
LEMMA RunTrace ==
  ASSUME NEW T, NEW st, NEW calls \in Seq(T)
  PROVE  \E f : Trace(f, st, calls) /\ Run(st, calls) = f[Len(calls)]
<1> DEFINE f == CHOOSE g : g = [k \in 0 .. Len(calls) |->
                     IF k = 0 THEN st ELSE Call(g[k - 1], calls[k])]
<1>1. Run(st, calls) = f[Len(calls)]
  BY Zenon DEF Run
<1>2. \E g : g = [k \in 0 .. Len(calls) |-> IF k = 0 THEN st ELSE Call(g[k - 1], calls[k])]
  <2>1. \E g : Trace(g, st, calls)
    BY TraceExists
  <2> QED  BY <2>1, Zenon DEF Trace
<1>3. Trace(f, st, calls)
  BY <1>2, Zenon DEF Trace
<1> QED  BY <1>1, <1>3

\* No calls leave the stream alone.
LEMMA RunNone == \A st : Run(st, << >>) = st
<1> SUFFICES ASSUME NEW st PROVE Run(st, << >>) = st
  OBVIOUS
<1>1. << >> \in Seq(Nat) /\ Len(<< >>) = 0 /\ 0 \in 0 .. 0
  OBVIOUS
<1>2. PICK f : Trace(f, st, << >>) /\ Run(st, << >>) = f[Len(<< >>)]
  BY <1>1, RunTrace
<1>3. f[0] = st
  BY <1>1, <1>2, TraceAt
<1> QED  BY <1>1, <1>2, <1>3

\* The streams are the same as long as the calls are.
LEMMA TracesAgree ==
  ASSUME NEW st, NEW a, NEW b, Len(a) \in Nat, Len(b) \in Nat, Len(a) <= Len(b),
         \A k \in 1 .. Len(a) : a[k] = b[k], NEW f, NEW g,
         Trace(f, st, a), Trace(g, st, b)
  PROVE  \A k \in 0 .. Len(a) : f[k] = g[k]
<1> DEFINE Same == {k \in Nat : k <= Len(a) => f[k] = g[k]}
<1>1. 0 \in Same
  <2>1. 0 \in 0 .. Len(a) /\ 0 \in 0 .. Len(b)
    OBVIOUS
  <2>2. f[0] = st /\ g[0] = st
    BY <2>1, TraceAt
  <2> QED  BY <2>2
<1>2. ASSUME NEW k \in Same
      PROVE  k + 1 \in Same
  <2> SUFFICES ASSUME k + 1 <= Len(a) PROVE f[k + 1] = g[k + 1]
    OBVIOUS
  <2>1. /\ k + 1 \in 0 .. Len(a) /\ k + 1 \in 0 .. Len(b) /\ k + 1 # 0 /\ (k + 1) - 1 = k
        /\ k + 1 \in 1 .. Len(a) /\ k <= Len(a)
    OBVIOUS
  <2>2. f[k + 1] = Call(f[(k + 1) - 1], a[k + 1]) /\ g[k + 1] = Call(g[(k + 1) - 1], b[k + 1])
    BY <2>1, TraceAt
  <2> QED  BY <2>1, <2>2
<1> HIDE DEF Same
<1>3. Same = Nat
  <2>1. Same \in SUBSET Nat
    BY DEF Same
  <2> QED  BY <1>1, <1>2, <2>1, SetInduction
<1> QED  BY <1>3 DEF Same

\* One more call is made on what the others left.
LEMMA RunAppend ==
  ASSUME NEW T, NEW st, NEW calls \in Seq(T), NEW c \in T
  PROVE  Run(st, Append(calls, c)) = Call(Run(st, calls), c)
<1> DEFINE more == Append(calls, c)
<1>1. /\ more \in Seq(T) /\ Len(calls) \in Nat /\ Len(more) = Len(calls) + 1
      /\ more[Len(calls) + 1] = c /\ \A k \in 1 .. Len(calls) : calls[k] = more[k]
  OBVIOUS
<1> HIDE DEF more
<1>2. PICK f : Trace(f, st, calls) /\ Run(st, calls) = f[Len(calls)]
  BY RunTrace
<1>3. PICK g : Trace(g, st, more) /\ Run(st, more) = g[Len(more)]
  BY <1>1, RunTrace
<1> DEFINE n == Len(calls)
<1>4. n \in 0 .. n /\ n + 1 \in 0 .. n + 1 /\ n + 1 # 0 /\ (n + 1) - 1 = n /\ n <= n + 1 /\ n + 1 \in Nat
  BY <1>1
<1>5. f[n] = g[n]
  BY <1>1, <1>2, <1>3, <1>4, TracesAgree
<1>6. g[n + 1] = Call(g[(n + 1) - 1], more[n + 1])
  BY <1>1, <1>3, <1>4, TraceAt
<1> QED  BY <1>1, <1>2, <1>3, <1>4, <1>5, <1>6 DEF more

\* Calls one behind the other.
LEMMA RunConcat ==
  ASSUME NEW T, NEW st, NEW a \in Seq(T)
  PROVE  \A b \in Seq(T) : Run(st, a \o b) = Run(Run(st, a), b)
<1> DEFINE P == {b \in Seq(T) : Run(st, a \o b) = Run(Run(st, a), b)}
<1>1. << >> \in P
  <2>1. a \o << >> = a /\ << >> \in Seq(T)
    BY ConcatEmptySeq
  <2> QED  BY <2>1, RunNone
<1>2. ASSUME NEW b \in P, NEW c \in T
      PROVE  Append(b, c) \in P
  <2>1. b \in Seq(T) /\ a \o b \in Seq(T) /\ Append(b, c) \in Seq(T)
    OBVIOUS
  <2>2. a \o Append(b, c) = Append(a \o b, c)
    BY <2>1, ConcatAppend
  <2>3. Run(st, Append(a \o b, c)) = Call(Run(st, a \o b), c)
    <3> DEFINE ab == a \o b
    <3>1. ab \in Seq(T)
      BY <2>1
    <3> HIDE DEF ab
    <3>2. Run(st, Append(ab, c)) = Call(Run(st, ab), c)
      BY <3>1, RunAppend
    <3> QED  BY <3>2 DEF ab
  <2>4. Run(Run(st, a), Append(b, c)) = Call(Run(Run(st, a), b), c)
    BY <2>1, RunAppend
  <2> QED  BY <2>1, <2>2, <2>3, <2>4
<1> HIDE DEF P
<1>3. P = Seq(T)
  <2>1. P \in SUBSET Seq(T)
    BY DEF P
  <2> QED  BY <1>1, <1>2, <2>1, AppendInduction
<1> QED  BY <1>3 DEF P

\* One call.
LEMMA RunOne ==
  ASSUME NEW st, NEW c
  PROVE  Run(st, <<c>>) = Call(st, c)
<1> DEFINE C == {c}
           none == << >>
<1>1. none \in Seq(C) /\ c \in C /\ Append(none, c) = <<c>>
  OBVIOUS
<1> HIDE DEF C, none
<1>2. \A n \in Seq(C) : Run(st, Append(n, c)) = Call(Run(st, n), c)
  <2> SUFFICES ASSUME NEW n \in Seq(C) PROVE Run(st, Append(n, c)) = Call(Run(st, n), c)
    OBVIOUS
  <2>1. c \in C
    BY <1>1
  <2> QED  BY <2>1, RunAppend
<1>3. Run(st, none) = st
  BY RunNone DEF none
<1> QED  BY <1>1, <1>2, <1>3

\* The first call and the others.
LEMMA RunFirst ==
  ASSUME NEW T, NEW st, NEW calls \in Seq(T), calls # << >>
  PROVE  Run(st, calls) = Run(Call(st, Head(calls)), Tail(calls))
<1> DEFINE first == <<Head(calls)>>
           rest == Tail(calls)
<1>1. first \in Seq(T) /\ rest \in Seq(T) /\ calls = first \o rest
  OBVIOUS
<1>3. Run(st, first) = Call(st, Head(calls))
  BY RunOne
<1> HIDE DEF first, rest
<1>2. Run(st, first \o rest) = Run(Run(st, first), rest)
  BY <1>1, RunConcat
<1>4. rest = Tail(calls)
  BY DEF rest
<1> QED  BY <1>1, <1>2, <1>3, <1>4

\* No list is closed that is not open.
Guarded(st, calls) ==
  \A k \in 1 .. Len(calls) :
    calls[k] = FinalizeList => ~ IsFinished(Run(st, SubSeq(calls, 1, k - 1)))

\* Calls behind calls.
LEMMA GuardedConcat ==
  ASSUME NEW T, NEW st, NEW a \in Seq(T), NEW b \in Seq(T),
         Guarded(st, a), Guarded(Run(st, a), b)
  PROVE  Guarded(st, a \o b)
<1> DEFINE c == a \o b
           n == Len(a)
<1>1. /\ n \in Nat /\ Len(b) \in Nat /\ c \in Seq(T) /\ Len(c) = n + Len(b)
      /\ \A k \in 1 .. n : c[k] = a[k]
      /\ \A k \in 1 .. Len(b) : c[n + k] = b[k]
  OBVIOUS
<1>2. \A k \in 1 .. n : SubSeq(c, 1, k - 1) = SubSeq(a, 1, k - 1)
  OBVIOUS
<1>3. \A k \in 1 .. Len(b) :
        SubSeq(b, 1, k - 1) \in Seq(T) /\ SubSeq(c, 1, n + k - 1) = a \o SubSeq(b, 1, k - 1)
  OBVIOUS
<1> HIDE DEF c, n
<1>4. SUFFICES ASSUME NEW k \in 1 .. Len(c), c[k] = FinalizeList
               PROVE  ~ IsFinished(Run(st, SubSeq(c, 1, k - 1)))
  BY DEF Guarded, c
<1>5. CASE k <= n
  <2>1. k \in 1 .. n
    BY <1>1, <1>5
  <2> QED  BY <1>1, <1>2, <1>4, <2>1 DEF Guarded, n
<1>6. CASE ~ k <= n
  <2> DEFINE j == k - n
  <2>1. j \in 1 .. Len(b) /\ k = n + j
    BY <1>1, <1>6
  <2> HIDE DEF j
  <2> DEFINE d == SubSeq(b, 1, j - 1)
  <2>2. d \in Seq(T) /\ SubSeq(c, 1, k - 1) = a \o d /\ b[j] = FinalizeList
    BY <1>1, <1>3, <1>4, <2>1, SMTT(40)
  <2>3. ~ IsFinished(Run(Run(st, a), d))
    BY <2>1, <2>2 DEF Guarded
  <2> HIDE DEF d
  <2>4. Run(st, a \o d) = Run(Run(st, a), d)
    BY <2>2, RunConcat
  <2> QED  BY <2>2, <2>3, <2>4
<1> QED  BY <1>5, <1>6

\* One call.
LEMMA GuardedOne ==
  ASSUME NEW st, NEW call, call = FinalizeList => ~ IsFinished(st)
  PROVE  Guarded(st, <<call>>)
<1>1. Len(<<call>>) = 1 /\ <<call>>[1] = call /\ SubSeq(<<call>>, 1, 1 - 1) = << >>
  OBVIOUS
<1>2. \A k \in 1 .. Len(<<call>>) : k = 1
  OBVIOUS
<1> DEFINE one == <<call>>
<1> HIDE DEF one
<1>3. one[1] = call /\ SubSeq(one, 1, 1 - 1) = << >> /\ \A k \in 1 .. Len(one) : k = 1
  BY <1>1, <1>2 DEF one
<1>4. Guarded(st, one)
  BY <1>3, RunNone DEF Guarded
<1> QED  BY <1>4 DEF one

\* The first call may be made, and then the others.
LEMMA GuardedFirst ==
  ASSUME NEW T, NEW st, NEW calls \in Seq(T), calls # << >>, Guarded(st, calls)
  PROVE  /\ Head(calls) = FinalizeList => ~ IsFinished(st)
         /\ Guarded(Call(st, Head(calls)), Tail(calls))
<1> DEFINE rest == Tail(calls)
           first == <<Head(calls)>>
<1>1. /\ Len(calls) \in Nat /\ 1 \in 1 .. Len(calls) /\ Head(calls) = calls[1]
      /\ SubSeq(calls, 1, 1 - 1) = << >> /\ first \in Seq(T)
      /\ rest \in Seq(T) /\ Len(rest) = Len(calls) - 1
      /\ \A k \in 1 .. Len(rest) : rest[k] = calls[k + 1] /\ k + 1 \in 1 .. Len(calls)
  OBVIOUS
<1>2. Head(calls) = FinalizeList => ~ IsFinished(st)
  BY <1>1, RunNone DEF Guarded
<1>3. \A k \in 1 .. Len(rest) :
        /\ SubSeq(rest, 1, k - 1) \in Seq(T)
        /\ SubSeq(calls, 1, (k + 1) - 1) = first \o SubSeq(rest, 1, k - 1)
  OBVIOUS
<1>4. Run(st, first) = Call(st, Head(calls))
  BY RunOne
<1> HIDE DEF rest, first
<1>5. ASSUME NEW k \in 1 .. Len(rest), rest[k] = FinalizeList
      PROVE  ~ IsFinished(Run(Call(st, Head(calls)), SubSeq(rest, 1, k - 1)))
  <2> DEFINE d == SubSeq(rest, 1, k - 1)
  <2>1. d \in Seq(T) /\ SubSeq(calls, 1, (k + 1) - 1) = first \o d
    BY <1>3
  <2>2. ~ IsFinished(Run(st, SubSeq(calls, 1, (k + 1) - 1)))
    BY <1>1, <1>5 DEF Guarded
  <2> HIDE DEF d
  <2>3. Run(st, first \o d) = Run(Run(st, first), d)
    BY <1>1, <2>1, RunConcat
  <2>4. ~ IsFinished(Run(Call(st, Head(calls)), d))
    BY <1>4, <2>1, <2>2, <2>3
  <2> QED  BY <2>4 DEF d
<1>6. Guarded(Call(st, Head(calls)), rest)
  BY <1>5 DEF Guarded
<1> QED  BY <1>2, <1>6 DEF rest

\* The calls on a stream, and the streams.
Calls == {AppendBytes(b) : b \in Seq(Nat)} \cup {BeginList, FinalizeList}

Streams == [buffer : Seq(Nat), unfinished : Seq(Nat)]

\* The calls put bytes behind the others, close the lists they open and no others.
Emits(calls, bytes) ==
  \A st \in Streams :
    /\ Run(st, calls) = Stream(st.buffer \o bytes, st.unfinished)
    /\ Guarded(st, calls)

\* What the three kinds of calls are and do.
LEMMA CallsMade ==
  /\ \A b \in Seq(Nat) : AppendBytes(b) \in Calls
  /\ BeginList \in Calls /\ FinalizeList \in Calls
  /\ \A st : /\ \A b : Call(st, AppendBytes(b)) = AppendValue(st, b)
                 /\ Call(st, BeginList) = BeginUnboundedList(st)
                 /\ Call(st, FinalizeList) = FinalizeUnboundedList(st)
  /\ BeginList # FinalizeList /\ \A b : AppendBytes(b) # FinalizeList
<1>1. /\ \A b \in Seq(Nat) : AppendBytes(b) \in Calls
      /\ BeginList \in Calls /\ FinalizeList \in Calls
  BY DEF Calls
<1>2. \A b : AppendBytes(b).call = "append" /\ AppendBytes(b).bytes = b
  BY DEF AppendBytes
<1>3. BeginList.call = "begin" /\ FinalizeList.call = "finalize"
  BY DEF BeginList, FinalizeList
<1>4. ASSUME NEW st PROVE /\ \A b : Call(st, AppendBytes(b)) = AppendValue(st, b)
                 /\ Call(st, BeginList) = BeginUnboundedList(st)
                 /\ Call(st, FinalizeList) = FinalizeUnboundedList(st)
  BY <1>2, <1>3 DEF Call
<1>5. BeginList # FinalizeList /\ \A b : AppendBytes(b) # FinalizeList
  BY <1>2, <1>3
<1> QED  BY <1>1, <1>4, <1>5

\* A stream is its buffer and its open lists.
LEMMA StreamParts ==
  /\ \A b \in Seq(Nat), u \in Seq(Nat) :
       Stream(b, u) \in Streams /\ Stream(b, u).buffer = b /\ Stream(b, u).unfinished = u
  /\ \A st \in Streams :
       /\ st.buffer \in Seq(Nat) /\ st.unfinished \in Seq(Nat)
       /\ st = Stream(st.buffer, st.unfinished)
  BY DEF Streams, Stream

\* No calls emit nothing.
LEMMA EmitsNone == Emits(<< >>, << >>)
<1> SUFFICES ASSUME NEW st \in Streams
             PROVE  Run(st, << >>) = Stream(st.buffer \o << >>, st.unfinished)
  BY DEF Emits, Guarded
<1>1. st.buffer \o << >> = st.buffer /\ st = Stream(st.buffer, st.unfinished)
  BY StreamParts, ConcatEmptySeq
<1> QED  BY <1>1, RunNone

\* append emits the encoding of a byte string.
LEMMA EmitsValue ==
  ASSUME NEW b \in Seq(Nat)
  PROVE  /\ <<AppendBytes(b)>> \in Seq(Calls)
         /\ EncodeValue(b) = Encoded(Bytes(b)) /\ EncodeValue(b) \in Seq(Nat)
         /\ Emits(<<AppendBytes(b)>>, EncodeValue(b))
<1>1. AppendBytes(b) \in Calls
  BY CallsMade
<1>2. EncodeValue(b) = Encoded(Bytes(b))
  BY BytesItem DEF Encoded
<1>3. EncodeValue(b) \in Seq(Nat)
  BY <1>2, BytesItem, EncodedType
<1>4. ASSUME NEW st \in Streams
      PROVE  Run(st, <<AppendBytes(b)>>)
               = Stream(st.buffer \o EncodeValue(b), st.unfinished)
  <2>1. Run(st, <<AppendBytes(b)>>) = Call(st, AppendBytes(b))
    BY RunOne
  <2>2. Call(st, AppendBytes(b)) = AppendValue(st, b)
    BY CallsMade
  <2> QED  BY <2>1, <2>2 DEF AppendValue
<1>5. \A st : Guarded(st, <<AppendBytes(b)>>)
  BY CallsMade, GuardedOne
<1> QED  BY <1>1, <1>2, <1>3, <1>4, <1>5 DEF Emits

\* Concatenation of bytes is associative.
LEMMA RegroupBytes ==
  ASSUME NEW a \in Seq(Nat), NEW b \in Seq(Nat), NEW c \in Seq(Nat)
  PROVE  (a \o b) \o c = a \o (b \o c)
  OBVIOUS

\* Calls behind calls emit bytes behind bytes.
LEMMA EmitsBoth ==
  ASSUME NEW a \in Seq(Calls), NEW b \in Seq(Calls), NEW d \in Seq(Nat), NEW e \in Seq(Nat),
         Emits(a, d), Emits(b, e)
  PROVE  Emits(a \o b, d \o e)
<1> SUFFICES ASSUME NEW st \in Streams
             PROVE  /\ Run(st, a \o b) = Stream(st.buffer \o (d \o e), st.unfinished)
                    /\ Guarded(st, a \o b)
  BY DEF Emits
<1> DEFINE middle == Stream(st.buffer \o d, st.unfinished)
<1>1. Run(st, a \o b) = Run(Run(st, a), b)
  BY RunConcat
<1>2. Run(st, a) = middle /\ Guarded(st, a)
  BY DEF Emits
<1>3. st.buffer \in Seq(Nat) /\ st.unfinished \in Seq(Nat)
  BY StreamParts
<1>4. st.buffer \o d \in Seq(Nat) /\ (st.buffer \o d) \o e = st.buffer \o (d \o e)
  <2> DEFINE buffer == st.buffer
  <2>1. buffer \in Seq(Nat)
    BY <1>3
  <2> HIDE DEF buffer, middle
  <2>2. buffer \o d \in Seq(Nat)
    BY <2>1
  <2>3. (buffer \o d) \o e = buffer \o (d \o e)
    BY <2>1, RegroupBytes
  <2> QED  BY <2>2, <2>3 DEF buffer
<1>5. /\ middle \in Streams /\ middle.buffer = st.buffer \o d
      /\ middle.unfinished = st.unfinished
  BY <1>3, <1>4, StreamParts
<1> HIDE DEF middle
<1>6. Run(middle, b) = Stream(middle.buffer \o e, middle.unfinished) /\ Guarded(middle, b)
  BY <1>5 DEF Emits
<1>7. Guarded(st, a \o b)
  BY <1>2, <1>6, GuardedConcat
<1> QED  BY <1>1, <1>2, <1>4, <1>5, <1>6, <1>7

\* A list is closed behind its payload: the reserved byte becomes the header.
LEMMA ListIsClosed ==
  ASSUME NEW b \in Seq(Nat), NEW u \in Seq(Nat), NEW e \in Seq(Nat)
  PROVE  FinalizeUnboundedList(Stream(Append(b, 0) \o e, Append(u, Len(b) + 1)))
           = Stream(b \o (Header(192, Len(e)) \o e), u)
<1> DEFINE z == <<0>>
           whole == (b \o z) \o e
           opened == Append(u, Len(b) + 1)
           st == Stream(whole, opened)
           H == Header(192, Len(e))
<1>1. z \in Seq(Nat) /\ Len(z) = 1 /\ Append(b, 0) = b \o z
  OBVIOUS
<1>2. opened[Len(opened)] = Len(b) + 1 /\ SubSeq(opened, 1, Len(opened) - 1) = u
  OBVIOUS
<1>3. H \in Seq(Nat)
  <2>1. 192 \in Bases /\ Len(e) \in Nat
    BY DEF Bases
  <2> QED  BY <2>1, HeaderType
<1>4. whole \in Seq(Nat) /\ Len(b) \in Nat /\ Len(whole) \in Nat
  BY <1>1
<1> HIDE DEF z, H
<1>5. SubSeq(whole, 1, Len(b)) = b
  BY <1>1, CutHead
<1>6. SubSeq(whole, Len(b) + Len(z) + 1, Len(whole)) = e
  BY <1>1, CutTail
<1> HIDE DEF whole, opened
<1>7. st.buffer = whole /\ st.unfinished = opened
  BY DEF Stream
<1> HIDE DEF st
<1>8. Last(st.unfinished) = Len(b) + 1 /\ Front(st.unfinished) = u
  BY <1>2, <1>7 DEF Last, Front
<1>9. (Len(b) + 1) - 1 = Len(b) /\ (Len(b) + 1) + 1 = Len(b) + Len(z) + 1
  BY <1>1, <1>4
<1>10. SubSeq(whole, 1, (Len(b) + 1) - 1) = b /\ SubSeq(whole, (Len(b) + 1) + 1, Len(whole)) = e
  BY <1>5, <1>6, <1>9
<1>11. FinalizeUnboundedList(st) = Stream((b \o H) \o e, u)
  BY <1>7, <1>8, <1>10, ZenonT(60) DEF FinalizeUnboundedList, H
<1>12. (b \o H) \o e = b \o (H \o e)
  BY <1>3, SMTT(40)
<1> QED  BY <1>1, <1>11, <1>12 DEF st, whole, opened, H

\* begin and finalize put a header before what is emitted between them.
LEMMA EmitsList ==
  ASSUME NEW a \in Seq(Calls), NEW e \in Seq(Nat), Emits(a, e)
  PROVE  /\ (<<BeginList>> \o a) \o <<FinalizeList>> \in Seq(Calls)
         /\ Emits((<<BeginList>> \o a) \o <<FinalizeList>>, Header(192, Len(e)) \o e)
<1> DEFINE begin == <<BeginList>>
           end == <<FinalizeList>>
<1>1. begin \in Seq(Calls) /\ end \in Seq(Calls)
  BY CallsMade
<1>2. \A st : Run(st, begin) = BeginUnboundedList(st)
                  /\ Run(st, end) = FinalizeUnboundedList(st)
  BY RunOne, CallsMade
<1> HIDE DEF begin, end
<1>3. begin \o a \in Seq(Calls) /\ (begin \o a) \o end \in Seq(Calls)
  BY <1>1
<1>4. ASSUME NEW st \in Streams
      PROVE  /\ Run(st, (begin \o a) \o end)
                  = Stream(st.buffer \o (Header(192, Len(e)) \o e), st.unfinished)
             /\ Guarded(st, (begin \o a) \o end)
  <2> DEFINE b == st.buffer
             u == st.unfinished
             begun == Stream(Append(b, 0), Append(u, Len(b) + 1))
  <2>1. b \in Seq(Nat) /\ u \in Seq(Nat)
    BY StreamParts
  <2>2. Len(Append(b, 0)) = Len(b) + 1 /\ Append(b, 0) \in Seq(Nat) /\ Append(u, Len(b) + 1) \in Seq(Nat)
    BY <2>1
  <2>3. BeginUnboundedList(st) = begun
    BY <2>2 DEF BeginUnboundedList
  <2>4. begun \in Streams /\ begun.buffer = Append(b, 0) /\ begun.unfinished = Append(u, Len(b) + 1)
    BY <2>2, StreamParts
  <2> HIDE DEF begun
  <2>5. Run(begun, a) = Stream(Append(b, 0) \o e, Append(u, Len(b) + 1))
    BY <2>4 DEF Emits
  <2>6. Run(st, (begin \o a) \o end) = Run(Run(st, begin \o a), end)
    <3> DEFINE front == begin \o a
    <3>1. front \in Seq(Calls)
      BY <1>3
    <3> HIDE DEF front
    <3>2. Run(st, front \o end) = Run(Run(st, front), end)
      BY <1>1, <3>1, RunConcat
    <3> QED  BY <3>2 DEF front
  <2>7. Run(st, begin \o a) = Run(Run(st, begin), a)
    BY <1>1, RunConcat
  <2>8. FinalizeUnboundedList(Stream(Append(b, 0) \o e, Append(u, Len(b) + 1)))
          = Stream(b \o (Header(192, Len(e)) \o e), u)
    BY <2>1, ListIsClosed
  <2>9. Run(st, (begin \o a) \o end)
          = Stream(b \o (Header(192, Len(e)) \o e), u)
    BY <1>2, <2>3, <2>5, <2>6, <2>7, <2>8
  <2>10. Guarded(st, begin) /\ Guarded(begun, a)
    BY <2>4, CallsMade, GuardedOne DEF begin, Emits
  <2> DEFINE front == begin \o a
  <2>11. Guarded(st, front) /\ front \in Seq(Calls)
    BY <1>1, <1>2, <1>3, <2>3, <2>10, GuardedConcat
  <2>12. Run(st, front) = Stream(Append(b, 0) \o e, Append(u, Len(b) + 1))
    BY <1>2, <2>3, <2>5, <2>7
  <2>13. ~ IsFinished(Run(st, front))
    <3>1. Append(u, Len(b) + 1) # << >>
      <4>1. \A v \in Seq(Nat), m \in Nat : Append(v, m) # << >>
        OBVIOUS
      <4>2. u \in Seq(Nat) /\ Len(b) + 1 \in Nat
        BY <2>1
      <4> QED  BY <4>1, <4>2, Zenon
    <3> QED  BY <2>12, <3>1 DEF IsFinished, Stream
  <2> HIDE DEF front
  <2>14. Guarded(Run(st, front), end)
    BY <2>13, GuardedOne DEF end
  <2>15. Guarded(st, front \o end)
    BY <1>1, <2>11, <2>14, GuardedConcat
  <2> QED  BY <2>9, <2>15 DEF front
<1> QED  BY <1>3, <1>4 DEF Emits, begin, end

\* The encodings of one more item.
LEMMA EncodingsAppend ==
  ASSUME NEW items \in Seq(Item), NEW x \in Item
  PROVE  FlattenSeq(Encodings(Append(items, x))) = FlattenSeq(Encodings(items)) \o Encoded(x)
<1> DEFINE more == Append(items, x)
           e == Encodings(items)
           n == Len(items)
<1>1. /\ n \in Nat /\ more \in Seq(Item) /\ Len(more) = n + 1 /\ more[n + 1] = x
      /\ DOMAIN more = 1 .. n + 1 /\ \A i \in 1 .. n : more[i] = items[i]
  OBVIOUS
<1>2. /\ e \in Seq(Seq(Nat)) /\ Len(e) = n /\ \A i \in 1 .. n : e[i] = Encoded(items[i])
  BY EncodingsType
<1>3. Encoded(x) \in Seq(Nat)
  BY EncodedType
<1> HIDE DEF more
<1>4. Encodings(more) = [i \in 1 .. n + 1 |-> Encoded(more[i])]
  BY <1>1 DEF Encodings
<1> HIDE DEF e, n
<1>5. Append(e, Encoded(x)) = [i \in 1 .. n + 1 |-> IF i = n + 1 THEN Encoded(x) ELSE e[i]]
  <2> DEFINE y == Encoded(x)
             T == Seq(Nat)
  <2>1. y \in T /\ e \in Seq(T) /\ Len(e) = n
    BY <1>2, <1>3
  <2> HIDE DEF y, T
  <2>2. Append(e, y) = [i \in 1 .. Len(e) + 1 |-> IF i = Len(e) + 1 THEN y ELSE e[i]]
    BY <2>1, AppendIs
  <2> QED  BY <2>1, <2>2 DEF y
<1>6. \A i \in 1 .. n + 1 : Encoded(more[i]) = IF i = n + 1 THEN Encoded(x) ELSE e[i]
  <2> SUFFICES ASSUME NEW i \in 1 .. n + 1
               PROVE  Encoded(more[i]) = IF i = n + 1 THEN Encoded(x) ELSE e[i]
    OBVIOUS
  <2>1. CASE i = n + 1
    BY <1>1, <2>1
  <2>2. CASE i # n + 1
    <3>1. i \in 1 .. n
      BY <1>1, <2>2
    <3> QED  BY <1>1, <1>2, <2>2, <3>1
  <2> QED  BY <2>1, <2>2
<1>7. Encodings(more) = Append(e, Encoded(x))
  BY <1>4, <1>5, <1>6, Zenon
<1>8. FlattenSeq(Append(e, Encoded(x))) = FlattenSeq(e) \o Encoded(x)
  BY <1>2, <1>3, FlattenAppend
<1> HIDE DEF FlattenSeq
<1> QED  BY <1>7, <1>8 DEF more, e

\* The encodings of items behind items.
LEMMA EncodingsConcat ==
  ASSUME NEW a \in Seq(Item), NEW b \in Seq(Item)
  PROVE  FlattenSeq(Encodings(a \o b)) = FlattenSeq(Encodings(a)) \o FlattenSeq(Encodings(b))
<1> DEFINE Holds(u) == FlattenSeq(Encodings(a \o u))
                         = FlattenSeq(Encodings(a)) \o FlattenSeq(Encodings(u))
           P == {u \in Seq(Item) : Holds(u)}
<1>0. \A u \in Seq(Item) : FlattenSeq(Encodings(u)) \in Seq(Nat)
  <2> SUFFICES ASSUME NEW u \in Seq(Item) PROVE FlattenSeq(Encodings(u)) \in Seq(Nat)
    OBVIOUS
  <2>1. Encodings(u) \in Seq(Seq(Nat))
    BY EncodingsType
  <2> QED  BY <2>1, FlattenType
<1> HIDE DEF FlattenSeq
<1>1. << >> \in P
  <2>1. a \o << >> = a /\ << >> \in Seq(Item)
    BY ConcatEmptySeq
  <2>2. Encodings(<< >>) = << >>
    BY DEF Encodings
  <2>3. FlattenSeq(Encodings(a)) \o << >> = FlattenSeq(Encodings(a))
    BY <1>0, ConcatEmptySeq
  <2> QED  BY <2>1, <2>2, <2>3, FlattenEmpty
<1>2. ASSUME NEW u \in P, NEW x \in Item
      PROVE  Append(u, x) \in P
  <2>1. u \in Seq(Item) /\ a \o u \in Seq(Item) /\ Append(u, x) \in Seq(Item)
    OBVIOUS
  <2>2. a \o Append(u, x) = Append(a \o u, x)
    BY <2>1, ConcatAppend
  <2>3. FlattenSeq(Encodings(Append(a \o u, x))) = FlattenSeq(Encodings(a \o u)) \o Encoded(x)
    <3> DEFINE au == a \o u
    <3>1. au \in Seq(Item)
      BY <2>1
    <3> HIDE DEF au
    <3>2. FlattenSeq(Encodings(Append(au, x))) = FlattenSeq(Encodings(au)) \o Encoded(x)
      BY <3>1, EncodingsAppend
    <3> QED  BY <3>2 DEF au
  <2>4. FlattenSeq(Encodings(Append(u, x))) = FlattenSeq(Encodings(u)) \o Encoded(x)
    BY <2>1, EncodingsAppend
  <2> DEFINE left == FlattenSeq(Encodings(a))
             middle == FlattenSeq(Encodings(u))
             right == Encoded(x)
  <2>5. left \in Seq(Nat) /\ middle \in Seq(Nat) /\ right \in Seq(Nat)
    BY <1>0, <2>1, EncodedType
  <2>6. FlattenSeq(Encodings(a \o u)) = left \o middle
    OBVIOUS
  <2> HIDE DEF left, middle, right, P
  <2>7. (left \o middle) \o right = left \o (middle \o right)
    BY <2>5, RegroupBytes
  <2>8. Holds(Append(u, x))
    BY <2>2, <2>3, <2>4, <2>6, <2>7 DEF left, middle, right
  <2> QED  BY <2>1, <2>8 DEF P
<1> HIDE DEF P
<1>3. P = Seq(Item)
  <2>1. P \in SUBSET Seq(Item)
    BY DEF P
  <2> QED  BY <1>1, <1>2, <2>1, AppendInduction
<1> QED  BY <1>3 DEF P

\* What calls emit, one behind the other.
LEMMA EmitsAll ==
  ASSUME NEW calls \in Seq(Seq(Calls)), NEW items \in Seq(Item), Len(calls) = Len(items),
         \A i \in 1 .. Len(calls) : Emits(calls[i], Encoded(items[i]))
  PROVE  FlattenSeq(calls) \in Seq(Calls) /\ Emits(FlattenSeq(calls), FlattenSeq(Encodings(items)))
<1> DEFINE n == Len(calls)
           c(k) == SubSeq(calls, 1, k)
           t(k) == SubSeq(items, 1, k)
           Done == {k \in Nat : k <= n => Emits(FlattenSeq(c(k)), FlattenSeq(Encodings(t(k))))}
<1>1. n \in Nat /\ c(n) = calls /\ t(n) = items
  OBVIOUS
<1> HIDE DEF FlattenSeq
<1>2. 0 \in Done
  <2>1. c(0) = << >> /\ t(0) = << >> /\ Encodings(<< >>) = << >>
    BY DEF Encodings
  <2> QED  BY <2>1, FlattenEmpty, EmitsNone
<1>3. ASSUME NEW k \in Done
      PROVE  k + 1 \in Done
  <2> SUFFICES ASSUME k + 1 <= n
               PROVE  Emits(FlattenSeq(c(k + 1)), FlattenSeq(Encodings(t(k + 1))))
    OBVIOUS
  <2> DEFINE ck == c(k)
             tk == t(k)
             x == calls[k + 1]
             y == items[k + 1]
  <2>1. /\ k \in Nat /\ k <= n /\ k + 1 \in 1 .. n
        /\ x \in Seq(Calls) /\ y \in Item
        /\ ck \in Seq(Seq(Calls)) /\ tk \in Seq(Item)
    OBVIOUS
  <2>2. c(k + 1) = Append(ck, x)
    BY <2>1
  <2>3. t(k + 1) = Append(tk, y)
    BY <2>1
  <2>4. Emits(FlattenSeq(ck), FlattenSeq(Encodings(tk)))
    BY <2>1
  <2>5. Emits(x, Encoded(y))
    BY <2>1
  <2> HIDE DEF ck, tk, x, y, n, c, t, Done
  <2>6. FlattenSeq(Append(ck, x)) = FlattenSeq(ck) \o x /\ FlattenSeq(ck) \in Seq(Calls)
    BY <2>1, FlattenAppend, FlattenType
  <2>7. FlattenSeq(Encodings(Append(tk, y))) = FlattenSeq(Encodings(tk)) \o Encoded(y)
    BY <2>1, EncodingsAppend
  <2>8. Encodings(tk) \in Seq(Seq(Nat)) /\ Encoded(y) \in Seq(Nat)
    BY <2>1, EncodingsType, EncodedType
  <2>9. FlattenSeq(Encodings(tk)) \in Seq(Nat)
    BY <2>8, FlattenType
  <2>10. Emits(FlattenSeq(ck) \o x, FlattenSeq(Encodings(tk)) \o Encoded(y))
    BY <2>1, <2>4, <2>5, <2>6, <2>8, <2>9, EmitsBoth
  <2> QED  BY <2>2, <2>3, <2>6, <2>7, <2>10
<1> HIDE DEF Done
<1>4. Done = Nat
  <2>1. Done \in SUBSET Nat
    BY DEF Done
  <2> QED  BY <1>2, <1>3, <2>1, SetInduction
<1>5. Emits(FlattenSeq(c(n)), FlattenSeq(Encodings(t(n))))
  BY <1>1, <1>4 DEF Done
<1>6. FlattenSeq(calls) \in Seq(Calls)
  BY FlattenType
<1> QED  BY <1>1, <1>5, <1>6

Appends(values) == [i \in DOMAIN values |-> AppendBytes(values[i])]

\* Appended byte strings.
LEMMA EmitsValues ==
  ASSUME NEW values \in Seq(Seq(Nat))
  PROVE  /\ Appends(values) \in Seq(Calls)
         /\ Strings(values) \in Seq(Item)
         /\ Emits(Appends(values), FlattenSeq(Encodings(Strings(values))))
<1> DEFINE single == [i \in DOMAIN values |-> <<AppendBytes(values[i])>>]
           items == Strings(values)
<1>1. /\ DOMAIN values = 1 .. Len(values) /\ Len(values) \in Nat
      /\ \A i \in 1 .. Len(values) : values[i] \in Seq(Nat)
  OBVIOUS
<1>2. \A i \in 1 .. Len(values) :
        /\ AppendBytes(values[i]) \in Calls
        /\ <<AppendBytes(values[i])>> \in Seq(Calls)
        /\ Bytes(values[i]) \in Item
        /\ Emits(<<AppendBytes(values[i])>>, Encoded(Bytes(values[i])))
  BY <1>1, CallsMade, EmitsValue, BytesItem
<1>3. Appends(values) \in Seq(Calls)
  <2> DEFINE n == Len(values)
  <2>1. Appends(values) \in [1 .. n -> Calls]
    BY <1>1, <1>2 DEF Appends
  <2> HIDE DEF n
  <2> QED  BY <1>1, <2>1, MadeSequence DEF n
<1>4. /\ items \in Seq(Item) /\ Len(items) = Len(values)
      /\ \A i \in 1 .. Len(values) : items[i] = Bytes(values[i])
  <2> DEFINE n == Len(values)
  <2>1. items \in [1 .. n -> Item] /\ \A i \in 1 .. n : items[i] = Bytes(values[i])
    BY <1>1, <1>2 DEF Strings
  <2> HIDE DEF n, items
  <2>2. n \in Nat
    BY <1>1 DEF n
  <2> QED  BY <2>1, <2>2, MadeSequence DEF n
<1>5. /\ single \in Seq(Seq(Calls)) /\ Len(single) = Len(values)
      /\ \A i \in 1 .. Len(values) : single[i] = <<AppendBytes(values[i])>>
  <2> DEFINE n == Len(values)
  <2>1. single \in [1 .. n -> Seq(Calls)] /\ \A i \in 1 .. n : single[i] = <<AppendBytes(values[i])>>
    BY <1>1, <1>2
  <2> HIDE DEF n, single
  <2>2. n \in Nat
    BY <1>1 DEF n
  <2> QED  BY <2>1, <2>2, MadeSequence DEF n
<1> HIDE DEF single, items
<1>6. Emits(FlattenSeq(single), FlattenSeq(Encodings(items)))
  BY <1>2, <1>4, <1>5, EmitsAll
<1>7. FlattenSeq(single) = Appends(values)
  <2>1. single = [i \in DOMAIN Appends(values) |-> <<Appends(values)[i]>>]
    BY DEF single, Appends
  <2> QED  BY <1>3, <2>1, FlattenSingles
<1> QED  BY <1>3, <1>4, <1>6, <1>7 DEF items

-----------------------------------------------------------------------------
(* The builders make the bytes that the node makes.                        *)

\* A list around calls.
LEMMA WritesList ==
  ASSUME NEW a \in Seq(Calls), NEW items \in Seq(Item), Emits(a, FlattenSeq(Encodings(items)))
  PROVE  /\ (<<BeginList>> \o a) \o <<FinalizeList>> \in Seq(Calls)
         /\ Emits((<<BeginList>> \o a) \o <<FinalizeList>>, Encoded(ListOf(items)))
         /\ Encoded(ListOf(items)) \in Seq(Nat)
         /\ ListOf(items) \in Item
<1> DEFINE e == FlattenSeq(Encodings(items))
<1>1. e \in Seq(Nat)
  <2>1. Encodings(items) \in Seq(Seq(Nat))
    BY EncodingsType
  <2> QED  BY <2>1, FlattenType
<1>2. ListOf(items) \in Item /\ ~ IsBytes(ListOf(items)) /\ ListOf(items).bytes = e
  BY ListIsItem
<1>3. Emits(a, e)
  OBVIOUS
<1> HIDE DEF e
<1>4. Encoded(ListOf(items)) = Header(192, Len(e)) \o e
  BY <1>2 DEF Encoded
<1>5. Encoded(ListOf(items)) \in Seq(Nat)
  BY <1>2, EncodedType
<1> QED  BY <1>1, <1>2, <1>3, <1>4, <1>5, EmitsList, ZenonT(60)

\* One item before another.
LEMMA TwoEncodings ==
  ASSUME NEW x \in Item, NEW y \in Item
  PROVE  FlattenSeq(Encodings(<<x, y>>)) = Encoded(x) \o Encoded(y)
<1> DEFINE none == << >>
           one == <<x>>
<1>1. /\ none \in Seq(Item) /\ one \in Seq(Item) /\ one = Append(none, x) /\ <<x, y>> = Append(one, y)
  OBVIOUS
<1>2. Encodings(none) = << >>
  BY DEF Encodings
<1> HIDE DEF none, one
<1>3. FlattenSeq(Encodings(Append(none, x))) = FlattenSeq(Encodings(none)) \o Encoded(x)
  BY <1>1, EncodingsAppend
<1>4. FlattenSeq(Encodings(Append(one, y))) = FlattenSeq(Encodings(one)) \o Encoded(y)
  BY <1>1, EncodingsAppend
<1>5. Encoded(x) \in Seq(Nat)
  BY EncodedType
<1>6. << >> \o Encoded(x) = Encoded(x)
  BY <1>5, ConcatEmptySeq
<1> HIDE DEF FlattenSeq
<1> QED  BY <1>1, <1>2, <1>3, <1>4, <1>6, FlattenEmpty

\* The calls for an access emit the node's encoding of it.
LEMMA WritesAccess ==
  ASSUME NEW access \in Access
  PROVE  /\ EncodeAccess(access) \in Seq(Calls)
         /\ AccessItem(access) \in Item
         /\ Emits(EncodeAccess(access), Encoded(AccessItem(access)))
<1> DEFINE address == access.address
           keys == access.keys
           ks == Strings(keys)
           a == Appends(keys)
           x == Bytes(address)
           y == ListOf(ks)
           one == <<AppendBytes(address)>>
           two == (<<BeginList>> \o a) \o <<FinalizeList>>
           both == one \o two
<1>1. address \in Seq(Nat) /\ keys \in Seq(Seq(Nat))
  <2>1. address \in Seq(Byte) /\ keys \in Seq(Key)
    BY DEF Access, Address
  <2>2. \A k \in Key : k \in Seq(Nat)
    BY SeqByteNat DEF Key
  <2>3. keys \in Seq(Seq(Nat))
    <3> DEFINE K == Key
               N == Seq(Nat)
               n == Len(keys)
    <3>1. keys \in Seq(K) /\ \A k \in K : k \in N
      BY <2>1, <2>2
    <3> HIDE DEF K, N, keys
    <3>2. n \in Nat /\ keys \in [1 .. n -> N]
      BY <3>1
    <3> HIDE DEF n
    <3>3. keys \in Seq(N)
      BY <3>2, MadeSequence
    <3> QED  BY <3>3 DEF N
  <2> QED  BY <2>1, <2>3, SeqByteNat
<1> HIDE DEF address, keys
<1>2. a \in Seq(Calls) /\ ks \in Seq(Item) /\ Emits(a, FlattenSeq(Encodings(ks)))
  BY <1>1, EmitsValues
<1> HIDE DEF a, ks
<1>3. two \in Seq(Calls) /\ Emits(two, Encoded(y)) /\ Encoded(y) \in Seq(Nat) /\ y \in Item
  BY <1>2, WritesList
<1>4. one \in Seq(Calls) /\ Emits(one, Encoded(x)) /\ Encoded(x) \in Seq(Nat) /\ x \in Item
  BY <1>1, EmitsValue, BytesItem
<1> HIDE DEF one, two, x, y
<1>5. both \in Seq(Calls) /\ Emits(both, Encoded(x) \o Encoded(y))
  BY <1>3, <1>4, EmitsBoth
<1> DEFINE parts == <<x, y>>
<1>6. parts \in Seq(Item) /\ FlattenSeq(Encodings(parts)) = Encoded(x) \o Encoded(y)
  <2>1. x \in Item /\ y \in Item
    BY <1>3, <1>4
  <2> HIDE DEF both, parts
  <2>2. FlattenSeq(Encodings(<<x, y>>)) = Encoded(x) \o Encoded(y)
    BY <2>1, TwoEncodings
  <2>3. <<x, y>> \in Seq(Item)
    BY <2>1
  <2> QED  BY <2>2, <2>3, Zenon DEF parts
<1> HIDE DEF both, parts
<1>7. /\ (<<BeginList>> \o both) \o <<FinalizeList>> \in Seq(Calls)
      /\ Emits((<<BeginList>> \o both) \o <<FinalizeList>>, Encoded(ListOf(parts)))
      /\ ListOf(parts) \in Item
  <2>1. Emits(both, FlattenSeq(Encodings(parts)))
    BY <1>5, <1>6
  <2> QED  BY <1>5, <1>6, <2>1, WritesList
<1>8. EncodeAccess(access) = (<<BeginList>> \o both) \o <<FinalizeList>>
  <2> DEFINE append == AppendBytes(address)
  <2>1. append \in Calls /\ BeginList \in Calls /\ FinalizeList \in Calls
    BY <1>1, CallsMade
  <2>2. EncodeAccess(access)
          = (<<BeginList, append, BeginList>> \o a) \o <<FinalizeList, FinalizeList>>
    BY DEF EncodeAccess, a, keys, address, Appends
  <2>3. both = <<append>> \o ((<<BeginList>> \o a) \o <<FinalizeList>>)
    BY DEF both, one, two
  <2> DEFINE b == <<BeginList>>
             m == <<append>>
             f == <<FinalizeList>>
  <2>4. b \in Seq(Calls) /\ m \in Seq(Calls) /\ f \in Seq(Calls) /\ a \in Seq(Calls)
    BY <1>2, <2>1
  <2>5. <<BeginList, append, BeginList>> = b \o (m \o b)
    <3>1. <<append, BeginList>> = m \o b
      BY <2>1, TwoOnes
    <3>2. <<BeginList, append, BeginList>> = b \o <<append, BeginList>>
      OBVIOUS
    <3> QED  BY <3>1, <3>2
  <2>6. <<FinalizeList, FinalizeList>> = f \o f
    BY <2>1, TwoOnes
  <2>7. EncodeAccess(access) = ((b \o (m \o b)) \o a) \o (f \o f)
    BY <2>2, <2>5, <2>6
  <2>8. both = m \o ((b \o a) \o f)
    BY <2>3
  <2> HIDE DEF b, m, f, a, both, append
  <2>9. ((b \o (m \o b)) \o a) \o (f \o f) = (b \o (m \o ((b \o a) \o f))) \o f
    BY <2>4, SMTT(40)
  <2>10. EncodeAccess(access) = (b \o both) \o f
    BY <2>7, <2>8, <2>9
  <2> QED  BY <2>10 DEF b, f
<1>9. AccessItem(access) = ListOf(parts)
  BY DEF AccessItem, parts, x, y, ks, keys, address, Strings
<1> QED  BY <1>7, <1>8, <1>9

\* So do those for an access list.
LEMMA WritesAccessList ==
  ASSUME NEW list \in Seq(Access)
  PROVE  /\ EncodeAccessList(list) \in Seq(Calls)
         /\ ListOf(AccessItems(list)) \in Item
         /\ Emits(EncodeAccessList(list), Encoded(ListOf(AccessItems(list))))
<1> DEFINE calls == [i \in DOMAIN list |-> EncodeAccess(list[i])]
           items == AccessItems(list)
           n == Len(list)
           all == FlattenSeq(calls)
<1>1. n \in Nat /\ DOMAIN list = 1 .. n /\ \A i \in 1 .. n : list[i] \in Access
  OBVIOUS
<1>2. \A i \in 1 .. n : /\ EncodeAccess(list[i]) \in Seq(Calls) /\ AccessItem(list[i]) \in Item
                        /\ Emits(EncodeAccess(list[i]), Encoded(AccessItem(list[i])))
  BY <1>1, WritesAccess
<1>3. calls \in [1 .. n -> Seq(Calls)] /\ \A i \in 1 .. n : calls[i] = EncodeAccess(list[i])
  BY <1>1, <1>2
<1>4. items \in [1 .. n -> Item] /\ \A i \in 1 .. n : items[i] = AccessItem(list[i])
  BY <1>1, <1>2 DEF AccessItems
<1>5. EncodeAccessList(list) = (<<BeginList>> \o all) \o <<FinalizeList>>
  BY DEF EncodeAccessList
<1> HIDE DEF calls, items, n
<1>6. calls \in Seq(Seq(Calls)) /\ Len(calls) = n
  <2> DEFINE T == Seq(Calls)
  <2>1. calls \in [1 .. n -> T]
    BY <1>3
  <2> HIDE DEF T
  <2>2. calls \in Seq(T) /\ Len(calls) = n
    BY <1>1, <2>1, MadeSequence
  <2> QED  BY <2>2 DEF T
<1>7. items \in Seq(Item) /\ Len(items) = n
  BY <1>1, <1>4, MadeSequence
<1>8. \A i \in 1 .. Len(calls) : Emits(calls[i], Encoded(items[i]))
  BY <1>2, <1>3, <1>4, <1>6
<1>9. all \in Seq(Calls) /\ Emits(all, FlattenSeq(Encodings(items)))
  BY <1>6, <1>7, <1>8, EmitsAll
<1> HIDE DEF all
<1>10. /\ (<<BeginList>> \o all) \o <<FinalizeList>> \in Seq(Calls)
       /\ Emits((<<BeginList>> \o all) \o <<FinalizeList>>, Encoded(ListOf(items)))
       /\ ListOf(items) \in Item
  BY <1>7, <1>9, WritesList
<1> QED  BY <1>5, <1>10 DEF items

\* The byte strings of the fields before the access list.
Plain(t) ==
  <<BigEndian[t.chain_id], BigEndian[t.nonce], BigEndian[t.max_priority_fee_per_gas],
    BigEndian[t.max_fee_per_gas], BigEndian[t.gas_limit], FlattenSeq(t.to),
    BigEndian[t.value], t.input>>

\* So do those for the fields of a transaction.
LEMMA WritesFields ==
  ASSUME NEW t \in EVMTransaction
  PROVE  /\ EncodeFields(t) \in Seq(Calls)
         /\ FieldItems(t) \in Seq(Item)
         /\ Emits(EncodeFields(t), FlattenSeq(Encodings(FieldItems(t))))
<1> DEFINE values == Plain(t)
           list == EncodeAccessList(t.access_list)
           l == ListOf(AccessItems(t.access_list))
           ks == Strings(values)
           a == Appends(values)
<1>1. /\ t.chain_id \in Nat /\ t.nonce \in Nat /\ t.value \in Nat /\ t.gas_limit \in Nat
      /\ t.max_fee_per_gas \in Nat /\ t.max_priority_fee_per_gas \in Nat
      /\ t.to \in Recipients /\ t.input \in Seq(Byte) /\ t.access_list \in Seq(Access)
  BY DEF EVMTransaction, Recipients, Access
<1>2. values \in Seq(Seq(Nat))
  <2>1. \A n \in Nat : BigEndian[n] \in Seq(Nat)
    BY BigEndianNat
  <2>2. t.input \in Seq(Nat)
    BY <1>1, SeqByteNat
  <2>3. FlattenSeq(t.to) \in Seq(Nat)
    <3>1. t.to \in Seq(Address)
      BY <1>1 DEF Recipients
    <3>2. \A x \in Address : x \in Seq(Nat)
      BY SeqByteNat DEF Address
    <3> DEFINE to == t.to
               A == Address
               N == Seq(Nat)
               n == Len(to)
    <3> HIDE DEF A, N, to
    <3>3. n \in Nat /\ to \in [1 .. n -> N]
      BY <3>1, <3>2 DEF A, N, to
    <3> HIDE DEF n
    <3>4. to \in Seq(N)
      BY <3>3, MadeSequence
    <3>5. FlattenSeq(to) \in Seq(Nat)
      BY <3>4, FlattenType DEF N
    <3> QED  BY <3>5 DEF to
  <2> HIDE DEF FlattenSeq
  <2> QED  BY <1>1, <2>1, <2>2, <2>3, SMTT(40) DEF Plain
<1>3. EncodeFields(t) = a \o list
  BY DEF EncodeFields, Plain, Appends, AppendNumber
<1>4. FieldItems(t) = Append(ks, l)
  BY DEF FieldItems, Plain, Strings, Number, AccessItems
<1> HIDE DEF values, l, list
<1>5. a \in Seq(Calls) /\ ks \in Seq(Item) /\ Emits(a, FlattenSeq(Encodings(ks)))
  BY <1>2, EmitsValues
<1> HIDE DEF a, ks
<1>6. list \in Seq(Calls) /\ l \in Item /\ Emits(list, Encoded(l))
  BY <1>1, WritesAccessList DEF list, l
<1>7. FlattenSeq(Encodings(Append(ks, l))) = FlattenSeq(Encodings(ks)) \o Encoded(l)
  BY <1>5, <1>6, EncodingsAppend
<1>8. FlattenSeq(Encodings(ks)) \in Seq(Nat)
  <2>1. Encodings(ks) \in Seq(Seq(Nat))
    BY <1>5, EncodingsType
  <2> QED  BY <2>1, FlattenType
<1> DEFINE e == FlattenSeq(Encodings(ks))
           x == Encoded(l)
<1>9. e \in Seq(Nat) /\ x \in Seq(Nat) /\ Emits(a, e) /\ Emits(list, x)
  BY <1>5, <1>6, <1>8, EncodedType
<1> HIDE DEF e, x
<1>10. Emits(a \o list, e \o x)
  BY <1>5, <1>6, <1>9, EmitsBoth
<1>11. a \o list \in Seq(Calls) /\ Append(ks, l) \in Seq(Item)
  BY <1>5, <1>6
<1> QED  BY <1>3, <1>4, <1>7, <1>10, <1>11 DEF e, x

\* The type is appended as one byte.
LEMMA TypeByte == EncodeValue(BigEndian[EIP_1559_TYPE]) = <<EIP_1559_TYPE>>
<1>1. 2 \in Nat /\ 0 \in Nat /\ 2 \div 256 = 0 /\ 2 % 256 = 2
  OBVIOUS
<1>2. BigEndian[0] = << >>
  BY <1>1, BigEndianAt
<1>3. BigEndian[2] = Append(BigEndian[2 \div 256], 2 % 256)
  BY <1>1, BigEndianAt
<1>4. BigEndian[2] = <<2>>
  <2>1. BigEndian[2] = Append(<< >>, 2)
    BY <1>1, <1>2, <1>3, Zenon
  <2>2. Append(<< >>, 2) = <<2>>
    OBVIOUS
  <2> QED  BY <2>1, <2>2, Zenon
<1>5. EncodeValue(<<2>>) = <<2>>
  BY DEF EncodeValue
<1> QED  BY <1>4, <1>5 DEF EIP_1559_TYPE

\* The type and a list, as a transaction begins.
LEMMA WritesTransaction ==
  ASSUME NEW a \in Seq(Calls), NEW items \in Seq(Item), Emits(a, FlattenSeq(Encodings(items)))
  PROVE  LET calls == <<AppendNumber(EIP_1559_TYPE), BeginList>> \o a \o <<FinalizeList>>
         IN /\ calls \in Seq(Calls)
            /\ Run(NewStream, calls)
                 = Stream(<<EIP_1559_TYPE>> \o Encoded(ListOf(items)), << >>)
            /\ Guarded(NewStream, calls)
<1> DEFINE t == AppendNumber(EIP_1559_TYPE)
           type == <<t>>
           b == <<BeginList>>
           f == <<FinalizeList>>
           list == (b \o a) \o f
           calls == <<t, BeginList>> \o a \o f
           byte == <<EIP_1559_TYPE>>
           e == Encoded(ListOf(items))
<1>1. t \in Calls /\ type \in Seq(Calls) /\ Emits(type, byte) /\ byte \in Seq(Nat)
  <2>1. BigEndian[EIP_1559_TYPE] \in Seq(Nat)
    BY BigEndianNat DEF EIP_1559_TYPE
  <2>2. type \in Seq(Calls) /\ Emits(type, EncodeValue(BigEndian[EIP_1559_TYPE]))
    BY <2>1, EmitsValue DEF AppendNumber
  <2>3. t \in Calls
    BY <2>1, CallsMade DEF AppendNumber
  <2>4. byte \in Seq(Nat)
    BY DEF EIP_1559_TYPE
  <2> HIDE DEF t, type, byte
  <2> QED  BY <2>2, <2>3, <2>4, TypeByte DEF byte
<1>2. list \in Seq(Calls) /\ Emits(list, e) /\ e \in Seq(Nat)
  BY WritesList
<1>3. b \in Seq(Calls) /\ f \in Seq(Calls) /\ BeginList \in Calls
  BY CallsMade
<1>4. <<t, BeginList>> = type \o b
  BY <1>1, <1>3, TwoOnes
<1>5. calls = ((type \o b) \o a) \o f
  BY <1>4
<1> HIDE DEF type, b, f, byte, e, t, calls
<1>6. ((type \o b) \o a) \o f = type \o ((b \o a) \o f)
  <2>1. type \in Seq(Calls) /\ b \in Seq(Calls) /\ f \in Seq(Calls)
    BY <1>1, <1>3
  <2> HIDE DEF list
  <2> QED  BY <2>1, SMTT(40)
<1>7. calls = type \o list
  BY <1>5, <1>6
<1> HIDE DEF list
<1>8. Emits(type \o list, byte \o e)
  BY <1>1, <1>2, EmitsBoth
<1>9. calls \in Seq(Calls)
  BY <1>1, <1>2, <1>7
<1>10. << >> \in Seq(Nat) /\ << >> \o (byte \o e) = byte \o e
  <2>1. byte \o e \in Seq(Nat)
    BY <1>1, <1>2
  <2> QED  BY <2>1, ConcatEmptySeq
<1>11. NewStream \in Streams /\ NewStream.buffer = << >> /\ NewStream.unfinished = << >>
  BY <1>10, StreamParts DEF NewStream
<1>12. Run(NewStream, calls) = Stream(<< >> \o (byte \o e), << >>) /\ Guarded(NewStream, calls)
  BY <1>7, <1>8, <1>11 DEF Emits
<1>13. Run(NewStream, calls) = Stream(byte \o e, << >>)
  BY <1>10, <1>12
<1> QED  BY <1>9, <1>12, <1>13 DEF calls, byte, e, t, f

\* The builders make the bytes that the node makes.
LEMMA SigningIsWritten ==
  ASSUME NEW t \in EVMTransaction
  PROVE  /\ CallsForSigning(t) \in Seq(Calls)
         /\ Run(NewStream, CallsForSigning(t)) = Stream(SigningBytes(t), << >>)
         /\ Guarded(NewStream, CallsForSigning(t))
         /\ BuildForSigning(t) = SigningBytes(t)
<1> DEFINE a == EncodeFields(t)
           items == FieldItems(t)
<1>1. a \in Seq(Calls) /\ items \in Seq(Item) /\ Emits(a, FlattenSeq(Encodings(items)))
  BY WritesFields
<1>2. CallsForSigning(t) = <<AppendNumber(EIP_1559_TYPE), BeginList>> \o a \o <<FinalizeList>>
  BY DEF CallsForSigning
<1>3. SigningBytes(t) = <<EIP_1559_TYPE>> \o Encoded(ListOf(items))
  BY DEF SigningBytes
<1> HIDE DEF a, items
<1>4. /\ CallsForSigning(t) \in Seq(Calls)
      /\ Run(NewStream, CallsForSigning(t)) = Stream(SigningBytes(t), << >>)
      /\ Guarded(NewStream, CallsForSigning(t))
  BY <1>1, <1>2, <1>3, WritesTransaction
<1> QED  BY <1>4 DEF BuildForSigning, Out, Stream

\* So it is with a signature.
LEMMA SignedIsWritten ==
  ASSUME NEW t \in EVMTransaction, NEW s \in Signature
  PROVE  /\ CallsWithSignature(t, s) \in Seq(Calls)
         /\ Run(NewStream, CallsWithSignature(t, s)) = Stream(SignedBytes(t, s), << >>)
         /\ Guarded(NewStream, CallsWithSignature(t, s))
         /\ BuildWithSignature(t, s) = SignedBytes(t, s)
<1> DEFINE a == EncodeFields(t)
           items == FieldItems(t)
           values == <<BigEndian[s.v], s.r, s.s>>
           c == Appends(values)
           d == Strings(values)
           tb == <<AppendNumber(EIP_1559_TYPE), BeginList>>
           f == <<FinalizeList>>
           ac == a \o c
           fields == items \o d
<1>1. a \in Seq(Calls) /\ items \in Seq(Item) /\ Emits(a, FlattenSeq(Encodings(items)))
  BY WritesFields
<1>2. values \in Seq(Seq(Nat))
  <2>1. s.v \in Nat /\ s.r \in Seq(Nat) /\ s.s \in Seq(Nat)
    BY SeqByteNat DEF Signature
  <2> QED  BY <2>1, BigEndianNat
<1>3. CallsWithSignature(t, s) = ((tb \o a) \o c) \o f
  BY DEF CallsWithSignature, Appends, AppendNumber
<1>4. SignedBytes(t, s) = <<EIP_1559_TYPE>> \o Encoded(ListOf(fields))
  <2>1. d = SignatureItems(s)
    BY DEF Strings, SignatureItems, Number
  <2> HIDE DEF d
  <2> QED  BY <2>1 DEF SignedBytes
<1>5. tb \in Seq(Calls) /\ f \in Seq(Calls)
  <2>1. BigEndian[EIP_1559_TYPE] \in Seq(Nat)
    BY BigEndianNat DEF EIP_1559_TYPE
  <2>2. AppendNumber(EIP_1559_TYPE) \in Calls
    BY <2>1, CallsMade DEF AppendNumber
  <2> QED  BY <2>2, CallsMade
<1> HIDE DEF values, a, items
<1>6. c \in Seq(Calls) /\ d \in Seq(Item) /\ Emits(c, FlattenSeq(Encodings(d)))
  BY <1>2, EmitsValues
<1> HIDE DEF c, d
<1>7. /\ ac \in Seq(Calls) /\ fields \in Seq(Item)
      /\ Emits(ac, FlattenSeq(Encodings(fields)))
  <2>1. FlattenSeq(Encodings(fields)) = FlattenSeq(Encodings(items)) \o FlattenSeq(Encodings(d))
    BY <1>1, <1>6, EncodingsConcat
  <2> DEFINE x == FlattenSeq(Encodings(items))
             y == FlattenSeq(Encodings(d))
  <2>2. x \in Seq(Nat) /\ y \in Seq(Nat)
    <3>1. Encodings(items) \in Seq(Seq(Nat)) /\ Encodings(d) \in Seq(Seq(Nat))
      BY <1>1, <1>6, EncodingsType
    <3> QED  BY <3>1, FlattenType
  <2>3. Emits(a, x) /\ Emits(c, y)
    BY <1>1, <1>6
  <2> HIDE DEF x, y
  <2>4. Emits(a \o c, x \o y)
    BY <1>1, <1>6, <2>2, <2>3, EmitsBoth
  <2>5. ac \in Seq(Calls) /\ fields \in Seq(Item)
    BY <1>1, <1>6
  <2> QED  BY <2>1, <2>4, <2>5 DEF x, y
<1> HIDE DEF fields
<1>8. CallsWithSignature(t, s) = tb \o ac \o f
  <2> HIDE DEF tb, f
  <2>1. ((tb \o a) \o c) \o f = (tb \o (a \o c)) \o f
    BY <1>1, <1>5, <1>6
  <2> QED  BY <1>3, <2>1
<1> HIDE DEF ac
<1>9. /\ CallsWithSignature(t, s) \in Seq(Calls)
      /\ Run(NewStream, CallsWithSignature(t, s)) = Stream(SignedBytes(t, s), << >>)
      /\ Guarded(NewStream, CallsWithSignature(t, s))
  BY <1>4, <1>7, <1>8, WritesTransaction
<1> QED  BY <1>9 DEF BuildWithSignature, Out, Stream

-----------------------------------------------------------------------------
(* Encoding: theorems of EncodingSpec.                                     *)

\* What a transaction and a signature, or none, are to be written as.
Written(t, s) == IF s = << >> THEN SigningBytes(t) ELSE SignedBytes(t, s[1])

\* The calls that are left make of the stream what all of them make of a new
\* one, and leave no list open.
EncodingInv ==
  /\ transaction \in Transactions
  /\ signature \in {<< >>} \cup {<<s>> : s \in Signatures}
  /\ todo \in Seq(Calls)
  /\ Run(stream, todo) = Stream(Written(transaction, signature), << >>)
  /\ Guarded(stream, todo)
  /\ out # << >> => out = Written(transaction, signature)

\* Every step keeps what the calls that are left will make.
THEOREM EncodingInvariant == EncodingSpec => []EncodingInv
<1>1. EncodingInit => EncodingInv
  <2> SUFFICES ASSUME EncodingInit PROVE EncodingInv
    OBVIOUS
  <2>1. transaction \in EVMTransaction /\ transaction \in Transactions
    BY EncodingAssumption DEF EncodingInit
  <2>2. CASE signature = << >> /\ todo = CallsForSigning(transaction)
    <3>1. /\ CallsForSigning(transaction) \in Seq(Calls)
          /\ Run(NewStream, CallsForSigning(transaction))
               = Stream(SigningBytes(transaction), << >>)
          /\ Guarded(NewStream, CallsForSigning(transaction))
      BY <2>1, SigningIsWritten
    <3>2. stream = NewStream /\ out = << >>
      BY DEF EncodingInit
    <3> QED  BY <2>1, <2>2, <3>1, <3>2 DEF EncodingInv, Written
  <2>3. ASSUME NEW s \in Signatures, signature = <<s>>,
               todo = CallsWithSignature(transaction, s)
        PROVE  EncodingInv
    <3>1. s \in Signature
      BY EncodingAssumption
    <3>2. /\ CallsWithSignature(transaction, s) \in Seq(Calls)
          /\ Run(NewStream, CallsWithSignature(transaction, s))
               = Stream(SignedBytes(transaction, s), << >>)
          /\ Guarded(NewStream, CallsWithSignature(transaction, s))
      BY <2>1, <3>1, SignedIsWritten
    <3>3. stream = NewStream /\ out = << >>
      BY DEF EncodingInit
    <3>4. signature # << >> /\ signature[1] = s
      BY <2>3
    <3>5. signature \in {<<u>> : u \in Signatures}
      BY <2>3
    <3> QED  BY <2>1, <2>3, <3>2, <3>3, <3>4, <3>5 DEF EncodingInv, Written
  <2> QED  BY <2>2, <2>3 DEF EncodingInit
<1>2. EncodingInv /\ [EncodingNext]_encodingVars => EncodingInv'
  <2> SUFFICES ASSUME EncodingInv, [EncodingNext]_encodingVars PROVE EncodingInv'
    OBVIOUS
  <2>1. ASSUME NEW call, Step(call) PROVE EncodingInv'
    <3>1. /\ todo # << >> /\ todo' = Tail(todo) /\ stream' = Call(stream, Head(todo))
          /\ UNCHANGED <<transaction, signature, out>>
      BY <2>1 DEF Step
    <3>2. todo \in Seq(Calls)
      BY DEF EncodingInv
    <3>3. Run(stream, todo) = Run(Call(stream, Head(todo)), Tail(todo))
      BY <3>1, <3>2, RunFirst
    <3>4. Tail(todo) \in Seq(Calls)
      BY <3>1, <3>2
    <3>5. Run(stream', todo') = Run(stream, todo)
      BY <3>1, <3>3
    <3>6. Guarded(Call(stream, Head(todo)), Tail(todo))
      BY <3>1, <3>2, GuardedFirst DEF EncodingInv
    <3>7. Guarded(stream', todo')
      BY <3>1, <3>6
    <3> QED  BY <3>1, <3>4, <3>5, <3>7 DEF EncodingInv, Written
  <2>2. CASE Return
    <3>1. /\ todo = << >> /\ out' = stream.buffer
          /\ UNCHANGED <<transaction, signature, todo, stream>>
      BY <2>2 DEF Return
    <3>2. stream = Stream(Written(transaction, signature), << >>)
      BY <3>1, RunNone DEF EncodingInv
    <3>3. out' = Written(transaction, signature)
      BY <3>1, <3>2 DEF Stream
    <3> QED  BY <3>1, <3>3 DEF EncodingInv, Written
  <2>3. CASE UNCHANGED encodingVars
    BY <2>3 DEF encodingVars, EncodingInv, Written
  <2> QED  BY <2>1, <2>2, <2>3 DEF EncodingNext, AppendOne, Begin, Finalize
<1> QED  BY <1>1, <1>2, PTL DEF EncodingSpec

\* ReadsBack: whatever build_for_signing or build_with_signature returns is
\* read as the transaction and the signature it was made from, for any field
\* values and access lists.
THEOREM BytesReadBack == EncodingSpec => []ReadsBack
<1>1. EncodingInv => ReadsBack
  <2> SUFFICES ASSUME EncodingInv, out # << >>
               PROVE  ReadTransaction(out) = <<[tx |-> transaction, signature |-> signature]>>
    BY DEF ReadsBack
  <2>1. transaction \in Transactions /\ transaction \in EVMTransaction
    BY EncodingAssumption DEF EncodingInv
  <2>2. CASE signature = << >>
    <3>1. out = SigningBytes(transaction)
      BY <2>2 DEF EncodingInv, Written
    <3>2. IsLength(Len(BuildForSigning(transaction)))
      BY <2>1, EncodingAssumption
    <3>3. BuildForSigning(transaction) = SigningBytes(transaction)
      BY <2>1, SigningIsWritten
    <3>4. ReadTransaction(SigningBytes(transaction)) = <<[tx |-> transaction, signature |-> << >>]>>
      BY <2>1, <3>2, <3>3, SigningReadsBack
    <3> QED  BY <2>2, <3>1, <3>4
  <2>3. ASSUME NEW s \in Signatures, signature = <<s>>
        PROVE  ReadTransaction(out) = <<[tx |-> transaction, signature |-> signature]>>
    <3>1. out = SignedBytes(transaction, s)
      <4>1. signature # << >> /\ signature[1] = s
        BY <2>3
      <4> QED  BY <4>1 DEF EncodingInv, Written
    <3>2. /\ s \in Signature /\ Unpadded(s)
          /\ IsLength(Len(BuildWithSignature(transaction, s)))
      BY <2>1, EncodingAssumption
    <3>3. BuildWithSignature(transaction, s) = SignedBytes(transaction, s)
      BY <2>1, <3>2, SignedIsWritten
    <3>4. ReadTransaction(SignedBytes(transaction, s))
            = <<[tx |-> transaction, signature |-> <<s>>]>>
      BY <2>1, <3>2, <3>3, SignedReadsBack
    <3> QED  BY <2>3, <3>1, <3>4
  <2>4. signature = << >> \/ \E s \in Signatures : signature = <<s>>
    BY DEF EncodingInv
  <2> QED  BY <2>2, <2>3, <2>4
<1> QED  BY <1>1, EncodingInvariant, PTL

\* A call that closes a list finds one open, and none is open in the end:
\* neither panic of the stream can happen.
NoPanic ==
  /\ todo # << >> /\ Head(todo) = FinalizeList => ~ IsFinished(stream)
  /\ todo = << >> => IsFinished(stream)

\* Whatever lists are empty, the lists that the builders open and close match.
THEOREM ListsMatch == EncodingSpec => []NoPanic
<1>1. EncodingInv => NoPanic
  <2> SUFFICES ASSUME EncodingInv PROVE NoPanic
    OBVIOUS
  <2>1. todo # << >> /\ Head(todo) = FinalizeList => ~ IsFinished(stream)
    BY GuardedFirst DEF EncodingInv
  <2>2. ASSUME todo = << >> PROVE IsFinished(stream)
    <3>1. stream = Stream(Written(transaction, signature), << >>)
      BY <2>2, RunNone DEF EncodingInv
    <3>2. stream.unfinished = << >>
      BY <3>1 DEF Stream
    <3> QED  BY <3>2 DEF IsFinished
  <2> QED  BY <2>1, <2>2 DEF NoPanic
<1> QED  BY <1>1, EncodingInvariant, PTL

-----------------------------------------------------------------------------
(* Session: theorems of SessionSpec.                                       *)

\* Requests, answers, and bytes under way as the steps make them.
Made == {[tx |-> t, bytes |-> BuildForSigning(t)] : t \in Possible}

Given == {<< >>} \cup {<<s>> : s \in Answers}

Sending(t, k) == [bytes |-> BuildWithSignature(t, answers[k][1]), tx |-> t, request |-> k]

Asked == {requests[k].tx : k \in DOMAIN requests}

\* No two requests have the same answer, and what is under way was made with
\* one of the answers from a transaction that there may be.
SessionInv ==
  /\ tx \in Possible
  /\ requests \in Seq(Made)
  /\ answers \in Seq(Given) /\ Len(answers) = Len(requests)
  /\ \A j, k \in DOMAIN answers : answers[j] # << >> /\ answers[j] = answers[k] => j = k
  /\ \/ sent = << >>
     \/ \E t \in Possible, k \in DOMAIN answers : answers[k] # << >> /\ sent = <<Sending(t, k)>>
  /\ executed \subseteq Asked

\* An assignment of a public field makes a transaction that there may be.
LEMMA AssignedIsPossible ==
  ASSUME NEW t \in Possible, NEW field \in DOMAIN Assignable, NEW v \in Assignable[field]
  PROVE  [t EXCEPT ![field] = v] \in Possible
<1>1. v \in Values(field)
  BY DEF Values
<1>2. CASE field = "chain_id"
  BY <1>1, <1>2 DEF Possible
<1>3. CASE field = "nonce"
  BY <1>1, <1>3 DEF Possible
<1>4. CASE field = "to"
  BY <1>1, <1>4 DEF Possible
<1>5. CASE field = "value"
  BY <1>1, <1>5 DEF Possible
<1>6. CASE field = "input"
  BY <1>1, <1>6 DEF Possible
<1>7. CASE field = "gas_limit"
  BY <1>1, <1>7 DEF Possible
<1>8. CASE field = "max_fee_per_gas"
  BY <1>1, <1>8 DEF Possible
<1>9. CASE field = "max_priority_fee_per_gas"
  BY <1>1, <1>9 DEF Possible
<1>10. CASE field = "access_list"
  BY <1>1, <1>10 DEF Possible
<1>11. CASE field \notin {"chain_id", "nonce", "to", "value", "input", "gas_limit",
                          "max_fee_per_gas", "max_priority_fee_per_gas", "access_list"}
  <2>1. DOMAIN t = {"chain_id", "nonce", "to", "value", "input", "gas_limit",
                    "max_fee_per_gas", "max_priority_fee_per_gas", "access_list"}
    BY DEF Possible
  <2>2. field \notin DOMAIN t
    BY <1>11, <2>1
  <2>3. t = [f \in DOMAIN t |-> t[f]]
    BY DEF Possible
  <2>4. [t EXCEPT ![field] = v] = [f \in DOMAIN t |-> IF f = field THEN v ELSE t[f]]
    OBVIOUS
  <2>5. [t EXCEPT ![field] = v] = t
    BY <2>2, <2>3, <2>4
  <2> QED  BY <2>5
<1> QED  BY <1>2, <1>3, <1>4, <1>5, <1>6, <1>7, <1>8, <1>9, <1>10, <1>11

\* So is the first one.
LEMMA InitialIsPossible ==
  ASSUME NEW t \in Initial
  PROVE  t \in Possible
<1>1. t \in EVMTransaction
  BY SessionAssumption
<1>2. \A f : t[f] \in Values(f)
  BY DEF Values
<1>3. t = [chain_id |-> t.chain_id, nonce |-> t.nonce, to |-> t.to, value |-> t.value,
           input |-> t.input, gas_limit |-> t.gas_limit, max_fee_per_gas |-> t.max_fee_per_gas,
           max_priority_fee_per_gas |-> t.max_priority_fee_per_gas,
           access_list |-> t.access_list]
  BY <1>1 DEF EVMTransaction
<1>4. /\ t.chain_id \in Values("chain_id") /\ t.nonce \in Values("nonce") /\ t.to \in Values("to")
      /\ t.value \in Values("value") /\ t.input \in Values("input")
      /\ t.gas_limit \in Values("gas_limit") /\ t.max_fee_per_gas \in Values("max_fee_per_gas")
      /\ t.max_priority_fee_per_gas \in Values("max_priority_fee_per_gas")
      /\ t.access_list \in Values("access_list")
  BY <1>2
<1> HIDE DEF Values
<1> QED  BY <1>3, <1>4 DEF Possible

\* A node takes the bytes exactly if they were made from the transaction that
\* the answer was asked for, and the answer is one a node can read.
LEMMA SentIsRead ==
  ASSUME SessionInv, NEW t \in Possible, NEW k \in DOMAIN answers, answers[k] # << >>
  PROVE  /\ Accepts(Sending(t, k).bytes) <=> t = requests[k].tx /\ Unpadded(answers[k][1])
         /\ Accepts(Sending(t, k).bytes) => ReadTransaction(Sending(t, k).bytes)[1].tx = t
<1> DEFINE s == answers[k][1]
           b == Sending(t, k).bytes
           u == requests[k].tx
           read == [tx |-> t, signature |-> <<s>>]
<1>1. s \in Answers /\ answers[k] = <<s>> /\ s \in Signature
  <2>1. answers[k] \in Given
    BY DEF SessionInv
  <2> QED  BY <2>1, SessionAssumption DEF Given
<1>2. k \in DOMAIN requests /\ requests[k] \in Made
  BY DEF SessionInv
<1>3. u \in Possible /\ requests[k].bytes = BuildForSigning(u)
  BY <1>2 DEF Made
<1>4. t \in EVMTransaction /\ u \in EVMTransaction
  BY <1>3, SessionAssumption
<1>5. b = BuildWithSignature(t, s)
  BY DEF Sending
<1> HIDE DEF s, b, u
<1>6. IsLength(Len(BuildWithSignature(t, s))) /\ IsLength(Len(BuildForSigning(t)))
  BY <1>1, SessionAssumption
<1>7. BuildWithSignature(t, s) = SignedBytes(t, s)
  BY <1>1, <1>4, SignedIsWritten
<1>8. BuildForSigning(t) = SigningBytes(t) /\ BuildForSigning(u) = SigningBytes(u)
  BY <1>4, SigningIsWritten
<1>9. ReadTransaction(b) = IF Unpadded(s) THEN <<read>> ELSE << >>
  <2>1. IsLength(Len(SignedBytes(t, s)))
    BY <1>6, <1>7
  <2>2. ReadTransaction(SignedBytes(t, s))
          = IF Unpadded(s) THEN <<[tx |-> t, signature |-> <<s>>]>> ELSE << >>
    BY <1>1, <1>4, <2>1, SignedReadsBack
  <2> QED  BY <1>5, <1>7, <2>2
<1>10. Verifies(read) <=> t = u
  <2>1. Verifies(read) <=> \E j \in DOMAIN answers : /\ answers[j] = <<s>>
                                                   /\ requests[j].bytes = SigningBytes(t)
    BY DEF Verifies
  <2>2. \A j \in DOMAIN answers : answers[j] = <<s>> => j = k
    BY <1>1 DEF SessionInv
  <2>3. requests[k].bytes = SigningBytes(u)
    BY <1>3, <1>8
  <2>4. SigningBytes(t) = SigningBytes(u) => t = u
    BY <1>4, <1>6, <1>8, SigningInjective
  <2> QED  BY <1>1, <2>1, <2>2, <2>3, <2>4
<1>11. CASE Unpadded(s)
  <2>1. ToSet(ReadTransaction(b)) = {read}
    <3>1. ReadTransaction(b) = <<read>>
      BY <1>9, <1>11
    <3> HIDE DEF read
    <3>2. ToSet(<<read>>) = {read}
      BY DEF ToSet
    <3> QED  BY <3>1, <3>2
  <2>2. read.signature # << >>
    OBVIOUS
  <2>3. Accepts(b) <=> Verifies(read)
    BY <2>1, <2>2 DEF Accepts
  <2>4. ReadTransaction(b)[1].tx = t
    BY <1>9, <1>11
  <2> QED  BY <1>10, <1>11, <2>3, <2>4 DEF b, s, u
<1>12. CASE ~ Unpadded(s)
  <2>1. ToSet(ReadTransaction(b)) = {}
    BY <1>9, <1>12 DEF ToSet
  <2>2. ~ Accepts(b)
    BY <2>1 DEF Accepts
  <2> QED  BY <1>12, <2>2 DEF b, s
<1> QED  BY <1>11, <1>12

\* What the node takes was asked for.
LEMMA NodeTakesAsked ==
  ASSUME SessionInv, NodeReceives
  PROVE  executed' \subseteq Asked
<1>1. sent # << >>
  BY DEF NodeReceives
<1>2. PICK t \in Possible, k \in DOMAIN answers : answers[k] # << >> /\ sent = <<Sending(t, k)>>
  BY <1>1 DEF SessionInv
<1> DEFINE b == Sending(t, k).bytes
<1>3. /\ Accepts(b) <=> t = requests[k].tx /\ Unpadded(answers[k][1])
      /\ Accepts(b) => ReadTransaction(b)[1].tx = t
  BY <1>2, SentIsRead
<1>4. sent[1].bytes = b
  BY <1>2
<1> HIDE DEF b
<1>5. executed' = IF Accepts(b) THEN executed \cup {ReadTransaction(b)[1].tx} ELSE executed
  BY <1>4 DEF NodeReceives
<1>6. k \in DOMAIN requests /\ executed \subseteq Asked
  BY DEF SessionInv
<1>7. Accepts(b) => ReadTransaction(b)[1].tx \in Asked
  BY <1>3, <1>6 DEF Asked
<1> QED  BY <1>5, <1>6, <1>7

\* The session keeps its requests, answers and bytes together.
THEOREM SessionInvariant == SessionSpec => []SessionInv
<1>1. SessionInit => SessionInv
  <2> SUFFICES ASSUME SessionInit PROVE SessionInv
    OBVIOUS
  <2>1. tx \in Possible
    BY InitialIsPossible DEF SessionInit
  <2>2. requests = << >> /\ answers = << >> /\ sent = << >> /\ executed = {}
    BY DEF SessionInit
  <2>3. /\ requests \in Seq(Made) /\ answers \in Seq(Given) /\ Len(answers) = Len(requests)
        /\ DOMAIN answers = {}
    BY <2>2
  <2> QED  BY <2>1, <2>2, <2>3 DEF SessionInv
<1>2. SessionInv /\ [SessionNext]_sessionVars => SessionInv'
  <2> SUFFICES ASSUME SessionInv, [SessionNext]_sessionVars PROVE SessionInv'
    OBVIOUS
  <2> USE DEF SessionInv
  <2>0. /\ DOMAIN answers = DOMAIN requests /\ DOMAIN answers = 1 .. Len(answers)
        /\ Len(answers) \in Nat
    OBVIOUS
  <2>1. ASSUME NEW field \in DOMAIN Assignable, Assign(field) PROVE SessionInv'
    <3>1. tx' \in Possible
      BY <2>1, AssignedIsPossible, ZenonT(60) DEF Assign
    <3>2. UNCHANGED <<requests, answers, sent, executed>>
      BY <2>1 DEF Assign
    <3> QED  BY <3>1, <3>2 DEF Sending, Asked
  <2>2. CASE RequestSignature
    <3> DEFINE request == [tx |-> tx, bytes |-> BuildForSigning(tx)]
               none == << >>
    <3>1. /\ requests' = Append(requests, request) /\ answers' = Append(answers, none)
          /\ UNCHANGED <<tx, sent, executed>>
      BY <2>2 DEF RequestSignature
    <3>2. request \in Made /\ none \in Given
      BY DEF Made, Given
    <3>3. none = << >>
      OBVIOUS
    <3> HIDE DEF request, none
    <3> DEFINE n == Len(answers)
    <3>4. /\ requests' \in Seq(Made) /\ Len(requests') = n + 1
          /\ answers' \in Seq(Given) /\ Len(answers') = n + 1
      BY <3>1, <3>2
    <3>5. /\ \A k \in 1 .. n : answers'[k] = answers[k] /\ requests'[k] = requests[k]
          /\ answers'[n + 1] = none /\ DOMAIN answers' = 1 .. n + 1
          /\ DOMAIN requests' = 1 .. n + 1 /\ n \in Nat
      BY <3>1, <3>2
    <3> HIDE DEF n
    <3>6. \A j, k \in DOMAIN answers' : answers'[j] # << >> /\ answers'[j] = answers'[k] => j = k
      <4> SUFFICES ASSUME NEW j \in DOMAIN answers', NEW k \in DOMAIN answers',
                          answers'[j] # << >>, answers'[j] = answers'[k]
                   PROVE  j = k
        OBVIOUS
      <4>1. j \in 1 .. n /\ k \in 1 .. n
        BY <3>3, <3>5
      <4>2. j \in DOMAIN answers /\ k \in DOMAIN answers
        BY <2>0, <4>1 DEF n
      <4> QED  BY <3>5, <4>1, <4>2
    <3>7. \/ sent' = << >>
          \/ \E t \in Possible, k \in DOMAIN answers' : answers'[k] # << >> /\ sent' = <<Sending(t, k)'>>
      <4>1. CASE sent = << >>
        BY <3>1, <4>1
      <4>2. ASSUME NEW t \in Possible, NEW k \in DOMAIN answers, answers[k] # << >>,
                   sent = <<Sending(t, k)>>
            PROVE  k \in DOMAIN answers' /\ answers'[k] # << >> /\ sent' = <<Sending(t, k)'>>
        <5>1. k \in 1 .. n
          BY <2>0 DEF n
        <5>2. answers'[k] = answers[k] /\ k \in DOMAIN answers'
          BY <3>5, <5>1
        <5> QED  BY <3>1, <4>2, <5>2 DEF Sending
      <4> QED  BY <4>1, <4>2
    <3>8. executed' \subseteq Asked'
      <4>1. \A k \in DOMAIN requests : k \in DOMAIN requests' /\ requests'[k] = requests[k]
        BY <2>0, <3>5 DEF n
      <4> QED  BY <3>1, <4>1 DEF Asked
    <3> QED  BY <3>1, <3>4, <3>6, <3>7, <3>8
  <2>3. ASSUME NEW j \in DOMAIN requests, SignerResponds(j) PROVE SessionInv'
    <3>1. answers[j] = << >> /\ UNCHANGED <<tx, requests, sent, executed>>
      BY <2>3 DEF SignerResponds
    <3>2. PICK s \in Answers : <<s>> \notin ToSet(answers) /\ answers' = [answers EXCEPT ![j] = <<s>>]
      BY <2>3 DEF SignerResponds
    <3> DEFINE answer == <<s>>
    <3>3. answer \in Given /\ answer # << >> /\ \A k \in DOMAIN answers : answers[k] # answer
      BY <3>2 DEF Given, ToSet
    <3> HIDE DEF answer
    <3>4. /\ answers' \in Seq(Given) /\ Len(answers') = Len(answers) /\ DOMAIN answers' = DOMAIN answers
          /\ answers'[j] = answer /\ \A k \in DOMAIN answers : k # j => answers'[k] = answers[k]
      BY <2>0, <3>2, <3>3 DEF answer
    <3>5. \A i, k \in DOMAIN answers' : answers'[i] # << >> /\ answers'[i] = answers'[k] => i = k
      BY <3>3, <3>4
    <3>6. \A k \in DOMAIN answers : answers[k] # << >> => answers'[k] = answers[k]
      BY <3>1, <3>4
    <3>7. \/ sent' = << >>
          \/ \E t \in Possible, k \in DOMAIN answers' : answers'[k] # << >> /\ sent' = <<Sending(t, k)'>>
      <4>1. CASE sent = << >>
        BY <3>1, <4>1
      <4>2. ASSUME NEW t \in Possible, NEW k \in DOMAIN answers, answers[k] # << >>,
                   sent = <<Sending(t, k)>>
            PROVE  k \in DOMAIN answers' /\ answers'[k] # << >> /\ sent' = <<Sending(t, k)'>>
        BY <3>1, <3>4, <3>6, <4>2 DEF Sending
      <4> QED  BY <4>1, <4>2
    <3> QED  BY <3>1, <3>4, <3>5, <3>7 DEF Asked
  <2>4. ASSUME NEW k \in DOMAIN requests, AttachAndSend(k) PROVE SessionInv'
    <3>1. /\ answers[k] # << >> /\ sent' = <<Sending(tx, k)>>
          /\ UNCHANGED <<tx, requests, answers, executed>>
      BY <2>4 DEF AttachAndSend, Sending
    <3>2. k \in DOMAIN answers' /\ answers'[k] # << >> /\ sent' = <<Sending(tx, k)'>>
      BY <2>0, <3>1 DEF Sending
    <3>3. \E t \in Possible, i \in DOMAIN answers' : answers'[i] # << >> /\ sent' = <<Sending(t, i)'>>
      BY <3>2, <3>1 DEF Sending
    <3> QED  BY <3>1, <3>3 DEF Asked
  <2>5. CASE NodeReceives
    <3>1. UNCHANGED <<tx, requests, answers>> /\ sent' = << >> /\ sent # << >>
      BY <2>5 DEF NodeReceives
    <3>2. executed' \subseteq Asked
      BY <2>5, NodeTakesAsked
    <3> QED  BY <3>1, <3>2 DEF Asked
  <2>6. CASE UNCHANGED sessionVars
    BY <2>6 DEF sessionVars, Sending, Asked
  <2> QED  BY <2>1, <2>2, <2>3, <2>4, <2>5, <2>6 DEF SessionNext
<1> QED  BY <1>1, <1>2, PTL DEF SessionSpec

\* AcceptedExactlyIfFresh: whatever the caller assigned between the request
\* and the use of the answer, a node takes the bytes exactly if they were made
\* from the transaction the answer was asked for.
THEOREM FreshExactly == SessionSpec => []AcceptedExactlyIfFresh
<1>1. SessionInv => AcceptedExactlyIfFresh
  <2> SUFFICES ASSUME SessionInv, NEW s \in ToSet(sent)
               PROVE  Accepts(s.bytes) <=> /\ s.tx = requests[s.request].tx
                                           /\ Unpadded(answers[s.request][1])
    BY DEF AcceptedExactlyIfFresh
  <2>1. sent # << >>
    BY DEF ToSet
  <2>2. PICK t \in Possible, k \in DOMAIN answers : answers[k] # << >> /\ sent = <<Sending(t, k)>>
    BY <2>1 DEF SessionInv
  <2>3. s = Sending(t, k)
    BY <2>2 DEF ToSet
  <2>4. Accepts(Sending(t, k).bytes) <=> t = requests[k].tx /\ Unpadded(answers[k][1])
    BY <2>2, SentIsRead
  <2>5. Sending(t, k).tx = t /\ Sending(t, k).request = k
    BY DEF Sending
  <2> QED  BY <2>3, <2>4, <2>5
<1> QED  BY <1>1, SessionInvariant, PTL

\* Every step of the session is a step of IdealAuthorization or none.
THEOREM SessionIsAuthorized == SessionSpec => Authorized
<1>1. SessionInit => Ideal!Init
  BY DEF SessionInit, Ideal!Init
<1>2. SessionInv /\ SessionInv' /\ [SessionNext]_sessionVars => [Ideal!Next]_<<Asked, executed>>
  <2> SUFFICES ASSUME SessionInv, SessionInv', [SessionNext]_sessionVars
               PROVE  [Ideal!Next]_<<Asked, executed>>
    OBVIOUS
  <2>1. CASE UNCHANGED <<requests, executed>>
    BY <2>1 DEF Asked
  <2>2. CASE RequestSignature
    <3>1. executed' = executed
      BY <2>2 DEF RequestSignature
    <3>2. Asked \subseteq Asked'
      <4>1. \A k \in DOMAIN requests : k \in DOMAIN requests' /\ requests'[k] = requests[k]
        BY <2>2 DEF RequestSignature, SessionInv
      <4> QED  BY <4>1 DEF Asked
    <3> QED  BY <3>1, <3>2 DEF Ideal!Next, Ideal!Ask, Asked
  <2>3. CASE NodeReceives
    <3>1. requests' = requests /\ executed \subseteq executed'
      BY <2>3 DEF NodeReceives
    <3>2. executed' \subseteq Asked /\ Asked' = Asked
      BY <2>3, <3>1, NodeTakesAsked DEF Asked
    <3> QED  BY <3>1, <3>2 DEF Ideal!Next, Ideal!Execute, Asked
  <2> QED  BY <2>1, <2>2, <2>3
      DEF SessionNext, sessionVars, Assign, SignerResponds, AttachAndSend
<1> QED  BY <1>1, <1>2, SessionInvariant, PTL
         DEF SessionSpec, Authorized, Ideal!Spec, Asked

-----------------------------------------------------------------------------
(* Numerals: a machine that takes digits from the front, and one that      *)
(* gives them back from the end.                                           *)

\* read[k] is what from_str_radix has after k digits.
Reads(read, digits, radix, max) ==
  read = [k \in 0 .. Len(digits) |->
            IF k = 0 THEN <<0>> ELSE Shift(read[k - 1], digits[k], radix, max)]

\* rest[k] is left of n when k digits were taken from its end.
Leaves(rest, digits, radix, n) ==
  rest = [k \in 0 .. Len(digits) |-> IF k = 0 THEN n ELSE rest[k - 1] \div radix]

\* The first machine starts with zero and shifts one digit in.
LEMMA ReadsAt ==
  ASSUME NEW digits \in Seq(Nat), NEW radix, NEW max, NEW read, Reads(read, digits, radix, max)
  PROVE  read[0] = <<0>> /\ \A k \in 1 .. Len(digits) : read[k] = Shift(read[k - 1], digits[k], radix, max)
<1>1. \A k \in 0 .. Len(digits) : read[k] = IF k = 0 THEN <<0>> ELSE Shift(read[k - 1], digits[k], radix, max)
  BY Zenon DEF Reads
<1>2. 0 \in 0 .. Len(digits) /\ \A k \in 1 .. Len(digits) : k # 0 /\ k \in 0 .. Len(digits)
  OBVIOUS
<1> QED  BY <1>1, <1>2, Zenon

\* The second machine starts with the number and divides it.
LEMMA LeavesAt ==
  ASSUME NEW digits \in Seq(Nat), NEW radix, NEW m, NEW rest, Leaves(rest, digits, radix, m)
  PROVE  rest[0] = m /\ \A k \in 1 .. Len(digits) : rest[k] = rest[k - 1] \div radix
<1>1. \A k \in 0 .. Len(digits) : rest[k] = IF k = 0 THEN m ELSE rest[k - 1] \div radix
  BY Zenon DEF Leaves
<1>2. 0 \in 0 .. Len(digits) /\ \A k \in 1 .. Len(digits) : k # 0 /\ k \in 0 .. Len(digits)
  OBVIOUS
<1> QED  BY <1>1, <1>2, Zenon

\* The second machine has given all digits and nothing is left.
Ends(rest, digits, radix) ==
  /\ rest[Len(digits)] = 0
  /\ \A k \in 1 .. Len(digits) : digits[Len(digits) + 1 - k] = rest[k - 1] % radix

\* Whether it ends so is whether the digits are those of m.
Decides(rest, digits, radix, m) ==
  /\ Leaves(rest, digits, radix, m)
  /\ WrittenIn(digits, radix, m) <=> Ends(rest, digits, radix)

\* WrittenIn means the second machine.
LEMMA WrittenForm ==
  ASSUME NEW digits, NEW radix, NEW m, \E rest : Leaves(rest, digits, radix, m)
  PROVE  \E rest : Decides(rest, digits, radix, m)
<1> DEFINE G(f) == [k \in 0 .. Len(digits) |-> IF k = 0 THEN m ELSE f[k - 1] \div radix]
           rest == CHOOSE f : f = G(f)
<1>1. Leaves(rest, digits, radix, m)
  BY Zenon DEF Leaves
<1>2. WrittenIn(digits, radix, m) <=> Ends(rest, digits, radix)
  BY Zenon DEF WrittenIn, Ends
<1> HIDE DEF rest
<1> QED  BY <1>1, <1>2, Zenon DEF Decides

\* A number or an error.
Readings == {<< >>} \cup {<<n>> : n \in Nat}

\* The number with one digit more.
With(n, digit, radix) == n * radix + digit

\* One digit is put after the others, or is an error.
LEMMA ShiftForms ==
  ASSUME NEW digit \in Nat, NEW radix \in Nat, NEW max \in Nat
  PROVE  /\ \A read \in Readings : Shift(read, digit, radix, max) \in Readings
         /\ Shift(<< >>, digit, radix, max) = << >>
         /\ \A n \in Nat : Shift(<<n>>, digit, radix, max) =
              IF digit >= radix \/ With(n, digit, radix) > max THEN << >> ELSE <<With(n, digit, radix)>>
<1>1. \A n : <<n>> # << >> /\ <<n>>[1] = n
  OBVIOUS
<1>2. \A n \in Nat : With(n, digit, radix) \in Nat
  BY DEF With
<1>3. Shift(<< >>, digit, radix, max) = << >>
  BY DEF Shift
<1>4. \A n \in Nat : Shift(<<n>>, digit, radix, max) =
        IF digit >= radix \/ With(n, digit, radix) > max THEN << >> ELSE <<With(n, digit, radix)>>
  BY <1>1, Zenon DEF Shift, With
<1>5. ASSUME NEW read \in Readings
      PROVE  Shift(read, digit, radix, max) \in Readings
  <2>1. CASE read = << >>
    BY <1>3, <2>1 DEF Readings
  <2>2. CASE read # << >>
    <3>1. PICK n \in Nat : read = <<n>>
      BY <2>2 DEF Readings
    <3>2. Shift(read, digit, radix, max) = << >> \/ Shift(read, digit, radix, max) = <<With(n, digit, radix)>>
      BY <1>4, <3>1
    <3> QED  BY <1>2, <3>2 DEF Readings
  <2> QED  BY <2>1, <2>2
<1> QED  BY <1>3, <1>4, <1>5

\* The first machine runs over any digits.
LEMMA ReadsExist ==
  ASSUME NEW digits \in Seq(Nat), NEW radix \in Nat, NEW max \in Nat
  PROVE  \E read \in [0 .. Len(digits) -> Readings] : Reads(read, digits, radix, max)
<1> DEFINE n == Len(digits)
           h == [p \in (1 .. n) \X Readings |-> Shift(p[2], digits[p[1]], radix, max)]
<1>1. n \in Nat /\ \A k \in 1 .. n : digits[k] \in Nat
  OBVIOUS
<1>2. h \in [(1 .. n) \X Readings -> Readings]
  BY <1>1, ShiftForms
<1>3. <<0>> \in Readings
  BY DEF Readings
<1>4. \A k \in 1 .. n, read \in Readings : h[<<k, read>>] = Shift(read, digits[k], radix, max)
  OBVIOUS
<1> HIDE DEF h, n
<1>5. PICK f \in [0 .. n -> Readings] : Iterated(f, <<0>>, n, h)
  BY <1>1, <1>2, <1>3, IterationExists
<1>6. \A k \in 0 .. n : (IF k = 0 THEN <<0>> ELSE h[<<k, f[k - 1]>>])
                          = (IF k = 0 THEN <<0>> ELSE Shift(f[k - 1], digits[k], radix, max))
  <2> TAKE k \in 0 .. n
  <2>1. CASE k = 0
    BY <2>1
  <2>2. CASE k # 0
    <3>1. k \in 1 .. n /\ k - 1 \in 0 .. n
      BY <1>1, <2>2
    <3>2. f[k - 1] \in Readings
      BY <3>1
    <3> QED  BY <1>4, <2>2, <3>1, <3>2
  <2> QED  BY <2>1, <2>2
<1>7. f = [k \in 0 .. n |-> IF k = 0 THEN <<0>> ELSE Shift(f[k - 1], digits[k], radix, max)]
  BY <1>5, <1>6, Zenon DEF Iterated
<1> QED  BY <1>7 DEF n, Reads

\* The second machine runs whatever the number.
LEMMA LeavesExist ==
  ASSUME NEW digits \in Seq(Nat), NEW radix \in Nat \ {0}, NEW m \in Nat
  PROVE  \E rest : Leaves(rest, digits, radix, m)
<1> DEFINE N == Len(digits)
           h == [p \in (1 .. N) \X Nat |-> p[2] \div radix]
<1>0. N \in Nat
  OBVIOUS
<1>1. \A v \in Nat : v \div radix \in Nat
  OBVIOUS
<1>2. h \in [(1 .. N) \X Nat -> Nat]
  BY <1>1
<1>3. \A k \in 1 .. N, v \in Nat : h[<<k, v>>] = v \div radix
  OBVIOUS
<1> HIDE DEF h, N
<1>4. PICK f \in [0 .. N -> Nat] : Iterated(f, m, N, h)
  BY <1>0, <1>2, IterationExists
<1>5. \A k \in 0 .. N : (IF k = 0 THEN m ELSE h[<<k, f[k - 1]>>])
                          = (IF k = 0 THEN m ELSE f[k - 1] \div radix)
  <2> TAKE k \in 0 .. N
  <2>1. CASE k = 0
    BY <2>1
  <2>2. CASE k # 0
    <3>1. k \in 1 .. N /\ k - 1 \in 0 .. N
      BY <1>0, <2>2
    <3>2. f[k - 1] \in Nat
      BY <3>1
    <3> QED  BY <1>3, <2>2, <3>1, <3>2
  <2> QED  BY <2>1, <2>2
<1>6. f = [k \in 0 .. N |-> IF k = 0 THEN m ELSE f[k - 1] \div radix]
  BY <1>4, <1>5, Zenon DEF Iterated
<1> QED  BY <1>6 DEF N, Leaves

\* What they hold on the way.
LEMMA ReadsTyped ==
  ASSUME NEW digits \in Seq(Nat), NEW radix \in Nat, NEW max \in Nat, NEW read, Reads(read, digits, radix, max)
  PROVE  \A k \in 0 .. Len(digits) : read[k] \in Readings
<1> DEFINE n == Len(digits)
           S == {k \in Nat : k <= n => read[k] \in Readings}
<1>1. n \in Nat /\ \A k \in 1 .. n : digits[k] \in Nat
  OBVIOUS
<1>2. read[0] = <<0>> /\ \A k \in 1 .. n : read[k] = Shift(read[k - 1], digits[k], radix, max)
  BY ReadsAt
<1> HIDE DEF n
<1>3. 0 \in S
  BY <1>2 DEF Readings
<1>4. ASSUME NEW k \in S
      PROVE  k + 1 \in S
  <2> SUFFICES ASSUME k + 1 <= n PROVE read[k + 1] \in Readings
    OBVIOUS
  <2>1. read[k] \in Readings /\ k + 1 \in 1 .. n /\ (k + 1) - 1 = k
    BY <1>1
  <2>2. read[k + 1] = Shift(read[k], digits[k + 1], radix, max)
    BY <1>2, <2>1
  <2> QED  BY <1>1, <2>1, <2>2, ShiftForms, SMTT(40)
<1>5. S = Nat
  <2> HIDE DEF S
  <2>1. S \in SUBSET Nat
    BY DEF S
  <2> QED  BY <1>3, <1>4, <2>1, SetInduction
<1> QED  BY <1>1, <1>5 DEF n

\* What is left is a number and never more than there was.
LEMMA LeavesTyped ==
  ASSUME NEW digits \in Seq(Nat), NEW radix \in Nat \ {0}, NEW m \in Nat, NEW rest, Leaves(rest, digits, radix, m)
  PROVE  \A k \in 0 .. Len(digits) : rest[k] \in Nat /\ rest[k] <= m
<1> DEFINE n == Len(digits)
           S == {k \in Nat : k <= n => rest[k] \in Nat /\ rest[k] <= m}
<1>0. n \in Nat
  OBVIOUS
<1>1. n \in Nat /\ \A v \in Nat : v \div radix \in Nat /\ v \div radix <= v
  OBVIOUS
<1>2. rest[0] = m /\ \A k \in 1 .. n : rest[k] = rest[k - 1] \div radix
  BY LeavesAt
<1> HIDE DEF n
<1>3. 0 \in S
  BY <1>2
<1>4. ASSUME NEW k \in S
      PROVE  k + 1 \in S
  <2> SUFFICES ASSUME k + 1 <= n PROVE rest[k + 1] \in Nat /\ rest[k + 1] <= m
    OBVIOUS
  <2>1. rest[k] \in Nat /\ rest[k] <= m /\ k + 1 \in 1 .. n /\ (k + 1) - 1 = k
    BY <1>1
  <2>2. rest[k + 1] = rest[k] \div radix
    BY <1>2, <2>1
  <2>3. rest[k + 1] \in Nat /\ rest[k + 1] <= rest[k]
    BY <1>1, <2>1, <2>2
  <2> QED  BY <2>1, <2>3
<1>5. S = Nat
  <2> HIDE DEF S
  <2>1. S \in SUBSET Nat
    BY DEF S
  <2> QED  BY <1>3, <1>4, <2>1, SetInduction
<1>6. \A k \in 0 .. n : k \in S /\ k <= n
  BY <1>0, <1>5
<1> QED  BY <1>6 DEF n

\* One digit more and one less.
LEMMA DigitStep ==
  ASSUME NEW radix \in {10, 16}, NEW m \in Nat, NEW d \in Nat
  PROVE  /\ With(m, d, radix) \in Nat
         /\ d < radix => With(m, d, radix) \div radix = m /\ With(m, d, radix) % radix = d
         /\ m = With(m \div radix, m % radix, radix)
         /\ m % radix < radix /\ m \div radix \in Nat /\ m % radix \in Nat
<1>1. CASE radix = 10
  BY <1>1 DEF With
<1>2. CASE radix = 16
  BY <1>2 DEF With
<1> QED  BY <1>1, <1>2

\* What there is to know of a digit.
Digit(d, radix, max) ==
  /\ Shift(<< >>, d, radix, max) = << >>
  /\ \A v \in Nat : /\ With(v, d, radix) \in Nat
                    /\ Shift(<<v>>, d, radix, max) =
                         IF d >= radix \/ With(v, d, radix) > max THEN << >> ELSE <<With(v, d, radix)>>
                    /\ d < radix => With(v, d, radix) \div radix = v /\ With(v, d, radix) % radix = d

\* And it holds of every digit, one that is too large included.
LEMMA Digits ==
  ASSUME NEW d \in Nat, NEW radix \in {10, 16}, NEW max \in Nat
  PROVE  Digit(d, radix, max)
<1>1. radix \in Nat
  OBVIOUS
<1>2. Shift(<< >>, d, radix, max) = << >>
  BY <1>1, ShiftForms, Zenon
<1>3. \A v \in Nat : Shift(<<v>>, d, radix, max) =
        IF d >= radix \/ With(v, d, radix) > max THEN << >> ELSE <<With(v, d, radix)>>
  BY <1>1, ShiftForms, Zenon
<1>4. \A v \in Nat : /\ With(v, d, radix) \in Nat
                     /\ d < radix => With(v, d, radix) \div radix = v /\ With(v, d, radix) % radix = d
  BY DigitStep, ZenonT(60)
<1> QED  BY <1>2, <1>3, <1>4, Zenon DEF Digit

\* The digits of what was read come back from its end.
LEMMA ReadIsWritten ==
  ASSUME NEW digits \in Seq(Nat), digits # << >>, NEW radix \in {10, 16}, NEW max \in Nat,
         NEW read, Reads(read, digits, radix, max), NEW m \in Nat, read[Len(digits)] = <<m>>,
         NEW rest, Leaves(rest, digits, radix, m)
  PROVE  m <= max /\ Ends(rest, digits, radix)
<1> DEFINE n == Len(digits)
           Good(k) == /\ read[n - k] = <<rest[k]>>
                      /\ k > 0 => digits[n + 1 - k] = rest[k - 1] % radix
           S == {k \in Nat : k <= n => Good(k)}
<1>1. n \in Nat /\ n # 0 /\ (\A k \in 1 .. n : digits[k] \in Nat) /\ radix \in Nat \ {0}
  OBVIOUS
<1>0. \A k \in 1 .. n : Digit(digits[k], radix, max)
  <2> TAKE k \in 1 .. n
  <2>1. digits[k] \in Nat
    BY <1>1
  <2> QED  BY <2>1, Digits
<1>2. read[0] = <<0>> /\ \A k \in 1 .. n : read[k] = Shift(read[k - 1], digits[k], radix, max)
  BY ReadsAt
<1>3. rest[0] = m /\ \A k \in 1 .. n : rest[k] = rest[k - 1] \div radix
  BY LeavesAt
<1>4. \A k \in 0 .. n : read[k] \in Readings
  BY <1>1, ReadsTyped
<1>5. \A k \in 0 .. n : rest[k] \in Nat
  BY <1>1, LeavesTyped
<1>6. ASSUME NEW k \in 1 .. n, NEW v \in Nat, read[k] = <<v>>
      PROVE  \E u \in Nat : /\ read[k - 1] = <<u>> /\ digits[k] < radix
                            /\ v = With(u, digits[k], radix) /\ v <= max
  <2>1. read[k - 1] \in Readings /\ digits[k] \in Nat
    BY <1>1, <1>4
  <2>2. \A z : <<z>> # << >>
    OBVIOUS
  <2>3. read[k] = Shift(read[k - 1], digits[k], radix, max)
    BY <1>2
  <2>4. read[k - 1] # << >>
    <3>1. Shift(<< >>, digits[k], radix, max) = << >>
      BY <1>0 DEF Digit
    <3> QED  BY <1>6, <2>2, <2>3, <3>1, Zenon
  <2>5. PICK u \in Nat : read[k - 1] = <<u>>
    BY <2>1, <2>4 DEF Readings
  <2>6. Shift(<<u>>, digits[k], radix, max) =
          IF digits[k] >= radix \/ With(u, digits[k], radix) > max THEN << >> ELSE <<With(u, digits[k], radix)>>
    BY <1>0 DEF Digit
  <2>7. ~ (digits[k] >= radix \/ With(u, digits[k], radix) > max)
    BY <1>6, <2>2, <2>3, <2>5, <2>6
  <2>8. v = With(u, digits[k], radix)
    BY <1>6, <2>3, <2>5, <2>6, <2>7
  <2>9. \A w \in Nat : With(w, digits[k], radix) \in Nat
    BY <1>0 DEF Digit
  <2>10. digits[k] < radix /\ v <= max
    <3>1. \A a, b \in Nat : ~ (a >= b) => a < b
      OBVIOUS
    <3>2. \A a, b \in Nat : ~ (a > b) => a <= b
      OBVIOUS
    <3> QED  BY <1>1, <2>1, <2>7, <2>8, <2>9, <3>1, <3>2, Zenon
  <2> QED  BY <2>5, <2>8, <2>10
<1> HIDE DEF n
<1>7. 0 \in S
  <2>1. n - 0 = n
    BY <1>1
  <2> QED  BY <1>3, <2>1 DEF n
<1>8. ASSUME NEW k \in S
      PROVE  k + 1 \in S
  <2> SUFFICES ASSUME k + 1 <= n PROVE Good(k + 1)
    OBVIOUS
  <2>1. /\ k \in Nat /\ n - k \in 1 .. n /\ k \in 0 .. n /\ k + 1 \in 1 .. n /\ (k + 1) - 1 = k
        /\ (n - k) - 1 = n - (k + 1) /\ n + 1 - (k + 1) = n - k
    BY <1>1
  <2>2. read[n - k] = <<rest[k]>> /\ rest[k] \in Nat
    <3>1. k <= n
      BY <1>1, <2>1
    <3>2. Good(k)
      <4> HIDE DEF Good
      <4> QED  BY <3>1
    <3>3. read[n - k] = <<rest[k]>>
      BY <3>2, Zenon
    <3>4. rest[k] \in Nat
      BY <1>5, <2>1, Zenon
    <3> QED  BY <3>3, <3>4
  <2>3. PICK u \in Nat : /\ read[(n - k) - 1] = <<u>> /\ digits[n - k] < radix
                         /\ rest[k] = With(u, digits[n - k], radix) /\ rest[k] <= max
    BY <1>6, <2>1, <2>2, Zenon
  <2>4. rest[k] \div radix = u /\ rest[k] % radix = digits[n - k]
    <3>1. digits[n - k] \in Nat
      BY <1>1, <2>1
    <3>2. \A v \in Nat : digits[n - k] < radix =>
            /\ With(v, digits[n - k], radix) \div radix = v
            /\ With(v, digits[n - k], radix) % radix = digits[n - k]
      BY <1>0, <2>1 DEF Digit
    <3> QED  BY <2>3, <3>2, Zenon
  <2>5. rest[k + 1] = u
    BY <1>3, <2>1, <2>4
  <2> QED  BY <2>1, <2>3, <2>4, <2>5
<1>9. S = Nat
  <2> HIDE DEF S
  <2>1. S \in SUBSET Nat
    BY DEF S
  <2> QED  BY <1>7, <1>8, <2>1, SetInduction
<1>10. \A k \in 0 .. n : Good(k)
  <2> HIDE DEF Good
  <2>1. \A k \in 0 .. n : k \in Nat /\ k <= n
    BY <1>1
  <2> QED  BY <1>9, <2>1
<1>11. rest[n] = 0
  <2>1. read[n - n] = <<rest[n]>> /\ n - n = 0
    BY <1>1, <1>10
  <2> QED  BY <1>2, <2>1
<1>12. m <= max
  <2>1. n \in 1 .. n /\ read[n] = <<m>>
    BY <1>1 DEF n
  <2> QED  BY <1>6, <2>1
<1>13. \A k \in 1 .. n : digits[n + 1 - k] = rest[k - 1] % radix
  BY <1>1, <1>10
<1> QED  BY <1>11, <1>12, <1>13 DEF n, Ends

\* And a number whose digits they are, and that the type holds, is read.
LEMMA WrittenIsRead ==
  ASSUME NEW digits \in Seq(Nat), digits # << >>, NEW radix \in {10, 16}, NEW max \in Nat,
         NEW read, Reads(read, digits, radix, max), NEW m \in Nat, m <= max,
         NEW rest, Leaves(rest, digits, radix, m), Ends(rest, digits, radix)
  PROVE  read[Len(digits)] = <<m>>
<1> DEFINE n == Len(digits)
           S == {k \in Nat : k <= n => read[k] = <<rest[n - k]>>}
<1>1. n \in Nat /\ n # 0 /\ (\A k \in 1 .. n : digits[k] \in Nat) /\ radix \in Nat \ {0}
  OBVIOUS
<1>0. \A k \in 1 .. n : Digit(digits[k], radix, max)
  <2> TAKE k \in 1 .. n
  <2>1. digits[k] \in Nat
    BY <1>1
  <2> QED  BY <2>1, Digits
<1>2. read[0] = <<0>> /\ \A k \in 1 .. n : read[k] = Shift(read[k - 1], digits[k], radix, max)
  BY ReadsAt
<1>3. rest[0] = m /\ \A k \in 1 .. n : rest[k] = rest[k - 1] \div radix
  BY LeavesAt
<1>4. \A k \in 0 .. n : rest[k] \in Nat /\ rest[k] <= m
  BY <1>1, LeavesTyped
<1>5. rest[n] = 0 /\ \A k \in 1 .. n : digits[n + 1 - k] = rest[k - 1] % radix
  BY DEF Ends
<1> HIDE DEF n
<1>6. 0 \in S
  BY <1>1, <1>2, <1>5
<1>7. ASSUME NEW k \in S
      PROVE  k + 1 \in S
  <2> SUFFICES ASSUME k + 1 <= n PROVE read[k + 1] = <<rest[n - (k + 1)]>>
    OBVIOUS
  <2> DEFINE j == n - k
             d == digits[k + 1]
  <2>1. /\ k \in Nat /\ j \in 1 .. n /\ j - 1 \in 0 .. n /\ k + 1 \in 1 .. n /\ (k + 1) - 1 = k
        /\ n - (k + 1) = j - 1 /\ n + 1 - j = k + 1
    BY <1>1
  <2>2. d = rest[j - 1] % radix /\ d \in Nat
    BY <1>1, <1>5, <2>1
  <2>3. rest[j] = rest[j - 1] \div radix /\ rest[j - 1] \in Nat /\ rest[j - 1] <= m /\ rest[j] \in Nat
    BY <1>3, <1>4, <2>1, SMTT(40)
  <2>4. d < radix /\ rest[j - 1] = With(rest[j], d, radix)
    <3>1. /\ rest[j - 1] = With(rest[j - 1] \div radix, rest[j - 1] % radix, radix)
          /\ rest[j - 1] % radix < radix
      <4>1. \A v \in Nat : v = With(v \div radix, v % radix, radix) /\ v % radix < radix
        <5> TAKE v \in Nat
        <5>1. 0 \in Nat
          OBVIOUS
        <5> QED  BY <5>1, DigitStep, Zenon
      <4> QED  BY <2>3, <4>1, Zenon
    <3> QED  BY <2>2, <2>3, <3>1, Zenon
  <2>5. read[k] = <<rest[j]>> /\ read[k + 1] = Shift(read[k], d, radix, max)
    <3>1. k <= n
      BY <1>1, <2>1
    <3>2. read[k] = <<rest[n - k]>>
      BY <2>1, <3>1
    <3>3. read[k + 1] = Shift(read[(k + 1) - 1], digits[k + 1], radix, max)
      BY <1>2, <2>1
    <3> QED  BY <2>1, <3>2, <3>3
  <2> HIDE DEF j, d
  <2>6. Shift(<<rest[j]>>, d, radix, max) =
          IF d >= radix \/ With(rest[j], d, radix) > max THEN << >> ELSE <<With(rest[j], d, radix)>>
    <3>1. Digit(d, radix, max)
      BY <1>0, <2>1 DEF d
    <3> QED  BY <2>3, <3>1 DEF Digit
  <2>7. ~ (d >= radix \/ With(rest[j], d, radix) > max)
    <3>1. ~ (d >= radix) /\ ~ (rest[j - 1] > max)
      BY <1>1, <2>2, <2>3, <2>4, SMTT(40)
    <3> QED  BY <2>4, <3>1, Zenon
  <2>8. read[k + 1] = <<rest[j - 1]>>
    BY <2>4, <2>5, <2>6, <2>7
  <2> QED  BY <2>1, <2>8
<1>8. S = Nat
  <2> HIDE DEF S
  <2>1. S \in SUBSET Nat
    BY DEF S
  <2> QED  BY <1>6, <1>7, <2>1, SetInduction
<1>9. read[n] = <<rest[n - n]>> /\ n - n = 0
  BY <1>1, <1>8
<1> QED  BY <1>3, <1>9 DEF n

\* A numeral is read as n exactly if the type holds n and the digits are those
\* of n; else it is an error.
LEMMA NumeralRead ==
  ASSUME NEW digits \in Seq(Nat), NEW radix \in {10, 16}, NEW max \in Nat
  PROVE  /\ FromStrRadix(digits, radix, max) \in Readings
         /\ \A m \in Nat : FromStrRadix(digits, radix, max) = <<m>>
                             <=> digits # << >> /\ m <= max /\ WrittenIn(digits, radix, m)
<1> DEFINE n == Len(digits)
           F(f) == [k \in 0 .. Len(digits) |->
                      IF k = 0 THEN <<0>> ELSE Shift(f[k - 1], digits[k], radix, max)]
           read == CHOOSE f : f = F(f)
<1>1. \E f : f = F(f)
  <2>1. radix \in Nat
    OBVIOUS
  <2>2. PICK f : Reads(f, digits, radix, max)
    BY <2>1, ReadsExist
  <2> QED  BY <2>2, Zenon DEF Reads
<1>2. Reads(read, digits, radix, max)
  BY <1>1, Zenon DEF Reads
<1>3. FromStrRadix(digits, radix, max) = IF digits = << >> THEN << >> ELSE read[Len(digits)]
  BY Zenon DEF FromStrRadix
<1> HIDE DEF read, F
<1>4. ASSUME NEW m \in Nat
      PROVE  \E rest : Decides(rest, digits, radix, m)
  <2>1. radix \in Nat \ {0}
    OBVIOUS
  <2>2. \E rest : Leaves(rest, digits, radix, m)
    BY <2>1, LeavesExist
  <2> QED  BY <2>2, WrittenForm
<1>5. digits # << >> => FromStrRadix(digits, radix, max) = read[Len(digits)] /\ read[Len(digits)] \in Readings
  <2>1. radix \in Nat /\ Len(digits) \in 0 .. Len(digits)
    OBVIOUS
  <2>2. \A k \in 0 .. Len(digits) : read[k] \in Readings
    BY <1>2, <2>1, ReadsTyped, Zenon
  <2> QED  BY <1>3, <2>1, <2>2, Zenon
<1>6. digits = << >> => FromStrRadix(digits, radix, max) = << >>
  BY <1>3, Zenon
<1>7. FromStrRadix(digits, radix, max) \in Readings
  BY <1>5, <1>6 DEF Readings
<1>8. ASSUME NEW m \in Nat
      PROVE  FromStrRadix(digits, radix, max) = <<m>>
               <=> digits # << >> /\ m <= max /\ WrittenIn(digits, radix, m)
  <2>0. PICK rest : Decides(rest, digits, radix, m)
    BY <1>4
  <2>1. /\ Leaves(rest, digits, radix, m)
        /\ WrittenIn(digits, radix, m) <=> Ends(rest, digits, radix)
    BY <2>0 DEF Decides
  <2>2. CASE digits = << >>
    <3>1. << >> # <<m>>
      OBVIOUS
    <3> QED  BY <1>6, <2>2, <3>1
  <2>3. CASE digits # << >>
    <3>1. read[Len(digits)] = <<m>> => m <= max /\ WrittenIn(digits, radix, m)
      BY <1>2, <2>1, <2>3, ReadIsWritten, Zenon
    <3>2. m <= max /\ WrittenIn(digits, radix, m) => read[Len(digits)] = <<m>>
      <4> SUFFICES ASSUME m <= max, WrittenIn(digits, radix, m) PROVE read[Len(digits)] = <<m>>
        OBVIOUS
      <4>1. Leaves(rest, digits, radix, m) /\ Ends(rest, digits, radix)
        BY <2>1
      <4> QED  BY <1>2, <2>3, <4>1, WrittenIsRead
    <3> QED  BY <1>5, <2>3, <3>1, <3>2, Zenon
  <2> QED  BY <2>2, <2>3
<1> QED  BY <1>7, <1>8

-----------------------------------------------------------------------------
(* Bytes.                                                                  *)

\* Two digits are those of their byte.
LEMMA ByteWritten ==
  ASSUME NEW a \in 0 .. 15, NEW b \in 0 .. 15
  PROVE  WrittenIn(<<a, b>>, 16, 16 * a + b)
<1> DEFINE digits == <<a, b>>
<1>1. digits \in Seq(Nat) /\ digits # << >> /\ Len(digits) = 2 /\ digits[1] = a /\ digits[2] = b
  OBVIOUS
<1>2. 16 * a + b \in Nat /\ 16 * a + b <= 255 /\ a \in Nat /\ b \in Nat /\ a <= 255
      /\ ~ (a >= 16) /\ ~ (b >= 16) /\ 255 \in Nat /\ 16 \in {10, 16} /\ 16 \in Nat
  OBVIOUS
<1> HIDE DEF digits
<1> DEFINE m == 16 * a + b
<1>3. m \div 16 = a /\ a \div 16 = 0 /\ m % 16 = b /\ a % 16 = a
  BY <1>2
<1>4. m \in Nat /\ 16 \in Nat \ {0}
  BY <1>2
<1> HIDE DEF m
<1>5. PICK rest : Decides(rest, digits, 16, m)
  <2>1. \E rest : Leaves(rest, digits, 16, m)
    BY <1>1, <1>4, LeavesExist
  <2> QED  BY <2>1, WrittenForm
<1>6. rest[0] = m /\ rest[1] = a /\ rest[2] = 0
  <2>1. rest[0] = m /\ \A k \in 1 .. Len(digits) : rest[k] = rest[k - 1] \div 16
    <3>1. Leaves(rest, digits, 16, m)
      BY <1>5 DEF Decides
    <3>2. \A k \in 0 .. Len(digits) : rest[k] = IF k = 0 THEN m ELSE rest[k - 1] \div 16
      BY <3>1, Zenon DEF Leaves
    <3>3. 0 \in 0 .. Len(digits) /\ \A k \in 1 .. Len(digits) : k # 0 /\ k \in 0 .. Len(digits)
      BY <1>1
    <3> QED  BY <3>2, <3>3, Zenon
  <2>2. 1 \in 1 .. Len(digits) /\ 2 \in 1 .. Len(digits) /\ 1 - 1 = 0 /\ 2 - 1 = 1
    BY <1>1
  <2> QED  BY <1>3, <2>1, <2>2
<1>7. Ends(rest, digits, 16)
  <2>1. \A k \in 1 .. 2 : k = 1 \/ k = 2
    OBVIOUS
  <2>2. 2 + 1 - 1 = 2 /\ 2 + 1 - 2 = 1 /\ 1 - 1 = 0 /\ 2 - 1 = 1
    OBVIOUS
  <2>3. \A k \in 1 .. 2 : digits[2 + 1 - k] = rest[k - 1] % 16
    BY <1>1, <1>3, <1>6, <2>1, <2>2, Zenon
  <2> QED  BY <1>1, <1>6, <2>3, Zenon DEF Ends
<1> QED  BY <1>5, <1>7 DEF digits, m, Decides

\* Two digits next to each other, cut out.
LEMMA Pair ==
  ASSUME NEW s \in Seq(0 .. 16), NEW from \in Nat \ {0}, from + 1 <= Len(s)
  PROVE  SubSeq(s, from, from + 1) = <<s[from], s[from + 1]>>
<1> DEFINE p == SubSeq(s, from, from + 1)
           q == <<s[from], s[from + 1]>>
<1>1. s[from] \in 0 .. 16 /\ s[from + 1] \in 0 .. 16
  BY SMTT(40)
<1>2. p \in Seq(0 .. 16) /\ Len(p) = 2 /\ p[1] = s[from] /\ p[2] = s[from + 1]
  BY SMTT(40)
<1>3. q \in Seq(0 .. 16) /\ Len(q) = 2 /\ q[1] = s[from] /\ q[2] = s[from + 1]
  BY <1>1
<1> HIDE DEF p, q
<1>4. p = q
  <2>1. \A i \in 1 .. 2 : i = 1 \/ i = 2
    OBVIOUS
  <2>2. \A i \in 1 .. Len(p) : p[i] = q[i]
    BY <1>2, <1>3, <2>1, Zenon
  <2> QED  BY <1>2, <1>3, <2>2, SeqEqual
<1> QED  BY <1>4 DEF p, q

\* What is decoded is written in the digits, two for each byte.
LEMMA DecodedIsWritten ==
  ASSUME NEW digits \in Seq(0 .. 16), HexDecode(digits) # << >>
  PROVE  LET bytes == HexDecode(digits)[1]
         IN /\ Len(bytes) \in Nat /\ Len(digits) = 2 * Len(bytes) /\ DOMAIN bytes = 1 .. Len(bytes)
            /\ \A i \in DOMAIN bytes : WrittenIn(SubSeq(digits, 2 * i - 1, 2 * i), 16, bytes[i])
<1> DEFINE n == Len(digits) \div 2
           bytes == [i \in 1 .. n |-> 16 * digits[2 * i - 1] + digits[2 * i]]
<1>1. /\ Len(digits) % 2 # 1 /\ \A i \in DOMAIN digits : digits[i] # 16
      /\ HexDecode(digits) = <<bytes>>
  BY DEF HexDecode
<1>2. n \in Nat /\ Len(digits) \in Nat /\ Len(digits) = 2 * n /\ DOMAIN digits = 1 .. Len(digits)
  BY <1>1
<1>3. Len(bytes) = n /\ DOMAIN bytes = 1 .. n /\ HexDecode(digits)[1] = bytes
  <2>1. bytes \in Seq({16 * digits[2 * i - 1] + digits[2 * i] : i \in 1 .. n}) /\ Len(bytes) = n
    BY <1>2
  <2> QED  BY <1>1, <2>1
<1>4. ASSUME NEW i \in 1 .. n
      PROVE  WrittenIn(SubSeq(digits, 2 * i - 1, 2 * i), 16, bytes[i])
  <2> DEFINE a == digits[2 * i - 1]
             b == digits[2 * i]
  <2>1. 2 * i - 1 \in 1 .. Len(digits) /\ 2 * i \in 1 .. Len(digits)
    BY <1>2
  <2>2. a \in 0 .. 15 /\ b \in 0 .. 15
    <3>0. \A k \in 1 .. Len(digits) : digits[k] \in 0 .. 16
      BY SMTT(40)
    <3>1. a \in 0 .. 16 /\ b \in 0 .. 16
      BY <2>1, <3>0, Zenon
    <3>2. a # 16 /\ b # 16
      BY <1>1, <1>2, <2>1
    <3> QED  BY <3>1, <3>2
  <2>3. SubSeq(digits, 2 * i - 1, 2 * i) = <<a, b>>
    <3>1. 2 * i - 1 \in Nat \ {0} /\ (2 * i - 1) + 1 = 2 * i /\ 2 * i <= Len(digits)
      BY <1>2
    <3> QED  BY <3>1, Pair
  <2>4. bytes[i] = 16 * a + b
    OBVIOUS
  <2> HIDE DEF bytes, a, b
  <2> QED  BY <2>2, <2>3, <2>4, ByteWritten
<1> HIDE DEF bytes, n
<1> QED  BY <1>2, <1>3, <1>4

-----------------------------------------------------------------------------
(* The reader.                                                             *)

\* All fields before have a value, which was read, and only a field without one
\* stops the reader.
Reached(n) ==
  /\ parsed = [k \in 1 .. n |-> Value(Order[k])[1]]
  /\ \A k \in 1 .. n : Value(Order[k]) # << >>
  /\ panicked => n < 8 /\ Value(Order[n + 1]) = << >>

ReaderInv == doc \in Documents /\ \E n \in 0 .. 8 : Reached(n)

\* The fields and what they hold.
LEMMA OrderFacts ==
  /\ Len(Order) = 8 /\ DOMAIN JsonFields = 1 .. 8
  /\ \A k \in 1 .. 8 : Order[k].field = JsonFields[k]
  /\ \A k \in 2 .. 7 : /\ Order[k].max = (IF k \in {2, 7} THEN MaxU64 ELSE MaxU128)
                       /\ JsonFields[k] # "to" /\ JsonFields[k] # "input"
  /\ JsonFields[1] = "to" /\ JsonFields[8] = "input"
<1>1. DOMAIN JsonFields = 1 .. 8 /\ JsonFields[1] = "to" /\ JsonFields[8] = "input"
  BY DEF JsonFields
<1>2. \A k \in 2 .. 7 : JsonFields[k] # "to" /\ JsonFields[k] # "input"
  BY DEF JsonFields
<1>3. Order = [k \in 1 .. 8 |-> [field |-> JsonFields[k], max |-> IF k \in {2, 7} THEN MaxU64 ELSE MaxU128]]
  BY <1>1 DEF Order
<1>4. Len(Order) = 8
  BY <1>3
<1> QED  BY <1>1, <1>2, <1>3, <1>4

\* Where the reader stands is the number of values it has.
LEMMA ReachedLength ==
  ASSUME NEW n \in 0 .. 8, Reached(n)
  PROVE  Len(parsed) = n /\ DOMAIN parsed = 1 .. n /\ \A k \in 1 .. n : parsed[k] = Value(Order[k])[1]
<1>1. parsed = [k \in 1 .. n |-> Value(Order[k])[1]]
  BY DEF Reached
<1>2. parsed \in Seq({Value(Order[k])[1] : k \in 1 .. n}) /\ Len(parsed) = n
  BY <1>1
<1> QED  BY <1>1, <1>2

\* The fields are read in their order, each once, and from the document that was
\* given: from_json stops at the first that has no value and nowhere else.
THEOREM ReaderInvariant == JsonSpec => []ReaderInv
<1>1. JsonInit => ReaderInv
  <2> SUFFICES ASSUME JsonInit PROVE ReaderInv
    OBVIOUS
  <2>1. 1 .. 0 = {}
    OBVIOUS
  <2>2. [k \in 1 .. 0 |-> Value(Order[k])[1]] = << >>
    BY <2>1
  <2>3. Reached(0)
    BY <2>1, <2>2 DEF JsonInit, Reached
  <2>4. 0 \in 0 .. 8 /\ doc \in Documents
    BY DEF JsonInit
  <2> QED  BY <2>3, <2>4, Zenon DEF ReaderInv
<1>2. ReaderInv /\ [JsonNext]_jsonVars => ReaderInv'
  <2> SUFFICES ASSUME ReaderInv, [JsonNext]_jsonVars PROVE ReaderInv'
    OBVIOUS
  <2>1. PICK n \in 0 .. 8 : Reached(n)
    BY DEF ReaderInv
  <2>2. Len(parsed) = n /\ Len(Order) = 8
    BY <2>1, ReachedLength, OrderFacts
  <2>3. doc' = doc /\ doc \in Documents
    BY DEF ReaderInv, JsonNext, ReadField, Panic, jsonVars
  <2>4. \A k : Value(Order[k])' = Value(Order[k])
    BY <2>3 DEF Value, Recipient, Input, IsPrefixed
  <2>5. CASE ReadField
    <3>1. /\ ~panicked /\ panicked' = panicked /\ n < 8 /\ n + 1 \in 0 .. 8
          /\ Value(Order[n + 1]) # << >>
          /\ parsed' = Append(parsed, Value(Order[n + 1])[1])
      BY <2>2, <2>5 DEF ReadField
    <3> DEFINE V(k) == Value(Order[k])[1]
               S == {V(k) : k \in 1 .. 8}
               new == [k \in 1 .. n + 1 |-> V(k)]
    <3>2. parsed' = new
      <4>1. parsed = [k \in 1 .. n |-> V(k)]
        BY <2>1 DEF Reached
      <4>2. parsed' = Append(parsed, V(n + 1))
        BY <3>1
      <4> HIDE DEF V
      <4>3. parsed \in Seq(S) /\ V(n + 1) \in S /\ new \in Seq(S) /\ Len(new) = n + 1
        <5>1. n \in Nat /\ n + 1 \in Nat /\ \A k \in 1 .. n + 1 : k \in 1 .. 8
          BY <3>1
        <5>2. \A k \in 1 .. n + 1 : V(k) \in S
          BY <5>1
        <5>3. n + 1 \in 1 .. n + 1 /\ \A k \in 1 .. n : k \in 1 .. n + 1
          BY <5>1
        <5> HIDE DEF S
        <5>4. parsed \in Seq(S)
          BY <4>1, <5>1, <5>2, <5>3
        <5>5. new \in Seq(S) /\ Len(new) = n + 1
          BY <5>1, <5>2
        <5> QED  BY <5>2, <5>3, <5>4, <5>5
      <4> HIDE DEF S
      <4>4. Append(parsed, V(n + 1)) \in Seq(S) /\ Len(Append(parsed, V(n + 1))) = n + 1
        BY <2>2, <4>3
      <4>5. \A k \in 1 .. n + 1 : Append(parsed, V(n + 1))[k] = new[k]
        BY <2>2, <4>1, <4>3
      <4> QED  BY <4>2, <4>3, <4>4, <4>5, SeqEqual
    <3>3. Reached(n + 1)'
      BY <2>1, <2>4, <3>1, <3>2 DEF Reached
    <3> QED  BY <2>3, <3>1, <3>3 DEF ReaderInv
  <2>6. CASE Panic
    <3>1. parsed' = parsed /\ n < 8 /\ Value(Order[n + 1]) = << >>
      BY <2>2, <2>6 DEF Panic
    <3>2. Reached(n)'
      BY <2>1, <2>4, <3>1 DEF Reached
    <3> QED  BY <2>3, <3>2 DEF ReaderInv
  <2>7. CASE UNCHANGED jsonVars
    <3>1. Reached(n)'
      BY <2>1, <2>4, <2>7 DEF Reached, jsonVars
    <3> QED  BY <2>3, <3>1 DEF ReaderInv
  <2> QED  BY <2>5, <2>6, <2>7 DEF JsonNext
<1> QED  BY <1>1, <1>2, PTL DEF JsonSpec

\* The first of a sequence is one of its elements.
LEMMA First ==
  ASSUME NEW R, NEW s \in Seq(R), s # << >>
  PROVE  s[1] \in R
OBVIOUS

\* 0 .. 16 are numbers.
LEMMA DigitsAreNumbers ==
  ASSUME NEW s \in Seq(0 .. 16)
  PROVE  s \in Seq(Nat)
OBVIOUS

\* A number is what the text says, or no number fits it.
LEMMA NumberAsWritten ==
  ASSUME doc \in Documents, NEW k \in 2 .. 7
  PROVE  /\ Value(Order[k]) # << >> => Says(Order[k], Value(Order[k])[1])
         /\ Value(Order[k]) = << >> => \A n \in 0 .. Order[k].max : ~Says(Order[k], n)
<1> DEFINE field == JsonFields[k]
           text == doc[field][1]
           max == Order[k].max
<1>1. Order[k].field = field /\ max \in Nat /\ field # "to" /\ field # "input"
  BY OrderFacts, DocumentsAssumption
<1>2. doc[field] # << >> => text.digits \in Seq(0 .. 16) /\ Radix(text) \in {10, 16}
  <2>1. doc[field] \in Seq([prefixed : BOOLEAN, digits : Seq(0 .. 16)]) /\ k \in DOMAIN JsonFields
    BY OrderFacts, DocumentsAssumption
  <2>2. doc[field] # << >> => text \in [prefixed : BOOLEAN, digits : Seq(0 .. 16)]
    BY <2>1, First
  <2> QED  BY <2>2 DEF Radix
<1>3. Value(Order[k]) = IF doc[field] = << >> THEN << >> ELSE FromStrRadix(text.digits, Radix(text), max)
  BY <1>1 DEF Value, Parse, Radix
<1>4. CASE doc[field] = << >>
  BY <1>1, <1>3, <1>4 DEF Says
<1>5. CASE doc[field] # << >>
  <2> DEFINE read == FromStrRadix(text.digits, Radix(text), max)
  <2>1. text.digits \in Seq(Nat) /\ Radix(text) \in {10, 16}
    <3>1. text.digits \in Seq(0 .. 16) /\ Radix(text) \in {10, 16}
      BY <1>2, <1>5
    <3> HIDE DEF text
    <3> QED  BY <3>1, DigitsAreNumbers
  <2>2. /\ read \in Readings
        /\ \A m \in Nat : read = <<m>>
                           <=> text.digits # << >> /\ m <= max /\ WrittenIn(text.digits, Radix(text), m)
    BY <1>1, <2>1, NumeralRead, SMTT(40)
  <2>3. \A m : Says(Order[k], m)
                <=> text.digits # << >> /\ m <= max /\ WrittenIn(text.digits, Radix(text), m)
    BY <1>1, <1>5 DEF Says
  <2>4. Value(Order[k]) = read
    BY <1>3, <1>5
  <2> HIDE DEF read, text, field, max
  <2>5. \A m \in Nat : read = <<m>> <=> Says(Order[k], m)
    BY <2>2, <2>3, Zenon
  <2>6. CASE read = << >>
    <3>1. \A m : << >> # <<m>>
      OBVIOUS
    <3>2. \A n \in 0 .. max : n \in Nat
      BY <1>1
    <3> QED  BY <2>4, <2>5, <2>6, <3>1, <3>2, Zenon DEF max
  <2>7. CASE read # << >>
    <3>1. PICK m \in Nat : read = <<m>>
      BY <2>2, <2>7 DEF Readings
    <3>2. read[1] = m
      BY <3>1
    <3> QED  BY <2>4, <2>5, <2>7, <3>1, <3>2
  <2> QED  BY <2>6, <2>7
<1> QED  BY <1>4, <1>5

\* No byte of an address or an input is lost or added.
LEMMA BytesRead ==
  ASSUME doc \in Documents, NEW k \in {1, 8}, Value(Order[k]) # << >>
  PROVE  LET bytes == Value(Order[k])[1]
         IN /\ k = 1 => Len(bytes) = AddressLength /\ BytesAsWritten(bytes, "to", ZeroAddress)
            /\ k = 8 => BytesAsWritten(bytes, "input", << >>)
<1> DEFINE Chosen(field, default) == IF IsPrefixed(field) THEN doc[field][1].digits ELSE default
<1>1. ASSUME NEW i \in {1, 8}, IsPrefixed(JsonFields[i])
      PROVE  doc[JsonFields[i]][1].digits \in Seq(0 .. 16)
  <2>1. doc[JsonFields[i]] \in Seq([prefixed : BOOLEAN, digits : Seq(0 .. 16)]) /\ doc[JsonFields[i]] # << >>
    BY <1>1, OrderFacts, DocumentsAssumption DEF IsPrefixed
  <2>2. doc[JsonFields[i]][1] \in [prefixed : BOOLEAN, digits : Seq(0 .. 16)]
    BY <2>1, First
  <2> QED  BY <2>2
<1>2. ZeroAddress \in Seq(0 .. 16) /\ << >> \in Seq(0 .. 16)
  BY DocumentsAssumption DEF ZeroAddress
<1>3. Chosen("to", ZeroAddress) \in Seq(0 .. 16) /\ Chosen("input", << >>) \in Seq(0 .. 16)
  BY <1>1, <1>2, OrderFacts
<1>4. CASE k = 1
  <2> DEFINE address == HexDecode(Chosen("to", ZeroAddress))
  <2>1. Value(Order[k]) = Recipient
    BY <1>4, OrderFacts DEF Value
  <2>2. Recipient = IF address # << >> /\ Len(address[1]) = AddressLength THEN address ELSE << >>
    BY DEF Recipient
  <2>3. Value(Order[k]) = address /\ address # << >> /\ Len(address[1]) = AddressLength
    BY <2>1, <2>2
  <2> HIDE DEF Chosen
  <2>4. LET bytes == address[1]
        IN /\ Len(Chosen("to", ZeroAddress)) = 2 * Len(bytes)
           /\ \A i \in DOMAIN bytes :
                WrittenIn(SubSeq(Chosen("to", ZeroAddress), 2 * i - 1, 2 * i), 16, bytes[i])
    BY <1>3, <2>3, DecodedIsWritten
  <2> QED  BY <1>4, <2>3, <2>4 DEF BytesAsWritten, Chosen
<1>5. CASE k = 8
  <2> DEFINE input == HexDecode(Chosen("input", << >>))
  <2>1. Value(Order[k]) = Input
    BY <1>5, OrderFacts DEF Value
  <2>2. Value(Order[k]) = input /\ input # << >>
    BY <2>1 DEF Input
  <2> HIDE DEF Chosen
  <2>3. LET bytes == input[1]
        IN /\ Len(Chosen("input", << >>)) = 2 * Len(bytes)
           /\ \A i \in DOMAIN bytes :
                WrittenIn(SubSeq(Chosen("input", << >>), 2 * i - 1, 2 * i), 16, bytes[i])
    BY <1>3, <2>2, DecodedIsWritten
  <2> QED  BY <1>5, <2>2, <2>3 DEF BytesAsWritten, Chosen
<1> QED  BY <1>4, <1>5

\* Whatever the documents and the widths, from_json returns what each field says,
\* and panics over no number that its type holds.
THEOREM FieldsAsWritten == JsonSpec => []AsWritten
<1>1. ReaderInv => AsWritten
  <2> SUFFICES ASSUME ReaderInv PROVE AsWritten
    OBVIOUS
  <2>1. PICK n \in 0 .. 8 : Reached(n)
    BY DEF ReaderInv
  <2>2. Len(parsed) = n /\ DOMAIN parsed = 1 .. n /\ \A k \in 1 .. n : parsed[k] = Value(Order[k])[1]
    BY <2>1, ReachedLength
  <2>3. doc \in Documents /\ \A k \in 1 .. n : Value(Order[k]) # << >>
    BY <2>1 DEF ReaderInv, Reached
  <2>4. parsed # << >> => Len(parsed[1]) = AddressLength /\ BytesAsWritten(parsed[1], "to", ZeroAddress)
    <3>1. parsed # << >> => 1 \in 1 .. n
      <4>1. CASE n = 0
        <5>1. 1 .. 0 = {} /\ parsed = [k \in 1 .. 0 |-> Value(Order[k])[1]]
          BY <2>1, <4>1 DEF Reached
        <5> QED  BY <5>1
      <4>2. CASE n # 0
        BY <4>2
      <4> QED  BY <4>1, <4>2
    <3> QED  BY <2>2, <2>3, <3>1, BytesRead
  <2>5. \A k \in 2 .. 7 : k <= Len(parsed) => Says(Order[k], parsed[k])
    <3> SUFFICES ASSUME NEW k \in 2 .. 7, k <= n PROVE Says(Order[k], parsed[k])
      BY <2>2
    <3>1. k \in 1 .. n
      OBVIOUS
    <3> QED  BY <2>2, <2>3, <3>1, NumberAsWritten
  <2>6. Len(parsed) = 8 => BytesAsWritten(parsed[8], "input", << >>)
    <3> SUFFICES ASSUME n = 8 PROVE BytesAsWritten(parsed[8], "input", << >>)
      BY <2>2
    <3>1. 8 \in 1 .. n
      OBVIOUS
    <3> QED  BY <2>2, <2>3, <3>1, BytesRead
  <2>7. ASSUME panicked, NEW k \in 2 .. 7, k = Len(parsed) + 1
        PROVE  \A m \in 0 .. Order[k].max : ~Says(Order[k], m)
    <3>1. Value(Order[k]) = << >>
      BY <2>1, <2>2, <2>7 DEF Reached
    <3> QED  BY <2>3, <3>1, NumberAsWritten
  <2> QED  BY <2>4, <2>5, <2>6, <2>7 DEF AsWritten
<1> QED  BY <1>1, ReaderInvariant, PTL
=============================================================================
