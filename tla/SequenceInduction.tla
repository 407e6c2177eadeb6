------------------------ MODULE SequenceInduction ------------------------
(***************************************************************************)
(* Induction over the naturals, stated of sets so that it can be applied   *)
(* without an operator for the induction hypothesis, and what it says of   *)
(* functions defined by recursion: FlattenSeq, and the iteration of a step *)
(* that is itself a function.                                              *)
(***************************************************************************)
EXTENDS Integers, SequencesExt, WellFoundedInduction, SequenceTheorems, TLAPS

\* A set of naturals has a least element.
LEMMA LeastElement ==
  ASSUME NEW T \in SUBSET Nat, T # {}
  PROVE  \E x \in T : \A y \in T : x <= y
<1> DEFINE R == OpToRel(<, Nat)
<1>1. IsWellFoundedOn(R, Nat)
  BY NatLessThanWellFounded
<1>2. \A x, y \in Nat : <<y, x>> \in R <=> y < x
  BY DEF OpToRel
<1> HIDE DEF R
<1>3. PICK x \in T : \A y \in T : ~ (<<y, x>> \in R)
  BY <1>1, WFMin
<1>4. ASSUME NEW y \in T
      PROVE  x <= y
  <2>1. x \in Nat /\ y \in Nat
    OBVIOUS
  <2>2. ~ (<<y, x>> \in R)
    BY <1>3
  <2>3. ~ (y < x)
    BY <1>2, <2>1, <2>2
  <2> QED  BY <2>1, <2>3
<1> QED  BY <1>4

\* A set of naturals that holds 0 and, with each number, the next one holds
\* every natural.
LEMMA SetInduction ==
  ASSUME NEW T \in SUBSET Nat, 0 \in T, \A n \in T : n + 1 \in T
  PROVE  T = Nat
<1> SUFFICES ASSUME T # Nat PROVE FALSE
  OBVIOUS
<1>1. PICK x \in Nat \ T : \A y \in Nat \ T : x <= y
  BY LeastElement
<1>2. x # 0
  OBVIOUS
<1>3. x - 1 \in Nat /\ ~ (x <= x - 1)
  BY <1>2
<1>4. x - 1 \in T
  BY <1>1, <1>3
<1>5. (x - 1) + 1 = x
  OBVIOUS
<1> QED  BY <1>4, <1>5

\* The value of f at i is made of the one before.
Steps(f, seqs, n) ==
  f = [i \in 1 .. n |-> IF i = 1 THEN seqs[i] ELSE f[i - 1] \o seqs[i]]

\* The function that the recursion defines exists.
LEMMA StepsExist ==
  ASSUME NEW T, NEW seqs \in Seq(Seq(T)), NEW n \in 0 .. Len(seqs)
  PROVE  \E f \in [1 .. n -> Seq(T)] : Steps(f, seqs, n)
<1> DEFINE Reached == {m \in Nat : m <= Len(seqs) => \E f \in [1 .. m -> Seq(T)] : Steps(f, seqs, m)}
<1>1. 0 \in Reached
  <2> DEFINE f == [i \in 1 .. 0 |-> << >>]
  <2>1. f \in [1 .. 0 -> Seq(T)] /\ Steps(f, seqs, 0)
    BY DEF Steps
  <2> QED  BY <2>1
<1>2. ASSUME NEW m \in Reached
      PROVE  m + 1 \in Reached
  <2> SUFFICES ASSUME m + 1 <= Len(seqs)
               PROVE  \E f \in [1 .. m + 1 -> Seq(T)] : Steps(f, seqs, m + 1)
    OBVIOUS
  <2>1. PICK g \in [1 .. m -> Seq(T)] : Steps(g, seqs, m)
    BY <1>2
  <2> DEFINE last == IF m = 0 THEN seqs[1] ELSE g[m] \o seqs[m + 1]
             f == [i \in 1 .. m + 1 |-> IF i = m + 1 THEN last ELSE g[i]]
  <2>2. m \in Nat /\ m + 1 \in 1 .. Len(seqs) /\ Len(seqs) \in Nat
    OBVIOUS
  <2>3. \A i \in 1 .. m + 1 : seqs[i] \in Seq(T)
    BY <2>2
  <2>4. last \in Seq(T)
    <3>1. CASE m = 0
      BY <2>3, <3>1
    <3>2. CASE m # 0
      <4>1. g[m] \in Seq(T) /\ seqs[m + 1] \in Seq(T)
        BY <2>2, <2>3, <3>2
      <4> QED  BY <3>2, <4>1
    <3> QED  BY <3>1, <3>2
  <2>5. f \in [1 .. m + 1 -> Seq(T)]
    <3> HIDE DEF last
    <3> QED  BY <2>2, <2>4
  <2>6. \A i \in 1 .. m + 1 : f[i] = IF i = 1 THEN seqs[i] ELSE f[i - 1] \o seqs[i]
    <3> TAKE i \in 1 .. m + 1
    <3>1. CASE i = m + 1 /\ m = 0
      BY <3>1
    <3>2. CASE i = m + 1 /\ m # 0
      <4>1. i - 1 \in 1 .. m + 1 /\ i - 1 # m + 1 /\ i - 1 = m /\ i # 1
        BY <2>2, <3>2
      <4>2. f[i - 1] = g[m]
        <5> HIDE DEF last
        <5> QED  BY <4>1
      <4> QED  BY <3>2, <4>1, <4>2
    <3>3. CASE i # m + 1
      <4>1. i \in 1 .. m
        BY <2>2, <3>3
      <4>2. g[i] = IF i = 1 THEN seqs[i] ELSE g[i - 1] \o seqs[i]
        BY <2>1, <4>1 DEF Steps
      <4>3. f[i] = g[i] /\ (i # 1 => f[i - 1] = g[i - 1])
        <5> HIDE DEF last
        <5>1. i # 1 => i - 1 \in 1 .. m + 1 /\ i - 1 # m + 1
          BY <2>2, <4>1
        <5> QED  BY <3>3, <5>1
      <4> QED  BY <4>2, <4>3
    <3> QED  BY <3>1, <3>2, <3>3
  <2>7. Steps(f, seqs, m + 1)
    <3>1. f = [i \in 1 .. m + 1 |-> f[i]]
      BY <2>5
    <3> HIDE DEF f
    <3> QED  BY <2>6, <3>1 DEF Steps
  <2> QED  BY <2>5, <2>7
<1>3. Reached = Nat
  <2> HIDE DEF Reached
  <2>1. Reached \in SUBSET Nat
    BY DEF Reached
  <2> QED  BY <1>1, <1>2, <2>1, SetInduction
<1>4. n \in Nat /\ n <= Len(seqs)
  OBVIOUS
<1> QED  BY <1>3, <1>4

\* FlattenSeq is the last value of it.
LEMMA FlattenSteps ==
  ASSUME NEW T, NEW seqs \in Seq(Seq(T)), Len(seqs) # 0
  PROVE  \E f : Steps(f, seqs, Len(seqs)) /\ FlattenSeq(seqs) = f[Len(seqs)]
<1> DEFINE n == Len(seqs)
           f == CHOOSE f : f = [i \in 1 .. n |-> IF i = 1 THEN seqs[i] ELSE f[i - 1] \o seqs[i]]
<1>1. \E g : Steps(g, seqs, n)
  BY StepsExist
<1>2. Steps(f, seqs, n)
  BY <1>1, Zenon DEF Steps
<1>3. FlattenSeq(seqs) = f[n]
  BY DEF FlattenSeq
<1> QED  BY <1>2, <1>3

\* Its value at each place.
LEMMA StepAt ==
  ASSUME NEW f, NEW s, NEW n, Steps(f, s, n), NEW i \in 1 .. n
  PROVE  f[i] = IF i = 1 THEN s[i] ELSE f[i - 1] \o s[i]
<1> DEFINE F == [j \in 1 .. n |-> IF j = 1 THEN s[j] ELSE f[j - 1] \o s[j]]
<1>1. f = F
  BY DEF Steps
<1>2. F[i] = IF i = 1 THEN s[i] ELSE f[i - 1] \o s[i]
  OBVIOUS
<1> HIDE DEF F
<1> QED  BY <1>1, <1>2

\* It depends on the part of the sequence already passed alone.
LEMMA StepsAgree ==
  ASSUME NEW f, NEW g, NEW s, NEW t, NEW n \in Nat, NEW m \in Nat, n <= m,
         Steps(f, s, n), Steps(g, t, m), \A i \in 1 .. n : s[i] = t[i]
  PROVE  \A i \in 1 .. n : f[i] = g[i]
<1> DEFINE Agreed == {i \in Nat : i \in 1 .. n => f[i] = g[i]}
<1>1. \A i \in 1 .. n : /\ f[i] = IF i = 1 THEN s[i] ELSE f[i - 1] \o s[i]
                        /\ g[i] = IF i = 1 THEN t[i] ELSE g[i - 1] \o t[i]
  <2> TAKE i \in 1 .. n
  <2>1. i \in 1 .. m
    OBVIOUS
  <2> QED  BY <2>1, StepAt
<1>2. 0 \in Agreed
  OBVIOUS
<1>3. ASSUME NEW i \in Agreed
      PROVE  i + 1 \in Agreed
  <2> SUFFICES ASSUME i + 1 \in 1 .. n
               PROVE  f[i + 1] = g[i + 1]
    OBVIOUS
  <2>1. CASE i = 0
    BY <1>1, <2>1
  <2>2. CASE i # 0
    <3>1. i \in 1 .. n /\ f[i] = g[i] /\ i + 1 # 1 /\ (i + 1) - 1 = i
      BY <1>3, <2>2
    <3>2. f[i + 1] = f[(i + 1) - 1] \o s[i + 1] /\ g[i + 1] = g[(i + 1) - 1] \o t[i + 1]
      BY <1>1, <3>1
    <3> QED  BY <3>1, <3>2
  <2> QED  BY <2>1, <2>2
<1>4. Agreed = Nat
  <2> HIDE DEF Agreed
  <2>1. Agreed \in SUBSET Nat
    BY DEF Agreed
  <2> QED  BY <1>2, <1>3, <2>1, SetInduction
<1> QED  BY <1>4

\* Nothing flattens to nothing.
LEMMA FlattenEmpty == FlattenSeq(<< >>) = << >>
  BY DEF FlattenSeq

\* One more sequence is appended to what the others flatten to.
LEMMA FlattenAppend ==
  ASSUME NEW T, NEW seqs \in Seq(Seq(T)), NEW x \in Seq(T)
  PROVE  FlattenSeq(Append(seqs, x)) = FlattenSeq(seqs) \o x
<1> DEFINE n == Len(seqs)
           t == Append(seqs, x)
<1>1. n \in Nat /\ t \in Seq(Seq(T)) /\ Len(t) = n + 1 /\ t[n + 1] = x
      /\ \A i \in 1 .. n : seqs[i] = t[i]
  OBVIOUS
<1> HIDE DEF t
<1>2. PICK g : Steps(g, t, n + 1) /\ FlattenSeq(t) = g[n + 1]
  BY <1>1, FlattenSteps
<1>3. \A i \in 1 .. n + 1 : g[i] = IF i = 1 THEN t[i] ELSE g[i - 1] \o t[i]
  BY <1>2 DEF Steps
<1>4. CASE n = 0
  <2>1. seqs = << >>
    BY <1>4, EmptySeq
  <2>2. g[1] = x
    BY <1>1, <1>3, <1>4
  <2>3. << >> \o x = x
    BY ConcatEmptySeq
  <2> QED  BY <1>2, <1>4, <2>1, <2>2, <2>3, FlattenEmpty DEF t
<1>5. CASE n # 0
  <2>1. PICK f : Steps(f, seqs, n) /\ FlattenSeq(seqs) = f[n]
    BY <1>5, FlattenSteps
  <2>2. \A i \in 1 .. n : f[i] = g[i]
    <3> HIDE DEF n
    <3>1. n \in Nat /\ n <= n + 1 /\ n + 1 \in Nat /\ \A i \in 1 .. n : seqs[i] = t[i]
      BY <1>1
    <3>2. Steps(f, seqs, n) /\ Steps(g, t, n + 1)
      BY <1>2, <2>1
    <3> QED  BY <3>1, <3>2, StepsAgree
  <2>3. f[n] = g[n]
    BY <1>1, <1>5, <2>2
  <2>4. g[n + 1] = g[n] \o x
    <3>1. n + 1 \in 1 .. n + 1 /\ n + 1 # 1 /\ (n + 1) - 1 = n
      BY <1>1, <1>5
    <3>2. g[n + 1] = g[(n + 1) - 1] \o t[n + 1]
      BY <1>3, <3>1
    <3> QED  BY <1>1, <3>1, <3>2
  <2> QED  BY <1>2, <2>1, <2>3, <2>4 DEF t
<1> QED  BY <1>4, <1>5

\* Sequences over T flatten to a sequence over T.
LEMMA FlattenType ==
  ASSUME NEW T, NEW seqs \in Seq(Seq(T))
  PROVE  FlattenSeq(seqs) \in Seq(T)
<1>1. CASE Len(seqs) = 0
  BY <1>1, EmptySeq, FlattenEmpty
<1>2. CASE Len(seqs) # 0
  <2> DEFINE n == Len(seqs)
  <2>1. PICK f : Steps(f, seqs, n) /\ FlattenSeq(seqs) = f[n]
    BY <1>2, FlattenSteps
  <2>2. PICK g \in [1 .. n -> Seq(T)] : Steps(g, seqs, n)
    BY StepsExist
  <2>3. f[n] = g[n]
    <3>1. n \in 1 .. n /\ n \in Nat
      BY <1>2
    <3> HIDE DEF n
    <3>2. n <= n
      BY <3>1
    <3> QED  BY <2>1, <2>2, <3>1, <3>2, StepsAgree
  <2>4. n \in 1 .. n
    BY <1>2
  <2> QED  BY <2>1, <2>2, <2>3, <2>4
<1> QED  BY <1>1, <1>2

-----------------------------------------------------------------------------
(* Iteration.                                                              *)

\* f is made of base by n steps of h.
Iterated(f, base, n, h) ==
  f = [k \in 0 .. n |-> IF k = 0 THEN base ELSE h[<<k, f[k - 1]>>]]

\* There is such a function, and all its values are where h has its values.
LEMMA IterationExists ==
  ASSUME NEW V, NEW base \in V, NEW n \in Nat, NEW h \in [(1 .. n) \X V -> V]
  PROVE  \E f \in [0 .. n -> V] : Iterated(f, base, n, h)
<1> DEFINE Made(f, m) == /\ f \in [0 .. m -> V]
                         /\ f[0] = base
                         /\ \A k \in 1 .. m : f[k] = h[<<k, f[k - 1]>>]
           Reached == {m \in Nat : m <= n => \E f : Made(f, m)}
<1>1. 0 \in Reached
  <2> DEFINE f == [k \in 0 .. 0 |-> base]
  <2>1. Made(f, 0)
    OBVIOUS
  <2> QED  BY <2>1
<1>2. ASSUME NEW m \in Reached
      PROVE  m + 1 \in Reached
  <2>0. m \in Nat
    OBVIOUS
  <2> SUFFICES ASSUME m + 1 <= n
               PROVE  \E f : Made(f, m + 1)
    BY <2>0
  <2>1. PICK g : Made(g, m)
    BY <1>2, <2>0
  <2> DEFINE f == [k \in 0 .. m + 1 |-> IF k = m + 1 THEN h[<<m + 1, g[m]>>] ELSE g[k]]
  <2>2. h[<<m + 1, g[m]>>] \in V
    BY <2>0, <2>1
  <2>3. f \in [0 .. m + 1 -> V] /\ f[0] = base
    BY <2>0, <2>1, <2>2
  <2>4. ASSUME NEW k \in 1 .. m + 1
        PROVE  f[k] = h[<<k, f[k - 1]>>]
    <3>1. f[k - 1] = g[k - 1]
      BY <2>0
    <3>2. CASE k = m + 1
      <4>1. k - 1 = m /\ f[k] = h[<<m + 1, g[m]>>]
        BY <2>0, <3>2
      <4> HIDE DEF f
      <4>2. f[k - 1] = g[m]
        BY <3>1, <4>1
      <4> QED  BY <3>2, <4>1, <4>2
    <3>3. CASE k # m + 1
      <4>1. k \in 1 .. m /\ k \in 0 .. m + 1
        BY <2>0, <3>3
      <4>2. g[k] = h[<<k, g[k - 1]>>]
        BY <2>1, <4>1
      <4>3. f[k] = g[k]
        BY <3>3, <4>1
      <4> QED  BY <3>1, <4>2, <4>3
    <3> QED  BY <3>2, <3>3
  <2> HIDE DEF f
  <2>5. Made(f, m + 1)
    BY <2>3, <2>4
  <2> QED  BY <2>5
<1>3. Reached = Nat
  <2> HIDE DEF Reached
  <2>1. Reached \in SUBSET Nat
    BY DEF Reached
  <2> QED  BY <1>1, <1>2, <2>1, SetInduction
<1>4. PICK f : Made(f, n)
  BY <1>3
<1>5. Iterated(f, base, n, h)
  <2>1. f = [k \in 0 .. n |-> f[k]]
    BY <1>4
  <2>2. \A k \in 0 .. n : f[k] = IF k = 0 THEN base ELSE h[<<k, f[k - 1]>>]
    BY <1>4
  <2> HIDE DEF Made
  <2> QED  BY <2>1, <2>2, Zenon DEF Iterated
<1> QED  BY <1>4, <1>5

\* A function that is made by the same steps where it is known has the same
\* values.
LEMMA IterationAgrees ==
  ASSUME NEW V, NEW base, NEW n \in Nat, NEW h, NEW f \in [0 .. n -> V], Iterated(f, base, n, h),
         NEW g, g[0] = base, \A k \in 1 .. n : \A v \in V : g[k - 1] = v => g[k] = h[<<k, v>>]
  PROVE  \A k \in 0 .. n : g[k] = f[k]
<1> DEFINE Same == {k \in Nat : k <= n => g[k] = f[k]}
<1>1. 0 \in Same
  BY DEF Iterated
<1>2. ASSUME NEW k \in Same
      PROVE  k + 1 \in Same
  <2> SUFFICES ASSUME k + 1 <= n
               PROVE  g[k + 1] = f[k + 1]
    OBVIOUS
  <2>1. k \in Nat /\ g[k] = f[k] /\ k + 1 \in 1 .. n /\ k + 1 \in 0 .. n
        /\ (k + 1) - 1 = k /\ k + 1 # 0 /\ k \in 0 .. n
    OBVIOUS
  <2>2. f[k] \in V
    BY <2>1
  <2>3. g[k + 1] = h[<<k + 1, f[k]>>]
    BY <2>1, <2>2
  <2>4. f[k + 1] = h[<<k + 1, f[k]>>]
    BY <2>1 DEF Iterated
  <2> QED  BY <2>3, <2>4
<1>3. Same = Nat
  <2> HIDE DEF Same
  <2>1. Same \in SUBSET Nat
    BY DEF Same
  <2> QED  BY <1>1, <1>2, <2>1, SetInduction
<1> QED  BY <1>3

\* What an induction over the last element shows of all sequences over T.
LEMMA AppendInduction ==
  ASSUME NEW T, NEW P \in SUBSET Seq(T), << >> \in P,
         \A s \in P : \A x \in T : Append(s, x) \in P
  PROVE  P = Seq(T)
<1> DEFINE Reached == {n \in Nat : \A s \in Seq(T) : Len(s) = n => s \in P}
<1>1. 0 \in Reached
  <2>1. \A s \in Seq(T) : Len(s) = 0 => s = << >>
    BY EmptySeq
  <2> QED  BY <2>1
<1>2. ASSUME NEW n \in Reached
      PROVE  n + 1 \in Reached
  <2>1. ASSUME NEW s \in Seq(T), Len(s) = n + 1
        PROVE  s \in P
    <3>1. n \in Nat /\ s # << >>
      BY <2>1
    <3>2. PICK u \in Seq(T), x \in T : s = Append(u, x)
      BY <3>1, SequenceEmptyOrAppend
    <3>3. Len(u) = n
      BY <2>1, <3>1, <3>2
    <3>4. u \in P
      BY <3>3
    <3> QED  BY <3>2, <3>4
  <2> QED  BY <2>1
<1>3. Reached = Nat
  <2> HIDE DEF Reached
  <2>1. Reached \in SUBSET Nat
    BY DEF Reached
  <2> QED  BY <1>1, <1>2, <2>1, SetInduction
<1>4. \A s \in Seq(T) : Len(s) \in Nat
  OBVIOUS
<1>5. \A s \in Seq(T) : s \in P
  BY <1>3, <1>4
<1> QED  BY <1>5

\* What has a length is not empty.
LEMMA NotEmpty ==
  ASSUME NEW s, Len(s) # 0
  PROVE  s # << >>
<1>1. Len(<< >>) = 0
  OBVIOUS
<1> QED  BY <1>1

\* Appending goes with concatenation.
LEMMA ConcatAppend ==
  \A T : \A a, b \in Seq(T), x \in T : a \o Append(b, x) = Append(a \o b, x)
  OBVIOUS

\* One sequence flattens to itself.
LEMMA FlattenOne ==
  ASSUME NEW T, NEW x \in Seq(T)
  PROVE  FlattenSeq(<<x>>) = x
<1>1. << >> \in Seq(Seq(T)) /\ Append(<< >>, x) = <<x>>
  OBVIOUS
<1>2. FlattenSeq(Append(<< >>, x)) = FlattenSeq(<< >>) \o x
  BY <1>1, FlattenAppend
<1> QED  BY <1>1, <1>2, FlattenEmpty, ConcatEmptySeq

\* Two sequences of sequences, one behind the other, flatten to the one behind
\* the other.
LEMMA FlattenConcat ==
  ASSUME NEW T, NEW s \in Seq(Seq(T)), NEW t \in Seq(Seq(T))
  PROVE  FlattenSeq(s \o t) = FlattenSeq(s) \o FlattenSeq(t)
<1> DEFINE P == {u \in Seq(Seq(T)) : FlattenSeq(s \o u) = FlattenSeq(s) \o FlattenSeq(u)}
<1>1. << >> \in P
  <2>1. FlattenSeq(s) \in Seq(T) /\ s \o << >> = s
    BY FlattenType, ConcatEmptySeq
  <2> QED  BY <2>1, FlattenEmpty, ConcatEmptySeq
<1>2. ASSUME NEW u \in P, NEW x \in Seq(T)
      PROVE  Append(u, x) \in P
  <2>1. u \in Seq(Seq(T)) /\ s \o u \in Seq(Seq(T)) /\ Append(u, x) \in Seq(Seq(T))
    BY ConcatProperties
  <2>2. FlattenSeq(s) \in Seq(T) /\ FlattenSeq(u) \in Seq(T)
    BY <2>1, FlattenType
  <2>3. s \o Append(u, x) = Append(s \o u, x)
    BY <2>1, ConcatAppend
  <2>4. FlattenSeq(Append(s \o u, x)) = FlattenSeq(s \o u) \o x
    BY <2>1, FlattenAppend
  <2>5. FlattenSeq(Append(u, x)) = FlattenSeq(u) \o x
    BY <2>1, FlattenAppend
  <2>6. (FlattenSeq(s) \o FlattenSeq(u)) \o x = FlattenSeq(s) \o (FlattenSeq(u) \o x)
    <3>1. FlattenSeq(s) \in Seq(T)
      BY <2>2
    <3>2. FlattenSeq(u) \in Seq(T)
      BY <2>2
    <3> HIDE DEF P
    <3> QED  BY <3>1, <3>2, SMT
  <2> QED  BY <2>1, <2>3, <2>4, <2>5, <2>6
<1>3. P = Seq(Seq(T))
  <2> HIDE DEF P
  <2>1. P \in SUBSET Seq(Seq(T))
    BY DEF P
  <2> QED  BY <1>1, <1>2, <2>1, AppendInduction
<1> QED  BY <1>3

\* The first of them comes first.
LEMMA FlattenFirst ==
  ASSUME NEW T, NEW s \in Seq(Seq(T)), s # << >>
  PROVE  FlattenSeq(s) = s[1] \o FlattenSeq(Tail(s))
<1>1. s[1] \in Seq(T) /\ <<s[1]>> \in Seq(Seq(T)) /\ Tail(s) \in Seq(Seq(T))
  OBVIOUS
<1>2. s = <<s[1]>> \o Tail(s)
  OBVIOUS
<1>3. FlattenSeq(<<s[1]>>) = s[1]
  BY <1>1, FlattenOne
<1>4. FlattenSeq(<<s[1]>> \o Tail(s)) = FlattenSeq(<<s[1]>>) \o FlattenSeq(Tail(s))
  BY <1>1, FlattenConcat
<1> HIDE DEF FlattenSeq
<1> QED  BY <1>2, <1>3, <1>4

\* None of them is longer than what they flatten to, and neither are they many
\* if none is empty.
LEMMA FlattenLength ==
  ASSUME NEW T, NEW s \in Seq(Seq(T))
  PROVE  /\ \A i \in 1 .. Len(s) : Len(s[i]) <= Len(FlattenSeq(s))
         /\ (\A i \in 1 .. Len(s) : s[i] # << >>) => Len(s) <= Len(FlattenSeq(s))
<1> DEFINE Bounded(u) ==
             /\ \A i \in 1 .. Len(u) : Len(u[i]) <= Len(FlattenSeq(u))
             /\ (\A i \in 1 .. Len(u) : u[i] # << >>) => Len(u) <= Len(FlattenSeq(u))
           P == {u \in Seq(Seq(T)) : Bounded(u)}
<1>1. << >> \in P
  <2>1. Len(<< >>) = 0 /\ << >> \in Seq(Seq(T))
    BY EmptySeq
  <2> QED  BY <2>1, FlattenEmpty
<1>2. ASSUME NEW u \in P, NEW x \in Seq(T)
      PROVE  Append(u, x) \in P
  <2> DEFINE v == Append(u, x)
  <2>1. u \in Seq(Seq(T)) /\ v \in Seq(Seq(T)) /\ Len(v) = Len(u) + 1 /\ Len(u) \in Nat
        /\ v[Len(u) + 1] = x /\ \A i \in 1 .. Len(u) : v[i] = u[i]
    OBVIOUS
  <2>2. FlattenSeq(u) \in Seq(T) /\ FlattenSeq(v) = FlattenSeq(u) \o x
    BY <2>1, FlattenType, FlattenAppend
  <2>3. Len(FlattenSeq(v)) = Len(FlattenSeq(u)) + Len(x) /\ Len(x) \in Nat
        /\ Len(FlattenSeq(u)) \in Nat /\ (x # << >> => Len(x) # 0)
    BY <2>2, ConcatProperties, EmptySeq
  <2>4. Bounded(u)
    OBVIOUS
  <2> HIDE DEF v
  <2>5. ASSUME NEW i \in 1 .. Len(v)
        PROVE  Len(v[i]) <= Len(FlattenSeq(v))
    <3>1. CASE i = Len(u) + 1
      BY <2>1, <2>3, <3>1
    <3>2. CASE i # Len(u) + 1
      <4>1. i \in 1 .. Len(u)
        BY <2>1, <3>2
      <4>2. Len(u[i]) <= Len(FlattenSeq(u)) /\ Len(u[i]) \in Nat /\ v[i] = u[i]
        BY <2>1, <2>4, <4>1
      <4> QED  BY <2>3, <4>2
    <3> QED  BY <3>1, <3>2
  <2>6. ASSUME \A i \in 1 .. Len(v) : v[i] # << >>
        PROVE  Len(v) <= Len(FlattenSeq(v))
    <3>1. \A i \in 1 .. Len(u) : u[i] # << >>
      BY <2>1, <2>6
    <3>2. Len(u) <= Len(FlattenSeq(u))
      BY <2>4, <3>1
    <3>3. x # << >>
      BY <2>1, <2>6
    <3> QED  BY <2>1, <2>3, <3>2, <3>3
  <2>7. Bounded(v) /\ v \in Seq(Seq(T))
    BY <2>1, <2>5, <2>6
  <2> QED  BY <2>7 DEF v
<1>3. P = Seq(Seq(T))
  <2> HIDE DEF P
  <2>1. P \in SUBSET Seq(Seq(T))
    BY DEF P
  <2> QED  BY <1>1, <1>2, <2>1, AppendInduction
<1> QED  BY <1>3

\* The elements of two sequences, one behind the other.
LEMMA ConcatParts ==
  ASSUME NEW T, NEW s \in Seq(T), NEW t \in Seq(T)
  PROVE  /\ s \o t \in Seq(T) /\ Len(s \o t) = Len(s) + Len(t)
         /\ Len(s) \in Nat /\ Len(t) \in Nat
         /\ \A i \in 1 .. Len(s) : (s \o t)[i] = s[i]
         /\ \A i \in 1 .. Len(t) : (s \o t)[Len(s) + i] = t[i]
  OBVIOUS

\* What stands between two parts of a sequence.
LEMMA Between ==
  ASSUME NEW T, NEW a \in Seq(T), NEW m \in Seq(T), NEW t \in Seq(T)
  PROVE  SubSeq((a \o m) \o t, Len(a) + 1, Len(a) + Len(m)) = m
<1> DEFINE b == (a \o m) \o t
           c == SubSeq(b, Len(a) + 1, Len(a) + Len(m))
<1>1. Len(a) \in Nat /\ Len(m) \in Nat /\ Len(t) \in Nat
  OBVIOUS
<1>2. b \in Seq(T) /\ Len(b) = Len(a) + Len(m) + Len(t)
  OBVIOUS
<1>3. \A i \in 1 .. Len(m) : b[Len(a) + i] = m[i]
  OBVIOUS
<1> HIDE DEF b
<1>4. \A i \in Len(a) + 1 .. Len(a) + Len(m) : b[i] \in T
  BY <1>1, <1>2
<1>5. c \in Seq(T) /\ Len(c) = Len(m) /\ \A i \in 1 .. Len(m) : c[i] = b[Len(a) + i]
  <2>1. Len(a) + 1 \in Int /\ Len(a) + Len(m) \in Int
    BY <1>1
  <2>2. /\ c \in Seq(T)
        /\ Len(c) = IF Len(a) + 1 <= Len(a) + Len(m) THEN (Len(a) + Len(m)) - (Len(a) + 1) + 1 ELSE 0
        /\ \A i \in 1 .. (Len(a) + Len(m)) - (Len(a) + 1) + 1 : c[i] = b[(Len(a) + 1) + i - 1]
    BY <1>4, <2>1, SubSeqProperties
  <2>3. \A i \in 1 .. Len(m) : /\ i \in 1 .. (Len(a) + Len(m)) - (Len(a) + 1) + 1
                               /\ (Len(a) + 1) + i - 1 = Len(a) + i
    BY <1>1
  <2>4. Len(c) = Len(m)
    BY <1>1, <2>2
  <2> HIDE DEF c
  <2> QED  BY <2>2, <2>3, <2>4
<1> HIDE DEF c
<1>6. c = m
  BY <1>3, <1>5, SeqEqual
<1> QED  BY <1>6 DEF c, b

\* The head, what stands behind, and a part of the head.
LEMMA CutHead ==
  ASSUME NEW T, NEW h \in Seq(T), NEW d \in Seq(T), NEW t \in Seq(T)
  PROVE  SubSeq((h \o d) \o t, 1, Len(h)) = h
<1> DEFINE e == << >>
<1>1. e \in Seq(T) /\ Len(e) = 0 /\ d \o t \in Seq(T) /\ Len(h) \in Nat
  OBVIOUS
<1>2. (h \o d) \o t = (e \o h) \o (d \o t)
  OBVIOUS
<1> HIDE DEF e
<1>3. SubSeq((e \o h) \o (d \o t), Len(e) + 1, Len(e) + Len(h)) = h
  BY <1>1, Between
<1>4. Len(e) + 1 = 1 /\ Len(e) + Len(h) = Len(h)
  BY <1>1
<1> QED  BY <1>2, <1>3, <1>4

\* What stands behind two parts of a sequence.
LEMMA CutTail ==
  ASSUME NEW T, NEW h \in Seq(T), NEW d \in Seq(T), NEW t \in Seq(T)
  PROVE  SubSeq((h \o d) \o t, Len(h) + Len(d) + 1, Len((h \o d) \o t)) = t
<1> DEFINE e == << >>
<1>1. e \in Seq(T) /\ h \o d \in Seq(T) /\ (h \o d) \o t \in Seq(T)
  OBVIOUS
<1>2. Len(h) \in Nat /\ Len(d) \in Nat /\ Len(t) \in Nat /\ Len(h \o d) = Len(h) + Len(d)
      /\ Len((h \o d) \o t) = Len(h) + Len(d) + Len(t)
  OBVIOUS
<1>3. (h \o d) \o t = ((h \o d) \o t) \o e
  OBVIOUS
<1> HIDE DEF e
<1>4. SubSeq(((h \o d) \o t) \o e, Len(h \o d) + 1, Len(h \o d) + Len(t)) = t
  BY <1>1, Between
<1>5. Len(h \o d) + Len(t) = Len((h \o d) \o t) /\ Len(h \o d) + 1 = Len(h) + Len(d) + 1
  BY <1>2
<1> QED  BY <1>3, <1>4, <1>5

\* What stands behind the first of four parts.
LEMMA CutInside ==
  ASSUME NEW T, NEW f \in Seq(T), NEW b \in Seq(T), NEW d \in Seq(T), NEW t \in Seq(T)
  PROVE  SubSeq(((f \o b) \o d) \o t, Len(f) + 1, Len(f) + Len(b)) = b
<1>1. d \o t \in Seq(T)
  OBVIOUS
<1>2. ((f \o b) \o d) \o t = (f \o b) \o (d \o t)
  OBVIOUS
<1>3. SubSeq((f \o b) \o (d \o t), Len(f) + 1, Len(f) + Len(b)) = b
  BY <1>1, Between
<1> QED  BY <1>2, <1>3

\* A sequence of one element in front of another.
LEMMA OneInFront ==
  ASSUME NEW T, NEW d \in Seq(T), NEW t \in Seq(T)
  PROVE  Len(d) = 1 => /\ d = <<d[1]>>
                       /\ (d \o t)[1] = d[1]
                       /\ Tail(d \o t) = t
<1> DEFINE b == d \o t
<1>0. b \in Seq(T) /\ Len(b) = Len(d) + Len(t) /\ Len(t) \in Nat /\ Len(d) \in Nat
      /\ (\A i \in 1 .. Len(d) : b[i] = d[i])
      /\ (\A i \in 1 .. Len(t) : b[Len(d) + i] = t[i])
  BY ConcatParts
<1> SUFFICES ASSUME Len(d) = 1
             PROVE  d = <<d[1]>> /\ b[1] = d[1] /\ Tail(b) = t
  OBVIOUS
<1>1. b \in Seq(T) /\ Len(b) = 1 + Len(t) /\ Len(t) \in Nat /\ b[1] = d[1]
      /\ \A i \in 1 .. Len(t) : b[i + 1] = t[i]
  <2> HIDE DEF b
  <2>2. \A i \in 1 .. Len(t) : Len(d) + i = i + 1
    BY <1>0
  <2> QED  BY <1>0, <2>2
<1>2. d[1] \in T
  OBVIOUS
<1>3. <<d[1]>> \in Seq(T) /\ Len(<<d[1]>>) = 1 /\ <<d[1]>>[1] = d[1]
  BY <1>2
<1>4. d = <<d[1]>>
  <2> DEFINE e == <<d[1]>>
  <2>1. e \in Seq(T) /\ Len(d) = Len(e) /\ \A i \in 1 .. Len(d) : d[i] = e[i]
    BY <1>3
  <2> HIDE DEF e
  <2>2. d = e
    BY <2>1, SeqEqual
  <2> QED  BY <2>2 DEF e
<1> HIDE DEF b
<1>5. b # << >>
  BY <1>1
<1>6. Tail(b) \in Seq(T) /\ Len(Tail(b)) = Len(t)
      /\ \A i \in 1 .. Len(Tail(b)) : Tail(b)[i] = b[i + 1]
  BY <1>1, <1>5, HeadTailProperties
<1>7. Tail(b) = t
  BY <1>1, <1>6, SeqEqual
<1> QED  BY <1>1, <1>4, <1>7 DEF b

\* The first item that is left.
LEMMA SuffixFirst ==
  ASSUME NEW T, NEW e \in Seq(Seq(T)), NEW k \in 1 .. Len(e)
  PROVE  FlattenSeq(SubSeq(e, k, Len(e))) = e[k] \o FlattenSeq(SubSeq(e, k + 1, Len(e)))
<1> DEFINE s == SubSeq(e, k, Len(e))
<1>1. Len(e) \in Nat /\ k \in Nat /\ Len(e) \in k .. Len(e)
  OBVIOUS
<1>2. Head(s) = e[k] /\ Tail(s) = SubSeq(e, k + 1, Len(e))
  BY <1>1, HeadTailOfSubSeq
<1>3. s \in Seq(Seq(T)) /\ Len(s) = Len(e) - k + 1
  <2>1. \A i \in k .. Len(e) : e[i] \in Seq(T)
    BY <1>1
  <2>2. k \in Int /\ Len(e) \in Int
    BY <1>1
  <2>3. s \in Seq(Seq(T)) /\ Len(s) = IF k <= Len(e) THEN Len(e) - k + 1 ELSE 0
    BY <2>1, <2>2, SubSeqProperties
  <2> QED  BY <1>1, <2>3
<1>4. s # << >>
  <2>1. Len(s) # 0
    BY <1>1, <1>3
  <2> QED  BY <2>1, NotEmpty
<1> HIDE DEF s
<1>5. FlattenSeq(s) = s[1] \o FlattenSeq(Tail(s))
  BY <1>3, <1>4, FlattenFirst
<1>6. s[1] = Head(s)
  BY <1>3, <1>4
<1> QED  BY <1>2, <1>5, <1>6 DEF s

\* One more element, as a function.
LEMMA AppendIs ==
  ASSUME NEW T, NEW s \in Seq(T), NEW x \in T
  PROVE  Append(s, x) = [i \in 1 .. Len(s) + 1 |-> IF i = Len(s) + 1 THEN x ELSE s[i]]
<1> DEFINE a == Append(s, x)
           n == Len(s)
<1>1. /\ n \in Nat /\ a \in Seq(T) /\ Len(a) = n + 1 /\ a[n + 1] = x
      /\ \A i \in 1 .. n : a[i] = s[i]
  OBVIOUS
<1> HIDE DEF a, n
<1>2. a = [i \in 1 .. n + 1 |-> a[i]]
  BY <1>1
<1>3. \A i \in 1 .. n + 1 : a[i] = IF i = n + 1 THEN x ELSE s[i]
  BY <1>1
<1>4. a = [i \in 1 .. n + 1 |-> IF i = n + 1 THEN x ELSE s[i]]
  BY <1>2, <1>3
<1> QED  BY <1>4 DEF a, n

\* A function on 1 .. n is a sequence.
LEMMA MadeSequence ==
  ASSUME NEW T, NEW n \in Nat, NEW s \in [1 .. n -> T]
  PROVE  s \in Seq(T) /\ Len(s) = n
  OBVIOUS

\* Sequences of one element each flatten to the sequence of those elements.
LEMMA FlattenSingles ==
  ASSUME NEW T, NEW s \in Seq(T)
  PROVE  FlattenSeq([i \in DOMAIN s |-> <<s[i]>>]) = s
<1> DEFINE Singles(u) == [i \in DOMAIN u |-> <<u[i]>>]
           P == {u \in Seq(T) : FlattenSeq(Singles(u)) = u}
<1>1. << >> \in P
  <2>1. Singles(<< >>) = << >> /\ << >> \in Seq(T)
    OBVIOUS
  <2> QED  BY <2>1, FlattenEmpty
<1>2. ASSUME NEW u \in P, NEW x \in T
      PROVE  Append(u, x) \in P
  <2>1. u \in Seq(T) /\ Append(u, x) \in Seq(T) /\ <<x>> \in Seq(T) /\ u \o <<x>> = Append(u, x)
    OBVIOUS
  <2>2. Singles(u) \in Seq(Seq(T))
    <3> DEFINE f == Singles(u)
               n == Len(u)
    <3>1. n \in Nat /\ DOMAIN u = 1 .. n /\ \A i \in 1 .. n : u[i] \in T /\ <<u[i]>> \in Seq(T)
      BY <2>1
    <3>2. f \in [1 .. n -> Seq(T)]
      BY <3>1
    <3> HIDE DEF f, n
    <3> QED  BY <3>1, <3>2, MadeSequence DEF f
  <2>3. Singles(Append(u, x)) = Append(Singles(u), <<x>>)
    BY <2>1
  <2> DEFINE v == Singles(u)
             y == <<x>>
  <2>4. v \in Seq(Seq(T)) /\ y \in Seq(T)
    BY <2>1, <2>2
  <2>5. FlattenSeq(v) = u
    OBVIOUS
  <2> HIDE DEF v, y, FlattenSeq
  <2>6. FlattenSeq(Append(v, y)) = FlattenSeq(v) \o y
    BY <2>4, FlattenAppend
  <2> QED  BY <2>1, <2>3, <2>5, <2>6 DEF v, y
<1> HIDE DEF P
<1>3. P = Seq(T)
  <2>1. P \in SUBSET Seq(T)
    BY DEF P
  <2> QED  BY <1>1, <1>2, <2>1, AppendInduction
<1> QED  BY <1>3 DEF P

\* Two elements are one behind one.
LEMMA TwoOnes ==
  ASSUME NEW T, NEW y \in T, NEW z \in T
  PROVE  <<y, z>> = <<y>> \o <<z>>
<1> DEFINE one == <<y>>
           none == << >>
<1>1. one \in Seq(T) /\ none \in Seq(T)
  OBVIOUS
<1>2. <<y, z>> = Append(one, z) /\ <<z>> = Append(none, z)
  OBVIOUS
<1>3. one \o none = one
  BY <1>1, ConcatEmptySeq
<1> HIDE DEF one, none
<1>4. one \o Append(none, z) = Append(one \o none, z)
  BY <1>1, ConcatAppend
<1>5. <<y, z>> = one \o <<z>>
  BY <1>2, <1>3, <1>4
<1> QED  BY <1>5 DEF one
=============================================================================
