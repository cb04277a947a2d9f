----------------------------- MODULE SetInduction -----------------------------
(***************************************************************************)
(* Induction over the naturals, with the set of the values a fact holds of *)
(* in place of a predicate: in this form a prover can use it.  Proofs      *)
(* about recursive functions rest on these lemmas.  With them, powers of   *)
(* two and remainders, which words of memory are made of, and sequences by *)
(* their elements.                                                         *)
(***************************************************************************)
EXTENDS Integers, FiniteSets, FiniteSetTheorems, WellFoundedInduction, SequenceTheorems, TLAPS

\* A set with 0 that is closed under successor has every natural number.
LEMMA NatSetInduction ==
  ASSUME NEW S, 0 \in S, \A n \in Nat : n \in S => n + 1 \in S
  PROVE  Nat \subseteq S
<1> DEFINE R == {ss \in Nat \X Nat : ss[1] < ss[2]}
           T == {n \in Nat : n \notin S}
<1>1. SUFFICES ASSUME T # {} PROVE FALSE
  OBVIOUS
<1>2. IsWellFoundedOn(R, Nat)
  BY NatLessThanWellFounded DEF OpToRel
<1>3. PICK x \in T : \A y \in T : ~ (<<y, x>> \in R)
  <2> HIDE DEF R
  <2>1. T \subseteq Nat
    OBVIOUS
  <2> QED BY <1>1, <1>2, <2>1, WFMin
<1>4. \A y \in T : ~(y < x)
  BY <1>3
<1>5. x # 0 /\ x - 1 \in Nat
  OBVIOUS
<1>6. x - 1 \in S
  BY <1>4, <1>5
<1> QED BY <1>5, <1>6

\* The same when a number follows as soon as all smaller ones are there.
LEMMA StrongSetInduction ==
  ASSUME NEW S, \A n \in Nat : (\A m \in 0 .. n - 1 : m \in S) => n \in S
  PROVE  Nat \subseteq S
<1> DEFINE T == {n \in Nat : \A m \in 0 .. n - 1 : m \in S}
<1>1. 0 \in T
  OBVIOUS
<1>2. ASSUME NEW n \in Nat, n \in T PROVE n + 1 \in T
  <2>1. n \in S
    BY <1>2
  <2> QED BY <1>2, <2>1
<1> HIDE DEF T
<1>3. Nat \subseteq T
  BY <1>1, <1>2, NatSetInduction
<1> QED BY <1>3 DEF T

\* A power of two is a positive number, and even beyond the first.
LEMMA PowerOfTwo ==
  ASSUME NEW n \in Nat
  PROVE  2 ^ n \in Nat \ {0} /\ 2 ^ (n + 1) = 2 * 2 ^ n
<1> DEFINE A == SUBSET (1 .. n)
           B == {s \in SUBSET (1 .. n + 1) : n + 1 \in s}
<1>1. IsFiniteSet(A) /\ Cardinality(A) = 2 ^ n
  <2>1. IsFiniteSet(1 .. n) /\ Cardinality(1 .. n) = n
    <3>1. Cardinality(1 .. n) = IF 1 > n THEN 0 ELSE n - 1 + 1
      BY FS_Interval
    <3> QED BY <3>1, FS_Interval
  <2> QED BY <2>1, FS_SUBSET
<1>2. IsFiniteSet(SUBSET (1 .. n + 1)) /\ Cardinality(SUBSET (1 .. n + 1)) = 2 ^ (n + 1)
  <2>1. IsFiniteSet(1 .. n + 1) /\ Cardinality(1 .. n + 1) = n + 1
    <3>1. IsFiniteSet(1 .. n + 1) /\ Cardinality(1 .. n + 1) = IF 1 > n + 1 THEN 0 ELSE n + 1 - 1 + 1
      BY FS_Interval, n + 1 \in Int
    <3> QED BY <3>1
  <2> QED BY <2>1, FS_SUBSET
<1>3. IsFiniteSet(B) /\ Cardinality(B) = Cardinality(A)
  <2> DEFINE f == [s \in A |-> s \cup {n + 1}]
  <2>1. f \in [A -> B]
    OBVIOUS
  <2>2. \A s, t \in A : f[s] = f[t] => s = t
    <3>1. SUFFICES ASSUME NEW s \in A, NEW t \in A, s \cup {n + 1} = t \cup {n + 1} PROVE s = t
      OBVIOUS
    <3>2. n + 1 \notin s /\ n + 1 \notin t
      OBVIOUS
    <3>3. \A x : x \in s <=> x \in t
      <4>1. SUFFICES ASSUME NEW x PROVE x \in s <=> x \in t
        OBVIOUS
      <4>2. x \in s \cup {n + 1} <=> x \in t \cup {n + 1}
        BY <3>1
      <4> QED BY <3>2, <4>2
    <3> QED BY <3>3
  <2>3. \A t \in B : \E s \in A : f[s] = t
    <3>1. SUFFICES ASSUME NEW t \in B PROVE \E s \in A : f[s] = t
      OBVIOUS
    <3>2. t \ {n + 1} \in A
      <4>1. \A x \in t : x \in 1 .. n + 1
        OBVIOUS
      <4> QED BY <4>1
    <3>3. (t \ {n + 1}) \cup {n + 1} = t
      OBVIOUS
    <3> QED BY <3>2, <3>3
  <2>4. f \in Bijection(A, B)
    <3>1. DOMAIN f = A
      OBVIOUS
    <3> HIDE DEF f, A, B
    <3>2. IsInjective(f)
      BY <2>2, <3>1 DEF IsInjective
    <3> QED BY <2>1, <2>3, <3>2 DEF Bijection, Injection, Surjection
  <2>5. ExistsBijection(A, B)
    BY <2>4 DEF ExistsBijection
  <2> HIDE DEF A, B
  <2> QED BY <1>1, <2>5, FS_Bijection
<1>4. A \cup B = SUBSET (1 .. n + 1) /\ A \cap B = {}
  <2>1. \A s \in SUBSET (1 .. n + 1) : n + 1 \notin s => s \in A
    <3>1. SUFFICES ASSUME NEW s \in SUBSET (1 .. n + 1), n + 1 \notin s, NEW x \in s PROVE x \in 1 .. n
      OBVIOUS
    <3>2. x \in 1 .. n + 1 /\ x # n + 1
      BY <3>1
    <3> QED BY <3>2
  <2>2. \A s \in A : s \in SUBSET (1 .. n + 1) /\ n + 1 \notin s
    OBVIOUS
  <2> QED BY <2>1, <2>2
<1> HIDE DEF A, B
<1>5. Cardinality(A \cup B) = Cardinality(A) + Cardinality(B) - Cardinality(A \cap B)
  BY <1>1, <1>3, FS_Union
<1>6. Cardinality({}) = 0 /\ Cardinality(A) \in Nat
  BY <1>1, FS_EmptySet, FS_CardinalityType
<1>7. {} \in A /\ Cardinality(A) # 0
  <2>1. {} \in A
    BY DEF A
  <2> QED BY <2>1, <1>1, FS_EmptySet
<1>8. Cardinality(A \cup B) = Cardinality(A) + Cardinality(A)
  <2>1. Cardinality(A \cap B) = 0
    BY <1>4, <1>6
  <2> QED BY <1>3, <1>5, <1>6, <2>1
<1>9. 2 ^ (n + 1) = 2 ^ n + 2 ^ n /\ 2 ^ n \in Nat /\ 2 ^ n # 0
  BY <1>1, <1>2, <1>4, <1>6, <1>7, <1>8, Zenon
<1> QED BY <1>9

\* A sum of exponents makes a product of powers.
LEMMA PowerSum ==
  ASSUME NEW m \in Nat, NEW n \in Nat
  PROVE  2 ^ (m + n) = 2 ^ m * 2 ^ n
<1> DEFINE S == {k \in Nat : 2 ^ (m + k) = 2 ^ m * 2 ^ k}
<1>1. 0 \in S
  <2>1. 2 ^ 0 = 1
    <3>1. IsFiniteSet({}) /\ Cardinality({}) = 0
      BY FS_EmptySet
    <3>2. Cardinality(SUBSET {}) = 2 ^ 0
      BY <3>1, FS_SUBSET
    <3>3. SUBSET {} = {{}}
      OBVIOUS
    <3> QED BY <3>2, <3>3, FS_Singleton
  <2>2. m + 0 = m /\ 2 ^ m \in Nat
    BY PowerOfTwo
  <2>3. 2 ^ (m + 0) = 2 ^ m
    BY <2>2
  <2> QED BY <2>1, <2>2, <2>3
<1>2. ASSUME NEW k \in Nat, k \in S PROVE k + 1 \in S
  <2>1. PICK j \in Nat : j = m + k /\ j + 1 = m + (k + 1)
    <3>1. m + k \in Nat /\ m + k + 1 = m + (k + 1)
      OBVIOUS
    <3> QED BY <3>1
  <2>2. 2 ^ (j + 1) = 2 * 2 ^ j /\ 2 ^ (k + 1) = 2 * 2 ^ k
    BY PowerOfTwo
  <2>3. 2 ^ j = 2 ^ m * 2 ^ k
    BY <1>2, <2>1
  <2>4. 2 ^ m \in Nat /\ 2 ^ k \in Nat
    BY PowerOfTwo
  <2>5. 2 * (2 ^ m * 2 ^ k) = 2 ^ m * (2 * 2 ^ k)
    <3>1. \A a, b \in Nat : 2 * (a * b) = a * (2 * b)
      OBVIOUS
    <3> QED BY <2>4, <3>1
  <2> QED BY <2>1, <2>2, <2>3, <2>5
<1> HIDE DEF S
<1>3. n \in S
  BY <1>1, <1>2, NatSetInduction
<1> QED BY <1>3 DEF S

\* A remainder is determined by being small: M * q + r leaves r.
LEMMA RemainderUnique ==
  ASSUME NEW m \in Nat \ {0}, NEW q \in Int, NEW r \in 0 .. m - 1
  PROVE  (m * q + r) % m = r
<1> DEFINE a == m * q + r
<1>1. a \in Int
  OBVIOUS
<1> HIDE DEF a
<1>2. PICK p \in Int, s \in 0 .. m - 1 : s = a % m /\ a = m * p + s
  <2>1. a % m \in 0 .. m - 1 /\ a \div m \in Int /\ a = m * (a \div m) + (a % m)
    BY <1>1
  <2> QED BY <2>1
<1>3. m * p + s = m * q + r
  BY <1>2 DEF a
<1>4. p = q
  <2>1. m * (p - q) = r - s /\ p - q \in Int
    BY <1>3
  <2>2. CASE p - q >= 1
    <3>1. m * (p - q) >= m
      BY <2>1, <2>2
    <3> QED BY <3>1, <2>1
  <2>3. CASE p - q <= -1
    <3>1. m * (q - p) >= m
      BY <2>1, <2>3
    <3>2. m * (q - p) = s - r
      BY <1>3
    <3> QED BY <3>1, <3>2
  <2> QED BY <2>1, <2>2, <2>3
<1>5. s = r
  BY <1>3, <1>4
<1> QED BY <1>2, <1>5 DEF a

\* A sequence that agrees with s and has v after it is Append(s, v).
LEMMA AppendEqual ==
  ASSUME NEW S, NEW s \in Seq(S), NEW v \in S, NEW t \in Seq(S),
         Len(t) = Len(s) + 1,
         \A i \in 1 .. Len(s) : t[i] = s[i],
         t[Len(s) + 1] = v
  PROVE  t = Append(s, v)
<1>1. /\ Append(s, v) \in Seq(S)
      /\ Len(Append(s, v)) = Len(s) + 1
      /\ \A i \in 1 .. Len(s) + 1 : Append(s, v)[i] = IF i = Len(s) + 1 THEN v ELSE s[i]
  OBVIOUS
<1>2. \A i \in 1 .. Len(t) : t[i] = Append(s, v)[i]
  BY <1>1
<1> QED
  BY <1>1, <1>2, SeqEqual

=============================================================================
