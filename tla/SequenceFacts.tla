---------------------------- MODULE SequenceFacts ----------------------------
(***************************************************************************)
(* Facts about sequences, about the elements of a set in ascending order,  *)
(* about what is put together of many sequences, and two about numbers,    *)
(* that the library of theorems does not have.  Where something holds of   *)
(* all numbers or of all lengths, that is by a least counterexample.       *)
(***************************************************************************)
EXTENDS Integers, SequencesExt, Enumerations, SequenceTheorems, FiniteSetTheorems,
        WellFoundedInduction, TLAPS

\* Of some numbers one is the least.
LEMMA LeastNatural ==
    ASSUME NEW S, S \subseteq Nat, S # {}
    PROVE  \E x \in S : \A y \in S : x <= y
  <1> DEFINE R == {p \in Nat \X Nat : p[1] < p[2]}
  <1>1. IsWellFoundedOn(R, Nat)
    BY NatLessThanWellFounded DEF OpToRel
  <1> HIDE DEF R
  <1>2. PICK x \in S : \A y \in S : <<y, x>> \notin R
    BY <1>1, WFMin
  <1>3. ASSUME NEW y \in S PROVE x <= y
    <2>1. x \in Nat /\ y \in Nat /\ (y < x => <<y, x>> \in R)
      BY DEF R
    <2> QED
      BY <1>2, <2>1
  <1> QED
    BY <1>2, <1>3

\* Splicing one element out of a sequence: what is left, and in what order.
LEMMA RemoveAtFacts ==
    ASSUME NEW S, NEW s \in Seq(S), NEW k \in 1 .. Len(s)
    PROVE  /\ RemoveAt(s, k) \in Seq(S)
           /\ Len(RemoveAt(s, k)) = Len(s) - 1
           /\ \A j \in 1 .. Len(s) - 1 :
                 RemoveAt(s, k)[j] = IF j < k THEN s[j] ELSE s[j + 1]
  <1> DEFINE a == SubSeq(s, 1, k - 1)
             b == SubSeq(s, k + 1, Len(s))
  <1>1. /\ a \in Seq(S) /\ Len(a) = k - 1
        /\ \A j \in 1 .. k - 1 : a[j] = s[j]
    BY SubSeqProperties
  <1>2. /\ b \in Seq(S) /\ Len(b) = Len(s) - k
        /\ \A j \in 1 .. Len(s) - k : b[j] = s[k + j]
    BY SubSeqProperties
  <1>3. RemoveAt(s, k) = a \o b
    BY DEF RemoveAt
  <1> HIDE DEF a, b
  <1>4. /\ a \o b \in Seq(S) /\ Len(a \o b) = Len(a) + Len(b)
        /\ \A j \in 1 .. Len(a) + Len(b) :
              (a \o b)[j] = IF j <= Len(a) THEN a[j] ELSE b[j - Len(a)]
    BY <1>1, <1>2, ConcatProperties
  <1>5. Len(s) \in Nat /\ Len(a) + Len(b) = Len(s) - 1
    BY <1>1, <1>2, LenProperties
  <1>6. ASSUME NEW j \in 1 .. Len(s) - 1
        PROVE  (a \o b)[j] = IF j < k THEN s[j] ELSE s[j + 1]
    <2>1. CASE j < k
      BY <2>1, <1>1, <1>4, <1>5
    <2>2. CASE j >= k
      <3>1. (a \o b)[j] = b[j - (k - 1)] /\ j - (k - 1) \in 1 .. Len(s) - k
        BY <2>2, <1>1, <1>4, <1>5
      <3>2. k + (j - (k - 1)) = j + 1 /\ ~(j < k)
        BY <2>2
      <3>3. b[j - (k - 1)] = s[j + 1]
        BY <3>1, <3>2, <1>2
      <3> QED
        BY <3>1, <3>2, <3>3
    <2> QED
      BY <1>5, <2>1, <2>2
  <1> QED
    BY <1>3, <1>4, <1>5, <1>6

\* A sequence without repetition, as the keys of a Map are: when it is extended by
\* elements it does not have, and when one of its elements is taken out.
LEMMA InjectiveAppend ==
    ASSUME NEW S, NEW s \in Seq(S), IsInjective(s), NEW e \in S, e \notin Range(s)
    PROVE  /\ Append(s, e) \in Seq(S) /\ IsInjective(Append(s, e))
           /\ Range(Append(s, e)) = Range(s) \cup {e}
  <1>1. Len(s) \in Nat /\ DOMAIN s = 1 .. Len(s)
    BY LenProperties
  <1>2. /\ Append(s, e) \in Seq(S) /\ DOMAIN Append(s, e) = 1 .. Len(s) + 1
        /\ \A i \in 1 .. Len(s) : Append(s, e)[i] = s[i]
        /\ Append(s, e)[Len(s) + 1] = e
    BY <1>1, AppendProperties, LenProperties
  <1> DEFINE t == Append(s, e)
  <1> HIDE DEF t
  <1>3. IsInjective(t)
    BY <1>1, <1>2 DEF IsInjective, Range, t
  <1>4. Range(t) = Range(s) \cup {e}
    <2>1. \A x \in Range(t) : x \in Range(s) \cup {e}
      BY <1>1, <1>2 DEF Range, t
    <2>2. \A i \in DOMAIN s : i \in DOMAIN t /\ t[i] = s[i]
      BY <1>1, <1>2 DEF t
    <2>3. e \in Range(t)
      BY <1>1, <1>2 DEF Range, t
    <2> QED
      BY <2>1, <2>2, <2>3 DEF Range
  <1> QED
    BY <1>2, <1>3, <1>4 DEF t

LEMMA InjectiveConcat ==
    ASSUME NEW S, NEW s \in Seq(S), NEW u \in Seq(S), IsInjective(s), IsInjective(u),
           Range(s) \cap Range(u) = {}
    PROVE  /\ s \o u \in Seq(S) /\ IsInjective(s \o u)
           /\ Range(s \o u) = Range(s) \cup Range(u)
  <1> DEFINE t == s \o u
  <1>1. /\ Len(s) \in Nat /\ DOMAIN s = 1 .. Len(s)
        /\ Len(u) \in Nat /\ DOMAIN u = 1 .. Len(u)
    BY LenProperties
  <1>2. /\ t \in Seq(S) /\ DOMAIN t = 1 .. Len(s) + Len(u)
        /\ \A i \in 1 .. Len(s) + Len(u) : t[i] = IF i <= Len(s) THEN s[i] ELSE u[i - Len(s)]
    BY <1>1, ConcatProperties, LenProperties
  <1> HIDE DEF t
  <1>3. \A i \in DOMAIN t : IF i <= Len(s) THEN i \in DOMAIN s /\ t[i] = s[i]
                            ELSE i - Len(s) \in DOMAIN u /\ t[i] = u[i - Len(s)]
    BY <1>1, <1>2
  <1>4. IsInjective(t)
    <2> SUFFICES ASSUME NEW i \in DOMAIN t, NEW j \in DOMAIN t, t[i] = t[j] PROVE i = j
      BY DEF IsInjective
    <2>1. i <= Len(s) <=> j <= Len(s)
      BY <1>3 DEF Range
    <2>2. CASE i <= Len(s)
      BY <1>3, <2>1, <2>2 DEF IsInjective
    <2>3. CASE ~(i <= Len(s))
      <3>1. i - Len(s) = j - Len(s)
        BY <1>3, <2>1, <2>3 DEF IsInjective
      <3> QED
        BY <1>1, <1>2, <3>1
    <2> QED
      BY <2>2, <2>3
  <1>5. Range(t) = Range(s) \cup Range(u)
    <2>1. \A i \in DOMAIN s : i \in DOMAIN t /\ t[i] = s[i]
      BY <1>1, <1>2
    <2>2. \A i \in DOMAIN u : i + Len(s) \in DOMAIN t /\ t[i + Len(s)] = u[i]
      BY <1>1, <1>2
    <2>3. \A x \in Range(t) : x \in Range(s) \cup Range(u)
      BY <1>3 DEF Range
    <2>4. \A x \in Range(s) : x \in Range(t)
      BY <2>1 DEF Range
    <2>5. \A x \in Range(u) : x \in Range(t)
      BY <2>2 DEF Range
    <2> QED
      BY <2>3, <2>4, <2>5
  <1> QED
    BY <1>2, <1>4, <1>5 DEF t

LEMMA InjectiveRemoveAt ==
    ASSUME NEW S, NEW s \in Seq(S), IsInjective(s), NEW k \in 1 .. Len(s)
    PROVE  /\ RemoveAt(s, k) \in Seq(S) /\ IsInjective(RemoveAt(s, k))
           /\ Range(RemoveAt(s, k)) = Range(s) \ {s[k]}
  <1> DEFINE t == RemoveAt(s, k)
  <1>1. Len(s) \in Nat /\ DOMAIN s = 1 .. Len(s)
    BY LenProperties
  <1>2. /\ t \in Seq(S) /\ DOMAIN t = 1 .. Len(s) - 1
        /\ \A j \in 1 .. Len(s) - 1 : t[j] = IF j < k THEN s[j] ELSE s[j + 1]
    BY <1>1, RemoveAtFacts, LenProperties
  <1> HIDE DEF t
  <1>3. \A j \in DOMAIN t : IF j < k THEN j \in DOMAIN s \ {k} /\ t[j] = s[j]
                            ELSE j + 1 \in DOMAIN s \ {k} /\ t[j] = s[j + 1]
    BY <1>1, <1>2
  <1>4. IsInjective(t)
    <2> SUFFICES ASSUME NEW i \in DOMAIN t, NEW j \in DOMAIN t, t[i] = t[j] PROVE i = j
      BY DEF IsInjective
    <2>1. i \in Int /\ j \in Int
      BY <1>2
    <2> QED
      BY <1>3, <2>1 DEF IsInjective
  <1>5. Range(t) = Range(s) \ {s[k]}
    <2>1. \A x \in Range(t) : x \in Range(s) \ {s[k]}
      <3> SUFFICES ASSUME NEW j \in DOMAIN t PROVE t[j] \in Range(s) /\ t[j] # s[k]
        BY DEF Range
      <3>1. PICK i \in DOMAIN s \ {k} : t[j] = s[i]
        BY <1>3
      <3> QED
        BY <1>1, <3>1 DEF IsInjective, Range
    <2>2. \A i \in DOMAIN s \ {k} : \E j \in DOMAIN t : t[j] = s[i]
      <3> SUFFICES ASSUME NEW i \in DOMAIN s \ {k} PROVE \E j \in DOMAIN t : t[j] = s[i]
        OBVIOUS
      <3>1. CASE i < k
        BY <1>1, <1>2, <3>1
      <3>2. CASE i > k
        <4>1. i - 1 \in DOMAIN t /\ t[i - 1] = s[i]
          BY <1>1, <1>2, <3>2
        <4> QED
          BY <4>1
      <3> QED
        BY <1>1, <3>1, <3>2
    <2> QED
      BY <1>1, <2>1, <2>2 DEF Range
  <1> QED
    BY <1>2, <1>4, <1>5 DEF t

-----------------------------------------------------------------------------
(***************************************************************************)
(* The ascending enumeration of a finite set of numbers: there is exactly  *)
(* one, and what is greater than all of a set comes behind it.             *)
(***************************************************************************)
Enumerates(s, S) == s \in Seq(S) /\ Increasing(s) /\ Range(s) = S

LEMMA EnumerationLength ==
    ASSUME NEW S, S \subseteq Nat, NEW s, Enumerates(s, S)
    PROVE  /\ Len(s) \in Nat /\ s \in [1 .. Len(s) -> S] /\ DOMAIN s = 1 .. Len(s)
           /\ \A i \in 1 .. Len(s) : s[i] \in S /\ s[i] \in Nat
           /\ \A i, j \in 1 .. Len(s) : i < j => s[i] < s[j]
           /\ \A k \in S : \E i \in 1 .. Len(s) : s[i] = k
           /\ IsFiniteSet(S) /\ Len(s) = Cardinality(S)
  <1>1. Len(s) \in Nat /\ s \in [1 .. Len(s) -> S] /\ DOMAIN s = 1 .. Len(s)
    BY LenProperties DEF Enumerates
  <1>2. \A i \in 1 .. Len(s) : s[i] \in S /\ s[i] \in Nat
    BY <1>1
  <1>3. \A i, j \in 1 .. Len(s) : i < j => s[i] < s[j]
    BY <1>1 DEF Enumerates, Increasing
  <1>4. \A k \in S : \E i \in 1 .. Len(s) : s[i] = k
    BY <1>1 DEF Enumerates, Range
  <1>5. \A i, j \in 1 .. Len(s) : s[i] = s[j] => i = j
    <2> SUFFICES ASSUME NEW i \in 1 .. Len(s), NEW j \in 1 .. Len(s), s[i] = s[j], i # j
                 PROVE  FALSE
      OBVIOUS
    <2>1. s[i] < s[j] \/ s[j] < s[i]
      BY <1>1, <1>3
    <2> QED
      BY <1>2, <2>1
  <1>6. s \in Bijection(1 .. Len(s), S)
    BY <1>1, <1>4, <1>5 DEF Bijection, Injection, Surjection, IsInjective
  <1>7. IsFiniteSet(1 .. Len(s)) /\ Cardinality(1 .. Len(s)) = Len(s)
    BY <1>1, FS_Interval
  <1>8. IsFiniteSet(S) /\ Len(s) = Cardinality(S)
    BY <1>6, <1>7, FS_Bijection DEF ExistsBijection
  <1> QED
    BY <1>1, <1>2, <1>3, <1>4, <1>8

\* Two enumerations of a set are the same, since where they first differed the
\* greater one would have missed an element.
LEMMA EnumerationsAgree ==
    ASSUME NEW S, S \subseteq Nat, NEW s, NEW t, Enumerates(s, S), Enumerates(t, S)
    PROVE  s = t
  <1>1. /\ Len(s) \in Nat /\ Len(t) = Len(s) /\ s \in Seq(S) /\ t \in Seq(S)
        /\ \A i \in 1 .. Len(s) : s[i] \in Nat /\ t[i] \in Nat
        /\ \A i, j \in 1 .. Len(s) : i < j => s[i] < s[j] /\ t[i] < t[j]
    BY EnumerationLength DEF Enumerates
  <1>2. \A k \in S : \E i \in 1 .. Len(s), j \in 1 .. Len(s) : s[i] = k /\ t[j] = k
    <2>1. /\ \A k \in S : \E i \in 1 .. Len(s) : s[i] = k
          /\ \A k \in S : \E j \in 1 .. Len(t) : t[j] = k
      BY EnumerationLength
    <2> QED
      BY <1>1, <2>1
  <1>3. \A i \in 1 .. Len(s) : s[i] \in S /\ t[i] \in S
    BY <1>1, ElementOfSeq
  <1> DEFINE Differ == {i \in 1 .. Len(s) : s[i] # t[i]}
  <1>4. ASSUME Differ # {} PROVE FALSE
    <2>1. Differ \subseteq Nat
      BY <1>1
    <2>2. PICK i \in Differ : \A j \in Differ : i <= j
      BY <1>4, <2>1, LeastNatural
    <2>3. i \in 1 .. Len(s) /\ s[i] # t[i] /\ \A j \in 1 .. Len(s) : j < i => s[j] = t[j]
      BY <1>1, <2>2
    <2>4. CASE s[i] < t[i]
      <3>1. PICK j \in 1 .. Len(s) : t[j] = s[i]
        BY <1>2, <1>3, <2>3
      <3>2. CASE j < i
        BY <1>1, <2>3, <3>1, <3>2
      <3>3. CASE j = i
        BY <2>3, <3>1, <3>3
      <3>4. CASE i < j
        BY <1>1, <2>3, <2>4, <3>1, <3>4
      <3> QED
        BY <1>1, <2>3, <3>2, <3>3, <3>4
    <2>5. CASE t[i] < s[i]
      <3>1. PICK j \in 1 .. Len(s) : s[j] = t[i]
        BY <1>2, <1>3, <2>3
      <3>2. CASE j < i
        BY <1>1, <2>3, <3>1, <3>2
      <3>3. CASE j = i
        BY <2>3, <3>1, <3>3
      <3>4. CASE i < j
        BY <1>1, <2>3, <2>5, <3>1, <3>4
      <3> QED
        BY <1>1, <2>3, <3>2, <3>3, <3>4
    <2> QED
      BY <1>1, <2>3, <2>4, <2>5
  <1> QED
    BY <1>1, <1>4, SeqEqual

LEMMA EnumerationConcat ==
    ASSUME NEW A, NEW B, A \subseteq Nat, B \subseteq Nat, \A a \in A, b \in B : a < b,
           NEW s, NEW t, Enumerates(s, A), Enumerates(t, B)
    PROVE  Enumerates(s \o t, A \cup B)
  <1> DEFINE u == s \o t
  <1>1. /\ Len(s) \in Nat /\ Len(t) \in Nat
        /\ \A i \in 1 .. Len(s) : s[i] \in A
        /\ \A i, j \in 1 .. Len(s) : i < j => s[i] < s[j]
        /\ \A k \in A : \E i \in 1 .. Len(s) : s[i] = k
    BY EnumerationLength
  <1>2. /\ \A i \in 1 .. Len(t) : t[i] \in B
        /\ \A i, j \in 1 .. Len(t) : i < j => t[i] < t[j]
        /\ \A k \in B : \E i \in 1 .. Len(t) : t[i] = k
    BY EnumerationLength
  <1>3. s \in Seq(A \cup B) /\ t \in Seq(A \cup B)
    BY SeqMonotonic DEF Enumerates
  <1>4. /\ u \in Seq(A \cup B) /\ DOMAIN u = 1 .. Len(s) + Len(t)
        /\ \A i \in 1 .. Len(s) + Len(t) : u[i] = IF i <= Len(s) THEN s[i] ELSE t[i - Len(s)]
    BY <1>1, <1>3, ConcatProperties, LenProperties
  <1> HIDE DEF u
  <1>5. /\ \A i \in 1 .. Len(s) : i \in DOMAIN u /\ u[i] = s[i]
        /\ \A i \in 1 .. Len(t) : i + Len(s) \in DOMAIN u /\ u[i + Len(s)] = t[i]
    BY <1>1, <1>4
  <1>6. Increasing(u)
    <2> SUFFICES ASSUME NEW i \in 1 .. Len(s) + Len(t), NEW j \in 1 .. Len(s) + Len(t), i < j
                 PROVE  u[i] < u[j]
      BY <1>4 DEF Increasing
    <2>1. CASE j <= Len(s)
      BY <1>1, <1>4, <2>1
    <2>2. CASE i <= Len(s) /\ ~(j <= Len(s))
      <3>1. i \in 1 .. Len(s) /\ j - Len(s) \in 1 .. Len(t)
        BY <1>1, <2>2
      <3>2. u[i] \in A /\ u[j] \in B
        BY <1>1, <1>2, <1>4, <2>2, <3>1
      <3> QED
        BY <3>2
    <2>3. CASE ~(i <= Len(s))
      <3>1. /\ i - Len(s) \in 1 .. Len(t) /\ j - Len(s) \in 1 .. Len(t)
            /\ i - Len(s) < j - Len(s)
        BY <1>1, <2>3
      <3>2. u[i] = t[i - Len(s)] /\ u[j] = t[j - Len(s)]
        BY <1>1, <1>4, <2>3
      <3> QED
        BY <1>2, <3>1, <3>2
    <2> QED
      BY <1>1, <2>1, <2>2, <2>3
  <1>7. Range(u) = A \cup B
    <2>1. \A i \in DOMAIN u : u[i] \in A \cup B
      BY <1>4, ElementOfSeq, LenProperties
    <2>2. \A k \in A \cup B : \E i \in DOMAIN u : u[i] = k
      BY <1>1, <1>2, <1>5
    <2> QED
      BY <2>1, <2>2 DEF Range
  <1> QED
    BY <1>4, <1>6, <1>7 DEF Enumerates, u

LEMMA EnumerationOne ==
    ASSUME NEW k \in Nat
    PROVE  Enumerates(<<k>>, {k})
  <1>1. <<k>> \in Seq({k}) /\ DOMAIN <<k>> = {1} /\ <<k>>[1] = k
    OBVIOUS
  <1>2. Increasing(<<k>>)
    BY <1>1 DEF Increasing
  <1> QED
    BY <1>1, <1>2 DEF Enumerates, Range

\* By the number of elements: the least one comes first.
LEMMA EnumerationExists ==
    ASSUME NEW S, S \subseteq Nat, IsFiniteSet(S)
    PROVE  \E s : Enumerates(s, S)
  <1> DEFINE Missing(T) == T \subseteq S /\ ~\E s : Enumerates(s, T)
             Sizes == {n \in Nat : \E T : Missing(T) /\ Cardinality(T) = n}
  <1>1. \A T : T \subseteq S => IsFiniteSet(T) /\ Cardinality(T) \in Nat
    BY FS_Subset, FS_CardinalityType
  <1> SUFFICES Sizes = {}
    BY <1>1
  <1>2. ASSUME Sizes # {} PROVE FALSE
    <2>1. PICK n \in Sizes : \A m \in Sizes : n <= m
      BY <1>2, LeastNatural
    <2>2. PICK T : Missing(T) /\ Cardinality(T) = n
      BY <2>1
    <2>3. T # {}
      <3>1. <<>> \in Seq({}) /\ DOMAIN <<>> = {}
        OBVIOUS
      <3>2. Enumerates(<<>>, {})
        BY <3>1 DEF Enumerates, Increasing, Range
      <3> QED
        BY <2>2, <3>2
    <2>4. T \subseteq Nat /\ T \subseteq S
      BY <2>2
    <2>5. PICK k \in T : \A j \in T : k <= j
      BY <2>3, <2>4, LeastNatural
    <2>6. /\ IsFiniteSet(T) /\ n \in Nat
          /\ Cardinality(T \ {k}) = n - 1 /\ Cardinality(T \ {k}) \in Nat
      BY <1>1, <2>2, <2>4, <2>5, FS_RemoveElement
    <2>7. PICK t : Enumerates(t, T \ {k})
      <3>1. T \ {k} \subseteq S /\ ~(n <= n - 1)
        BY <2>4, <2>6
      <3>2. Missing(T \ {k}) => n - 1 \in Sizes
        BY <2>6
      <3> QED
        BY <2>1, <3>1, <3>2
    <2>8. /\ {k} \subseteq Nat /\ T \ {k} \subseteq Nat
          /\ \A a \in {k}, b \in T \ {k} : a < b
      BY <2>4, <2>5
    <2>9. Enumerates(<<k>> \o t, {k} \cup (T \ {k}))
      BY <2>4, <2>7, <2>8, EnumerationOne, EnumerationConcat
    <2>10. {k} \cup (T \ {k}) = T
      OBVIOUS
    <2> QED
      BY <2>2, <2>9, <2>10
  <1> QED
    BY <1>2

\* What Ascending chooses.
LEMMA AscendingEnumerates ==
    ASSUME NEW S, S \subseteq Nat, IsFiniteSet(S)
    PROVE  Enumerates(Ascending(S), S)
  <1>1. PICK s : Enumerates(s, S)
    BY EnumerationExists
  <1>2. s \in [1 .. Cardinality(S) -> S] /\ Increasing(s)
    BY <1>1, EnumerationLength DEF Enumerates
  <1>3. Ascending(S) \in [1 .. Cardinality(S) -> S] /\ Increasing(Ascending(S))
    BY <1>2 DEF Ascending
  <1> DEFINE t == Ascending(S)
  <1> HIDE DEF t
  <1>4. /\ Cardinality(S) \in Nat
        /\ IsFiniteSet(1 .. Cardinality(S)) /\ Cardinality(1 .. Cardinality(S)) = Cardinality(S)
    BY FS_CardinalityType, FS_Interval
  <1>5. \A i, j \in 1 .. Cardinality(S) : t[i] = t[j] => i = j
    <2> SUFFICES ASSUME NEW i \in 1 .. Cardinality(S), NEW j \in 1 .. Cardinality(S),
                        t[i] = t[j], i # j
                 PROVE  FALSE
      OBVIOUS
    <2>1. i < j \/ j < i
      BY <1>4
    <2>2. t[i] < t[j] \/ t[j] < t[i]
      BY <1>3, <2>1 DEF Increasing, t
    <2>3. t[i] \in Nat /\ t[j] \in Nat
      BY <1>3 DEF t
    <2> QED
      BY <2>2, <2>3
  <1>6. t \in Injection(1 .. Cardinality(S), S)
    BY <1>3, <1>5 DEF Injection, IsInjective, t
  <1>7. t \in Surjection(1 .. Cardinality(S), S)
    BY <1>4, <1>6, FS_Injection
  <1>8. Range(t) = S
    BY <1>3, <1>7 DEF Surjection, Range, t
  <1>9. t \in Seq(S)
    BY <1>3, <1>4 DEF t
  <1> QED
    BY <1>3, <1>8, <1>9 DEF Enumerates, t

LEMMA AscendingIs ==
    ASSUME NEW S, S \subseteq Nat, NEW s, Enumerates(s, S)
    PROVE  Ascending(S) = s
  BY EnumerationLength, AscendingEnumerates, EnumerationsAgree

LEMMA AscendingConcat ==
    ASSUME NEW A, NEW B, A \subseteq Nat, B \subseteq Nat, IsFiniteSet(A), IsFiniteSet(B),
           \A a \in A, b \in B : a < b
    PROVE  Ascending(A \cup B) = Ascending(A) \o Ascending(B)
  <1>1. Enumerates(Ascending(A) \o Ascending(B), A \cup B)
    BY AscendingEnumerates, EnumerationConcat
  <1> QED
    BY <1>1, AscendingIs

LEMMA AscendingAppend ==
    ASSUME NEW A, A \subseteq Nat, IsFiniteSet(A), NEW k \in Nat, \A a \in A : a < k
    PROVE  Ascending(A \cup {k}) = Append(Ascending(A), k)
  <1>1. Enumerates(Ascending(A) \o <<k>>, A \cup {k})
    BY AscendingEnumerates, EnumerationOne, EnumerationConcat
  <1>2. Ascending(A) \in Seq(A)
    BY AscendingEnumerates DEF Enumerates
  <1>3. Ascending(A) \o <<k>> = Append(Ascending(A), k)
    BY <1>2
  <1> QED
    BY <1>1, <1>3, AscendingIs

\* Where an element stands in the ascending enumeration: behind those that are less.
LEMMA AscendingAround ==
    ASSUME NEW A, A \subseteq Nat, IsFiniteSet(A), NEW k \in A
    PROVE  LET s == Ascending(A)
               m == Len(Ascending({j \in A : j < k})) + 1
           IN  /\ Len(s) \in Nat /\ DOMAIN s = 1 .. Len(s)
               /\ m \in 1 .. Len(s) /\ s[m] = k
               /\ \A i \in 1 .. Len(s) : s[i] \in A /\ (i < m => s[i] < k) /\ (m < i => k < s[i])
  <1> DEFINE B == {j \in A : j < k}
             C == {j \in A : k < j}
             s == Ascending(A)
             b == Ascending(B)
             c == Ascending(C)
             m == Len(b) + 1
  <1>1. /\ B \subseteq Nat /\ C \subseteq Nat /\ k \in Nat /\ B \cup {k} \subseteq Nat
        /\ IsFiniteSet(B) /\ IsFiniteSet(C) /\ IsFiniteSet(B \cup {k})
    <2>1. B \subseteq A /\ C \subseteq A /\ B \cup {k} \subseteq A
      OBVIOUS
    <2> QED
      BY <2>1, FS_Subset
  <1>2. A = (B \cup {k}) \cup C
    <2>1. \A x \in A : x < k \/ x = k \/ k < x
      OBVIOUS
    <2> QED
      BY <2>1
  <1>3. \A x \in B : x < k
    OBVIOUS
  <1>4. \A x \in B \cup {k}, y \in C : x < y
    BY <1>1
  <1>5. /\ Enumerates(s, A) /\ Enumerates(b, B) /\ Enumerates(c, C)
    BY <1>1, AscendingEnumerates
  <1> HIDE DEF B, C
  <1>6. s = Append(b, k) \o c
    <2>1. Ascending(B \cup {k}) = Append(b, k)
      BY <1>1, <1>3, AscendingAppend
    <2> QED
      BY <1>1, <1>2, <1>4, <2>1, AscendingConcat
  <1>7. /\ b \in Seq(Nat) /\ c \in Seq(Nat)
        /\ Len(s) \in Nat /\ DOMAIN s = 1 .. Len(s) /\ s \in [1 .. Len(s) -> A]
    BY <1>1, <1>5, SeqMonotonic, EnumerationLength DEF Enumerates
  <1>8. \A i, j \in 1 .. Len(s) : i < j => s[i] < s[j]
    BY <1>5, <1>7 DEF Enumerates, Increasing
  <1> HIDE DEF s, b, c
  <1>9. m \in 1 .. Len(s) /\ s[m] = k
    <2>1. /\ Append(b, k) \in Seq(Nat) /\ Len(Append(b, k)) = m /\ Append(b, k)[m] = k
          /\ Len(b) \in Nat /\ Len(c) \in Nat
      BY <1>1, <1>7, AppendProperties, LenProperties
    <2>2. Len(s) = m + Len(c) /\ s[m] = k
      <3>1. m \in 1 .. Len(Append(b, k)) + Len(c) /\ m <= Len(Append(b, k))
        BY <2>1
      <3> QED
        BY <1>6, <1>7, <2>1, <3>1, ConcatProperties
    <2> QED
      BY <2>1, <2>2
  <1>10. ASSUME NEW i \in 1 .. Len(s)
         PROVE  s[i] \in A /\ (i < m => s[i] < k) /\ (m < i => k < s[i])
    BY <1>7, <1>8, <1>9
  <1> QED
    BY <1>7, <1>9, <1>10 DEF s, b, B


\* What holds of 0 and passes from each number to the next one holds up to a bound: else
\* there would be a least number of which it does not.
LEMMA HoldsUpTo ==
    ASSUME NEW S, NEW last \in Nat, 0 \in S, \A i \in 0 .. last : i \in S /\ i < last => i + 1 \in S
    PROVE  0 .. last \subseteq S
  <1> DEFINE Rest == (0 .. last) \ S
  <1>1. ASSUME Rest # {} PROVE FALSE
    <2>0. Rest \subseteq Nat
      OBVIOUS
    <2>1. PICK n \in Rest : \A m \in Rest : n <= m
      BY <1>1, <2>0, LeastNatural
    <2>2. n \in 0 .. last /\ n \notin S /\ n # 0
      BY <2>1
    <2>3. n - 1 \in 0 .. last /\ n - 1 < last /\ (n - 1) + 1 = n /\ ~(n <= n - 1)
      BY <2>2
    <2>4. n - 1 \in S
      BY <2>1, <2>3
    <2> QED
      BY <2>2, <2>3, <2>4
  <1> QED
    BY <1>1

\* The pieces of a flattened sequence, put together one after the other.
Joined(seqs, f, n) ==
    f = [i \in 1 .. n |-> IF i = 1 THEN seqs[i] ELSE f[i - 1] \o seqs[i]]

LEMMA JoinedExists ==
    ASSUME NEW seqs, NEW n \in Nat
    PROVE  \E f : Joined(seqs, f, n)
  <1> DEFINE S == {k \in 0 .. n : \E f : Joined(seqs, f, k)}
  <1>1. 0 \in S
    <2>1. PICK f : f = [i \in 1 .. 0 |-> seqs[i]]
      OBVIOUS
    <2>2. f = [i \in 1 .. 0 |-> IF i = 1 THEN seqs[i] ELSE f[i - 1] \o seqs[i]]
      BY <2>1
    <2>3. Joined(seqs, f, 0)
      BY <2>2 DEF Joined
    <2>4. 0 \in 0 .. n
      OBVIOUS
    <2> QED
      BY <2>3, <2>4
  <1>2. ASSUME NEW k \in 0 .. n, k \in S, k < n PROVE k + 1 \in S
    <2>1. PICK g : Joined(seqs, g, k)
      BY <1>2
    <2>2. PICK f : f = [i \in 1 .. k + 1 |-> IF i <= k THEN g[i]
                                            ELSE IF k = 0 THEN seqs[1] ELSE g[k] \o seqs[k + 1]]
      OBVIOUS
    <2>3. ASSUME NEW i \in 1 .. k + 1
          PROVE  f[i] = IF i = 1 THEN seqs[i] ELSE f[i - 1] \o seqs[i]
      <3>1. CASE i <= k
        <4>1. i \in 1 .. k /\ f[i] = g[i]
          BY <1>2, <2>2, <3>1
        <4>2. g[i] = IF i = 1 THEN seqs[i] ELSE g[i - 1] \o seqs[i]
          BY <2>1, <4>1 DEF Joined
        <4>3. i # 1 => i - 1 \in 1 .. k + 1 /\ i - 1 <= k
          BY <1>2, <3>1
        <4>4. i # 1 => f[i - 1] = g[i - 1]
          BY <2>2, <4>3
        <4> QED
          BY <4>1, <4>2, <4>4
      <3>2. CASE ~(i <= k)
        <4>1. i = k + 1 /\ (k + 1) - 1 = k /\ ~(k + 1 <= k) /\ (k + 1 = 1 <=> k = 0)
          BY <1>2, <3>2
        <4>2. f[k + 1] = IF k = 0 THEN seqs[1] ELSE g[k] \o seqs[k + 1]
          BY <2>2, <4>1
        <4>3. k # 0 => k \in 1 .. k + 1 /\ k <= k
          BY <1>2
        <4>4. k # 0 => f[k] = g[k]
          BY <2>2, <4>3
        <4> QED
          BY <4>1, <4>2, <4>4
      <3> QED
        BY <3>1, <3>2
    <2>4. DOMAIN f = 1 .. k + 1 /\ f = [i \in DOMAIN f |-> f[i]]
      BY <2>2
    <2>5. Joined(seqs, f, k + 1)
      BY <2>3, <2>4 DEF Joined
    <2>6. k + 1 \in 0 .. n
      BY <1>2
    <2> QED
      BY <2>5, <2>6
  <1> HIDE DEF S
  <1>3. 0 .. n \subseteq S
    BY <1>1, <1>2, HoldsUpTo
  <1>4. n \in S
    BY <1>3
  <1> QED
    BY <1>4 DEF S

LEMMA FlattenFacts ==
    ASSUME NEW E, NEW seqs \in Seq(Seq(E)), Len(seqs) # 0
    PROVE  \E f : /\ f[1] = seqs[1] /\ FlattenSeq(seqs) = f[Len(seqs)]
                  /\ \A i \in 1 .. Len(seqs) : i # 1 => f[i] = f[i - 1] \o seqs[i]
  <1>1. PICK n : n = Len(seqs) /\ n \in Nat \ {0}
    BY LenProperties
  <1> DEFINE F == CHOOSE f : Joined(seqs, f, n)
  <1>2. Joined(seqs, F, n)
    BY <1>1, JoinedExists
  <1>3. FlattenSeq(seqs) = F[n]
    BY <1>1 DEF FlattenSeq, Joined
  <1> HIDE DEF F
  <1>4. \A i \in 1 .. n : F[i] = IF i = 1 THEN seqs[i] ELSE F[i - 1] \o seqs[i]
    BY <1>2 DEF Joined
  <1>5. F[1] = seqs[1]
    BY <1>1, <1>4
  <1> QED
    BY <1>1, <1>3, <1>4, <1>5

\* Behind pieces of one element each, the next piece begins at its own number.
LEMMA FlattenLead ==
    ASSUME NEW E, NEW seqs \in Seq(Seq(E)), NEW m \in 1 .. Len(seqs),
           \A i \in 1 .. m - 1 : Len(seqs[i]) = 1, Len(seqs[m]) # 0
    PROVE  FlattenSeq(seqs)[m] = seqs[m][1]
  <1>1. PICK n : n = Len(seqs) /\ n \in Nat /\ m \in 1 .. n
    BY LenProperties
  <1>2. PICK f : /\ f[1] = seqs[1] /\ FlattenSeq(seqs) = f[n]
                 /\ \A i \in 1 .. n : i # 1 => f[i] = f[i - 1] \o seqs[i]
    <2>1. Len(seqs) # 0
      BY <1>1
    <2>2. \E f : /\ f[1] = seqs[1] /\ FlattenSeq(seqs) = f[Len(seqs)]
                 /\ \A i \in 1 .. Len(seqs) : i # 1 => f[i] = f[i - 1] \o seqs[i]
      BY <2>1, FlattenFacts
    <2> QED
      BY <1>1, <2>2
  <1>3. \A i \in 1 .. n : seqs[i] \in Seq(E) /\ Len(seqs[i]) \in Nat
    <2>1. \A i \in 1 .. n : seqs[i] \in Seq(E)
      BY <1>1, ElementOfSeq
    <2> QED
      BY <2>1, LenProperties
  <1>4. \A s \in Seq(E), t \in Seq(E) :
           /\ s \o t \in Seq(E) /\ Len(s \o t) = Len(s) + Len(t)
           /\ \A i \in 1 .. Len(s) + Len(t) :
                 (s \o t)[i] = IF i <= Len(s) THEN s[i] ELSE t[i - Len(s)]
    BY ConcatProperties
  <1> DEFINE Short == {i \in 0 .. m - 1 : i # 0 => f[i] \in Seq(E) /\ Len(f[i]) = i}
  <1>5. ASSUME NEW i \in 0 .. m - 1, i \in Short, i < m - 1 PROVE i + 1 \in Short
    <2>1. i + 1 \in 1 .. n /\ i + 1 \in 1 .. m - 1 /\ Len(seqs[i + 1]) = 1 /\ (i + 1) - 1 = i
      BY <1>1, <1>5
    <2>2. CASE i = 0
      BY <1>2, <1>3, <2>1, <2>2
    <2>3. CASE i # 0
      <3>1. i + 1 # 1 /\ f[i + 1] = f[(i + 1) - 1] \o seqs[i + 1]
        <4>1. \A j \in 1 .. n : j # 1 => f[j] = f[j - 1] \o seqs[j]
          BY <1>2
        <4>2. i + 1 # 1
          BY <1>1, <2>3
        <4>3. PICK j : j = i + 1
          OBVIOUS
        <4>4. f[j] = f[j - 1] \o seqs[j]
          BY <2>1, <4>1, <4>2, <4>3
        <4> QED
          BY <4>2, <4>3, <4>4
      <3>2. f[i] \in Seq(E) /\ Len(f[i]) = i /\ f[i + 1] = f[i] \o seqs[i + 1]
        BY <1>5, <2>1, <2>3, <3>1
      <3>3. f[i + 1] \in Seq(E) /\ Len(f[i + 1]) = Len(f[i]) + Len(seqs[i + 1])
        BY <1>4, <1>3, <2>1, <3>2
      <3>4. f[i + 1] \in Seq(E) /\ Len(f[i + 1]) = i + 1
        BY <2>1, <3>2, <3>3
      <3> QED
        BY <2>1, <3>4
    <2> QED
      BY <2>2, <2>3
  <1>6. m - 1 # 0 => f[m - 1] \in Seq(E) /\ Len(f[m - 1]) = m - 1
    <2>1. 0 \in Short /\ m - 1 \in Nat
      BY <1>1
    <2> HIDE DEF Short
    <2>2. 0 .. m - 1 \subseteq Short
      BY <1>5, <2>1, HoldsUpTo
    <2>3. m - 1 \in Short
      BY <2>1, <2>2
    <2> QED
      BY <2>3 DEF Short
  <1> DEFINE Leads(s) == s \in Seq(E) /\ Len(s) >= m /\ s[m] = seqs[m][1]
             Long == {d \in 0 .. n - m : Leads(f[m + d])}
  <1>7. Leads(f[m])
    <2>1. CASE m = 1
      BY <1>1, <1>2, <1>3, <2>1
    <2>2. CASE m # 1
      <3>1. PICK s, t : s = f[m - 1] /\ t = seqs[m]
        OBVIOUS
      <3>2. /\ f[m] = s \o t /\ s \in Seq(E) /\ Len(s) = m - 1
            /\ t \in Seq(E) /\ Len(t) \in Nat \ {0}
        <4>1. m - 1 # 0 /\ m \in 1 .. n
          BY <1>1, <2>2
        <4> QED
          BY <1>2, <1>3, <1>6, <2>2, <3>1, <4>1
      <3>3. /\ m \in 1 .. Len(s) + Len(t) /\ ~(m <= Len(s)) /\ m - Len(s) = 1
            /\ Len(s) + Len(t) >= m
        BY <1>1, <3>2
      <3>4. s \o t \in Seq(E) /\ Len(s \o t) = Len(s) + Len(t) /\ (s \o t)[m] = t[m - Len(s)]
        BY <1>4, <3>2, <3>3
      <3> QED
        BY <3>1, <3>2, <3>3, <3>4
    <2> QED
      BY <2>1, <2>2
  <1>8. ASSUME NEW d \in 0 .. n - m, d \in Long, d < n - m PROVE d + 1 \in Long
    <2>1. /\ m + (d + 1) \in 1 .. n /\ m + (d + 1) # 1 /\ (m + (d + 1)) - 1 = m + d
          /\ d + 1 \in 0 .. n - m
      BY <1>1, <1>8
    <2>2. PICK s, t : s = f[m + d] /\ t = seqs[m + (d + 1)]
      OBVIOUS
    <2>3. Leads(s) /\ t \in Seq(E) /\ Len(s) \in Nat /\ Len(t) \in Nat
      BY <1>3, <1>8, <2>1, <2>2, LenProperties
    <2>4. Leads(s \o t)
      <3>1. m \in 1 .. Len(s) + Len(t) /\ m <= Len(s) /\ Len(s) + Len(t) >= m
        BY <1>1, <2>3
      <3> QED
        BY <1>4, <2>3, <3>1
    <2>5. f[m + (d + 1)] = s \o t
      BY <1>2, <2>1, <2>2
    <2> QED
      BY <2>1, <2>4, <2>5
  <1>9. Leads(f[n])
    <2>1. 0 \in Long /\ n - m \in Nat /\ n - m \in 0 .. n - m /\ m + (n - m) = n
      BY <1>1, <1>7
    <2> HIDE DEF Long, Leads
    <2>2. 0 .. n - m \subseteq Long
      BY <1>8, <2>1, HoldsUpTo
    <2> QED
      BY <2>1, <2>2 DEF Long
  <1> QED
    BY <1>2, <1>9

=============================================================================
