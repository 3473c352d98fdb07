------------------------------ MODULE SeqFacts ------------------------------
(***************************************************************************)
(* Facts about sequences that the proofs of several components use.        *)
(***************************************************************************)
EXTENDS DlistSeq, Integers, SequenceTheorems, TLAPS

\* A function on 1..n is a sequence of length n.
LEMMA FunctionIsSeq ==
  ASSUME NEW S, NEW n \in Nat, NEW f \in [1..n -> S]
  PROVE  f \in Seq(S) /\ Len(f) = n /\ DOMAIN f = 1..n
<1>1. f \in Seq(S)
  BY SeqDef
<1>2. Len(f) \in Nat /\ DOMAIN f = 1..Len(f)
  BY <1>1, LenProperties
<1>3. Len(f) = n
  BY <1>2
<1>4. QED
  BY <1>1, <1>3

\* t is a node of the list s; s has no node twice.
Has(s, t)   == \E i \in 1..Len(s) : s[i] = t
Distinct(s) == \A i, j \in 1..Len(s) : s[i] = s[j] => i = j

\* What linking a node into a list does.
LEMMA InsertFacts ==
  ASSUME NEW S, NEW s \in Seq(S), NEW t \in S, NEW k \in 1..(Len(s) + 1)
  PROVE  /\ InsertBefore(s, k, t) \in Seq(S)
         /\ Len(InsertBefore(s, k, t)) = Len(s) + 1
         /\ \A j \in 1..(Len(s) + 1) : InsertBefore(s, k, t)[j] =
               IF j < k THEN s[j] ELSE IF j = k THEN t ELSE s[j - 1]
         /\ \A u : Has(InsertBefore(s, k, t), u) <=> Has(s, u) \/ u = t
<1> DEFINE r == InsertBefore(s, k, t)
<1>0. Len(s) \in Nat
  BY LenProperties
<1>1. r \in [1..(Len(s) + 1) -> S]
  BY <1>0, ElementOfSeq DEF InsertBefore
<1>2. r \in Seq(S) /\ Len(r) = Len(s) + 1
  BY <1>0, <1>1, FunctionIsSeq
<1>3. \A j \in 1..(Len(s) + 1) :
         r[j] = IF j < k THEN s[j] ELSE IF j = k THEN t ELSE s[j - 1]
  BY DEF InsertBefore
<1> HIDE DEF r
<1>4. ASSUME NEW u PROVE Has(r, u) <=> Has(s, u) \/ u = t
  <2>1. ASSUME Has(r, u) PROVE Has(s, u) \/ u = t
    <3>1. PICK j \in 1..(Len(s) + 1) : r[j] = u
      BY <1>2, <2>1 DEF Has
    <3>2. CASE j < k
      BY <1>0, <1>3, <3>1, <3>2 DEF Has
    <3>3. CASE j = k
      BY <1>3, <3>1, <3>3
    <3>4. CASE j > k
      <4>1. j - 1 \in 1..Len(s) /\ s[j - 1] = u
        BY <1>0, <1>3, <3>1, <3>4
      <4>2. QED
        BY <4>1 DEF Has
    <3>5. QED
      BY <1>0, <3>2, <3>3, <3>4
  <2>2. ASSUME u = t PROVE Has(r, u)
    BY <1>0, <1>2, <1>3, <2>2 DEF Has
  <2>3. ASSUME Has(s, u) PROVE Has(r, u)
    <3>1. PICK i \in 1..Len(s) : s[i] = u
      BY <2>3 DEF Has
    <3>2. CASE i < k
      BY <1>0, <1>2, <1>3, <3>1, <3>2 DEF Has
    <3>3. CASE i >= k
      <4>1. i + 1 \in 1..(Len(s) + 1) /\ r[i + 1] = u
        BY <1>0, <1>3, <3>1, <3>3
      <4>2. QED
        BY <1>2, <4>1 DEF Has
    <3>4. QED
      BY <1>0, <3>2, <3>3
  <2>4. QED
    BY <2>1, <2>2, <2>3
<1>5. QED
  BY <1>2, <1>3, <1>4 DEF r

\* What taking a node out of a list does.
LEMMA RemoveFacts ==
  ASSUME NEW S, NEW s \in Seq(S), NEW k \in 1..Len(s), Distinct(s)
  PROVE  /\ RemoveNode(s, k) \in Seq(S)
         /\ Len(RemoveNode(s, k)) = Len(s) - 1
         /\ \A j \in 1..(Len(s) - 1) : RemoveNode(s, k)[j] = IF j < k THEN s[j] ELSE s[j + 1]
         /\ \A u : Has(RemoveNode(s, k), u) <=> Has(s, u) /\ u # s[k]
<1> DEFINE r == RemoveNode(s, k)
<1>0. Len(s) \in Nat /\ Len(s) - 1 \in Nat
  BY LenProperties
<1>1. r \in [1..(Len(s) - 1) -> S]
  BY <1>0, ElementOfSeq DEF RemoveNode
<1>2. r \in Seq(S) /\ Len(r) = Len(s) - 1
  BY <1>0, <1>1, FunctionIsSeq
<1>3. \A j \in 1..(Len(s) - 1) : r[j] = IF j < k THEN s[j] ELSE s[j + 1]
  BY DEF RemoveNode
<1> HIDE DEF r
<1>4. ASSUME NEW u PROVE Has(r, u) <=> Has(s, u) /\ u # s[k]
  <2>1. ASSUME Has(r, u) PROVE Has(s, u) /\ u # s[k]
    <3>1. PICK j \in 1..(Len(s) - 1) : r[j] = u
      BY <1>2, <2>1 DEF Has
    <3>2. PICK i \in 1..Len(s) : i # k /\ s[i] = u
      <4>1. CASE j < k
        BY <1>0, <1>3, <3>1, <4>1
      <4>2. CASE j >= k
        <5>1. j + 1 \in 1..Len(s) /\ j + 1 # k /\ s[j + 1] = u
          BY <1>0, <1>3, <3>1, <4>2
        <5>2. QED
          BY <5>1
      <4>3. QED
        BY <1>0, <4>1, <4>2
    <3>3. QED
      BY <3>2 DEF Has, Distinct
  <2>2. ASSUME Has(s, u), u # s[k] PROVE Has(r, u)
    <3>1. PICK i \in 1..Len(s) : s[i] = u /\ i # k
      BY <2>2 DEF Has
    <3>2. CASE i < k
      <4>1. i \in 1..(Len(s) - 1) /\ r[i] = u
        BY <1>0, <1>3, <3>1, <3>2
      <4>2. QED
        BY <1>2, <4>1 DEF Has
    <3>3. CASE i > k
      <4>1. i - 1 \in 1..(Len(s) - 1) /\ r[i - 1] = u
        BY <1>0, <1>3, <3>1, <3>3
      <4>2. QED
        BY <1>2, <4>1 DEF Has
    <3>4. QED
      BY <1>0, <3>1, <3>2, <3>3
  <2>3. QED
    BY <2>1, <2>2
<1>5. QED
  BY <1>2, <1>3, <1>4 DEF r

\* Taking a node out leaves no node twice.
LEMMA RemoveDistinct ==
  ASSUME NEW S, NEW s \in Seq(S), NEW k \in 1..Len(s), Distinct(s)
  PROVE  Distinct(RemoveNode(s, k))
<1> DEFINE r == RemoveNode(s, k)
            m(j) == IF j < k THEN j ELSE j + 1
<1>1. Len(s) \in Nat
  BY LenProperties
<1>2. Len(r) = Len(s) - 1 /\ \A j \in 1..(Len(s) - 1) : r[j] = IF j < k THEN s[j] ELSE s[j + 1]
  BY RemoveFacts
<1>3. \A j \in 1..Len(r) : m(j) \in 1..Len(s) /\ r[j] = s[m(j)]
  BY <1>1, <1>2
<1>4. \A i, j \in 1..Len(r) : m(i) = m(j) => i = j
  BY <1>1, <1>2
<1> HIDE DEF r, m
<1>5. Distinct(r)
  BY <1>3, <1>4 DEF Distinct
<1>6. QED
  BY <1>5 DEF r

\* Linking a new node in leaves no node twice.
LEMMA InsertDistinct ==
  ASSUME NEW S, NEW s \in Seq(S), NEW t \in S, NEW k \in 1..(Len(s) + 1),
         Distinct(s), ~Has(s, t)
  PROVE  Distinct(InsertBefore(s, k, t))
<1> DEFINE r == InsertBefore(s, k, t)
            m(j) == IF j < k THEN j ELSE j - 1
<1>1. Len(s) \in Nat
  BY LenProperties
<1>2. /\ Len(r) = Len(s) + 1
      /\ \A j \in 1..(Len(s) + 1) : r[j] = IF j < k THEN s[j] ELSE IF j = k THEN t ELSE s[j - 1]
  BY InsertFacts
<1>3. \A j \in 1..Len(r) : j # k => m(j) \in 1..Len(s) /\ r[j] = s[m(j)]
  BY <1>1, <1>2
<1>4. \A i, j \in 1..Len(r) : i # k /\ j # k /\ m(i) = m(j) => i = j
  BY <1>1, <1>2
<1>5. k \in 1..Len(r) /\ r[k] = t
  BY <1>1, <1>2
<1> HIDE DEF r, m
<1>6. \A j \in 1..Len(r) : j # k => r[j] # t
  BY <1>3 DEF Has
<1>7. ASSUME NEW i \in 1..Len(r), NEW j \in 1..Len(r), r[i] = r[j] PROVE i = j
  <2>1. CASE i = k \/ j = k
    BY <1>5, <1>6, <1>7, <2>1
  <2>2. CASE i # k /\ j # k
    <3>1. s[m(i)] = s[m(j)] /\ m(i) \in 1..Len(s) /\ m(j) \in 1..Len(s)
      BY <1>3, <1>7, <2>2
    <3>2. m(i) = m(j)
      BY <3>1 DEF Distinct
    <3>3. QED
      BY <1>4, <2>2, <3>2
  <2>3. QED
    BY <2>1, <2>2
<1>8. QED
  BY <1>7 DEF Distinct, r
=============================================================================
