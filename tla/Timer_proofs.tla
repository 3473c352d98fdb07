---------------------------- MODULE Timer_proofs ----------------------------
(***************************************************************************)
(* Proofs about Timer, for any number of timers, any timeouts and any      *)
(* uptime below the wrap of the tick counter.                              *)
(***************************************************************************)
EXTENDS Timer, SeqFacts

\* s is in the order of tg.
Ordered(s, tg) == \A i, j \in 1..Len(s) : i < j => tg[s[i]] <= tg[s[j]]

\* The place of t in the order of s is before the k-th node.
Fits(s, tg, t, k) ==
    /\ \A j \in 1..(k - 1) : tg[s[j]] <= tg[t]
    /\ \A j \in k..Len(s) : tg[s[j]] >= tg[t]

\* A walk from this node skips no place of t: no node before it is later.
GoodStart(s, tg, t, from) == \A j \in 1..(from - 1) : tg[s[j]] <= tg[t]

\* The walk ends: it meets the guard or a node that is not earlier than t.
Stops(s, tg, t, from) == from > 1 \/ \E i \in 1..Len(s) : tg[s[i]] >= tg[t]

\* s2 is s in order, with t linked or not.
MayLink(s, s2, tg, t) ==
    /\ s2 \in Seq(Timer) /\ Distinct(s2) /\ Ordered(s2, tg)
    /\ \A u : u # t => (Has(s2, u) <=> Has(s, u))

\* Taking a node out keeps a list distinct and in order.
LEMMA RemoveKeeps ==
  ASSUME NEW s \in Seq(Timer), NEW k \in 1..Len(s), NEW tg \in [Timer -> Nat],
         Distinct(s), Ordered(s, tg)
  PROVE  Distinct(RemoveNode(s, k)) /\ Ordered(RemoveNode(s, k), tg)
<1> DEFINE r == RemoveNode(s, k)
<1>0. Len(s) \in Nat
  BY LenProperties
<1>1. /\ Len(r) = Len(s) - 1
      /\ \A j \in 1..(Len(s) - 1) : r[j] = IF j < k THEN s[j] ELSE s[j + 1]
  BY RemoveFacts
<1> DEFINE m(j) == IF j < k THEN j ELSE j + 1
<1>2. \A j \in 1..Len(r) : m(j) \in 1..Len(s) /\ r[j] = s[m(j)]
  BY <1>0, <1>1
<1>3. \A i, j \in 1..Len(r) : (m(i) = m(j) => i = j) /\ (i < j => m(i) < m(j))
  BY <1>0, <1>1
<1> HIDE DEF r, m
<1>4. Distinct(r)
  BY <1>2, <1>3 DEF Distinct
<1>5. Ordered(r, tg)
  BY <1>2, <1>3 DEF Ordered
<1>6. QED
  BY <1>4, <1>5 DEF r

\* Appending a node is linking it before the guard.
LEMMA AppendIsInsert ==
  ASSUME NEW s \in Seq(Timer), NEW t \in Timer
  PROVE  Append(s, t) = InsertBefore(s, Len(s) + 1, t)
<1>0. Len(s) \in Nat
  BY LenProperties
<1>1. /\ Append(s, t) \in Seq(Timer)
      /\ Len(Append(s, t)) = Len(s) + 1
      /\ \A i \in 1..Len(s) : Append(s, t)[i] = s[i]
      /\ Append(s, t)[Len(s) + 1] = t
  BY AppendProperties
<1>2. Len(s) + 1 \in 1..(Len(s) + 1)
  BY <1>0
<1>3. /\ InsertBefore(s, Len(s) + 1, t) \in Seq(Timer)
      /\ Len(InsertBefore(s, Len(s) + 1, t)) = Len(s) + 1
      /\ \A j \in 1..(Len(s) + 1) : InsertBefore(s, Len(s) + 1, t)[j] =
            IF j < Len(s) + 1 THEN s[j] ELSE IF j = Len(s) + 1 THEN t ELSE s[j - 1]
  <2> DEFINE k == Len(s) + 1
  <2>1. k \in 1..(Len(s) + 1)
    BY <1>2
  <2> HIDE DEF k
  <2>2. /\ InsertBefore(s, k, t) \in Seq(Timer)
        /\ Len(InsertBefore(s, k, t)) = Len(s) + 1
        /\ \A j \in 1..(Len(s) + 1) : InsertBefore(s, k, t)[j] =
              IF j < k THEN s[j] ELSE IF j = k THEN t ELSE s[j - 1]
    BY <2>1, InsertFacts
  <2>3. QED
    BY <2>2 DEF k
<1>4. \A j \in 1..(Len(s) + 1) : Append(s, t)[j] = InsertBefore(s, Len(s) + 1, t)[j]
  BY <1>0, <1>1, <1>3
<1>5. QED
  BY <1>1, <1>3, <1>4, SeqEqual

\* A node linked behind the nodes that are not later and before the ones that
\* are not earlier keeps the list distinct and in order.
LEMMA InsertKeeps ==
  ASSUME NEW s \in Seq(Timer), NEW tg \in [Timer -> Nat], NEW t \in Timer,
         NEW k \in 1..(Len(s) + 1),
         Distinct(s), Ordered(s, tg), ~Has(s, t), Fits(s, tg, t, k)
  PROVE  /\ InsertBefore(s, k, t) \in Seq(Timer)
         /\ Distinct(InsertBefore(s, k, t))
         /\ Ordered(InsertBefore(s, k, t), tg)
         /\ \A u : Has(InsertBefore(s, k, t), u) <=> Has(s, u) \/ u = t
<1> DEFINE s2 == InsertBefore(s, k, t)
<1>0. Len(s) \in Nat /\ \A i \in 1..Len(s) : s[i] \in Timer /\ tg[s[i]] \in Nat /\ tg[t] \in Nat
  BY LenProperties, ElementOfSeq
<1>2. /\ s2 \in Seq(Timer)
      /\ Len(s2) = Len(s) + 1
      /\ \A j \in 1..(Len(s) + 1) : s2[j] =
            IF j < k THEN s[j] ELSE IF j = k THEN t ELSE s[j - 1]
      /\ \A u : Has(s2, u) <=> Has(s, u) \/ u = t
  BY InsertFacts, Zenon
<1> HIDE DEF s2
\* Where the nodes of s are in s2.
<1> DEFINE m(j) == IF j < k THEN j ELSE j - 1
<1>3. ASSUME NEW j \in 1..Len(s2), j # k
      PROVE  m(j) \in 1..Len(s) /\ s2[j] = s[m(j)]
  <2>1. j \in 1..(Len(s) + 1) /\ k \in Nat /\ Len(s) \in Nat
    BY <1>0, <1>2
  <2>2. s2[j] = IF j < k THEN s[j] ELSE IF j = k THEN t ELSE s[j - 1]
    BY <1>2, <2>1
  <2>3. m(j) \in 1..Len(s)
    BY <1>3, <2>1
  <2>4. s2[j] = s[m(j)]
    BY <1>3, <2>2
  <2>5. QED
    BY <2>3, <2>4
<1>4. /\ \A i, j \in 1..Len(s2) : i # k /\ j # k =>
            (m(i) = m(j) => i = j) /\ (i < j => m(i) < m(j))
      /\ \A j \in 1..Len(s2) : (j < k => m(j) \in 1..(k - 1)) /\ (j > k => m(j) \in k..Len(s))
  <2>1. Len(s2) = Len(s) + 1 /\ Len(s) \in Nat
    BY <1>0, <1>2
  <2>2. QED
    BY <2>1
<1>b. k \in 1..Len(s2) /\ s2[k] = t
  BY <1>0, <1>2
<1> HIDE DEF m
<1>5. Distinct(s2)
  <2>1. \A i \in 1..Len(s) : s[i] # t
    BY DEF Has
  <2>2. \A j \in 1..Len(s2) : j # k => s2[j] # t
    BY <1>3, <2>1
  <2>3. \A i, j \in 1..Len(s2) : i # k /\ j # k /\ s2[i] = s2[j] => i = j
    <3> TAKE i, j \in 1..Len(s2)
    <3> HAVE i # k /\ j # k /\ s2[i] = s2[j]
    <3>1. m(i) \in 1..Len(s) /\ m(j) \in 1..Len(s) /\ s[m(i)] = s[m(j)]
      BY <1>3
    <3>2. m(i) = m(j)
      BY <3>1 DEF Distinct
    <3>3. QED
      BY <1>4, <3>2
  <2>4. QED
    BY <1>b, <2>2, <2>3 DEF Distinct
<1>6. Ordered(s2, tg)
  <2> SUFFICES ASSUME NEW i \in 1..Len(s2), NEW j \in 1..Len(s2), i < j
               PROVE  tg[s2[i]] <= tg[s2[j]]
    BY DEF Ordered
  <2>1. CASE i # k /\ j # k
    BY <1>3, <1>4, <2>1 DEF Ordered
  <2>2. CASE i = k
    <3>1. m(j) \in k..Len(s) /\ s2[j] = s[m(j)]
      BY <1>0, <1>2, <1>3, <1>4, <2>2
    <3>2. QED
      BY <1>b, <2>2, <3>1 DEF Fits
  <2>3. CASE j = k
    <3>1. m(i) \in 1..(k - 1) /\ s2[i] = s[m(i)]
      BY <1>0, <1>2, <1>3, <1>4, <2>3
    <3>2. QED
      BY <1>b, <2>3, <3>1 DEF Fits
  <2>4. QED
    BY <2>1, <2>2, <2>3
<1>7. QED
  BY <1>2, <1>5, <1>6 DEF s2

(***************************************************************************)
(* The walk of timer_settimer keeps the list in order, and links t in its  *)
(* place unless it started at the guard and every node is earlier than t.  *)
(***************************************************************************)
LEMMA WalkKeeps ==
  ASSUME NEW s \in Seq(Timer), NEW s2, NEW tg \in [Timer -> Nat], NEW t \in Timer,
         NEW from \in 1..(Len(s) + 1),
         Distinct(s), Ordered(s, tg), ~Has(s, t), GoodStart(s, tg, t, from),
         WalkInsert(s, s2, tg, t, from)
  PROVE  MayLink(s, s2, tg, t) /\ (Stops(s, tg, t, from) => Has(s2, t))
<1>0. Len(s) \in Nat /\ \A i \in 1..Len(s) : s[i] \in Timer /\ tg[s[i]] \in Nat /\ tg[t] \in Nat
  BY LenProperties, ElementOfSeq
<1>1. ASSUME NEW k \in 1..(Len(s) + 1), s2 = InsertBefore(s, k, t), Fits(s, tg, t, k)
      PROVE  MayLink(s, s2, tg, t) /\ Has(s2, t)
  <2>1. /\ InsertBefore(s, k, t) \in Seq(Timer)
        /\ Distinct(InsertBefore(s, k, t))
        /\ Ordered(InsertBefore(s, k, t), tg)
        /\ \A u : Has(InsertBefore(s, k, t), u) <=> Has(s, u) \/ u = t
    BY <1>1, InsertKeeps, Zenon
  <2>2. QED
    BY <1>1, <2>1, Zenon DEF MayLink
<1>2. CASE \E i \in from..Len(s) :
              /\ tg[s[i]] >= tg[t]
              /\ \A j \in from..(i - 1) : tg[s[j]] < tg[t]
              /\ s2 = InsertBefore(s, i, t)
  <2>1. PICK i \in from..Len(s) :
           /\ tg[s[i]] >= tg[t]
           /\ \A j \in from..(i - 1) : tg[s[j]] < tg[t]
           /\ s2 = InsertBefore(s, i, t)
    BY <1>2
  <2>2. \A j \in 1..(i - 1) : tg[s[j]] <= tg[t]
    BY <1>0, <2>1 DEF GoodStart
  <2>3. \A j \in i..Len(s) : tg[s[j]] >= tg[t]
    BY <1>0, <2>1 DEF Ordered
  <2>4. i \in 1..(Len(s) + 1) /\ Fits(s, tg, t, i)
    BY <1>0, <2>2, <2>3 DEF Fits
  <2>5. QED
    BY <1>1, <2>1, <2>4
<1>3. CASE /\ \A j \in from..Len(s) : tg[s[j]] < tg[t]
           /\ s2 = IF from > 1 THEN Append(s, t) ELSE s
  <2>1. CASE from > 1
    <3>1. s2 = InsertBefore(s, Len(s) + 1, t)
      BY <1>3, <2>1, AppendIsInsert
    <3>2. \A j \in 1..Len(s) : tg[s[j]] <= tg[t]
      BY <1>0, <1>3 DEF GoodStart
    <3>3. Len(s) + 1 \in 1..(Len(s) + 1) /\ Fits(s, tg, t, Len(s) + 1)
      BY <1>0, <3>2 DEF Fits
    <3>4. QED
      BY <1>1, <3>1, <3>3
  <2>2. CASE ~(from > 1)
    <3>1. s2 = s /\ from = 1
      BY <1>0, <1>3, <2>2
    <3>2. ~Stops(s, tg, t, from)
      BY <1>0, <1>3, <3>1 DEF Stops
    <3>3. QED
      BY <3>1, <3>2 DEF MayLink
  <2>3. QED
    BY <2>1, <2>2
<1>4. QED
  BY <1>2, <1>3 DEF WalkInsert

\* A node appended behind nodes that are not later keeps the list in order.
LEMMA AppendKeeps ==
  ASSUME NEW s \in Seq(Timer), NEW tg \in [Timer -> Nat], NEW t \in Timer,
         Distinct(s), Ordered(s, tg), ~Has(s, t),
         \A j \in 1..Len(s) : tg[s[j]] <= tg[t]
  PROVE  /\ Append(s, t) \in Seq(Timer)
         /\ Distinct(Append(s, t))
         /\ Ordered(Append(s, t), tg)
         /\ \A u : Has(Append(s, t), u) <=> Has(s, u) \/ u = t
<1>1. Len(s) \in Nat
  BY LenProperties
<1>2. PICK k \in 1..(Len(s) + 1) : k = Len(s) + 1
  BY <1>1
<1>a. Fits(s, tg, t, k)
  BY <1>1, <1>2 DEF Fits
<1>3. /\ InsertBefore(s, k, t) \in Seq(Timer)
      /\ Distinct(InsertBefore(s, k, t))
      /\ Ordered(InsertBefore(s, k, t), tg)
      /\ \A u : Has(InsertBefore(s, k, t), u) <=> Has(s, u) \/ u = t
  BY <1>a, InsertKeeps, Zenon
<1>4. QED
  BY <1>2, <1>3, AppendIsInsert, Zenon

\* What is left of a list when its first k nodes fire.
LEMMA TailFacts ==
  ASSUME NEW s \in Seq(Timer), NEW tg \in [Timer -> Nat], NEW k \in 0..Len(s),
         Distinct(s), Ordered(s, tg)
  PROVE  /\ SubSeq(s, k + 1, Len(s)) \in Seq(Timer)
         /\ Distinct(SubSeq(s, k + 1, Len(s)))
         /\ Ordered(SubSeq(s, k + 1, Len(s)), tg)
         /\ \A u : Has(SubSeq(s, k + 1, Len(s)), u) <=>
                      Has(s, u) /\ u \notin {s[i] : i \in 1..k}
         /\ Len(SubSeq(s, k + 1, Len(s))) = Len(s) - k
         /\ \A j \in 1..(Len(s) - k) : SubSeq(s, k + 1, Len(s))[j] = s[j + k]
<1> DEFINE r == SubSeq(s, k + 1, Len(s))
<1>0. Len(s) \in Nat
  BY LenProperties
<1>1. r \in Seq(Timer) /\ Len(r) = Len(s) - k
  BY <1>0, SubSeqProperties
<1>2. \A j \in 1..(Len(s) - k) : r[j] = s[j + k]
  <2> TAKE j \in 1..(Len(s) - k)
  <2>1. r[j] = s[(k + 1) + j - 1]
    BY <1>0, SubSeqProperties
  <2>2. (k + 1) + j - 1 = j + k
    BY <1>0
  <2>3. QED
    BY <2>1, <2>2
<1> HIDE DEF r
<1>3. \A j \in 1..Len(r) : j + k \in 1..Len(s) /\ r[j] = s[j + k]
  <2> TAKE j \in 1..Len(r)
  <2>1. j \in 1..(Len(s) - k) /\ j + k \in 1..Len(s)
    BY <1>0, <1>1
  <2>2. QED
    BY <1>2, <2>1
<1>4. Distinct(r)
  <2> SUFFICES ASSUME NEW i \in 1..Len(r), NEW j \in 1..Len(r), r[i] = r[j]
               PROVE  i = j
    BY DEF Distinct
  <2>1. i + k = j + k
    BY <1>3 DEF Distinct
  <2>2. QED
    BY <1>0, <1>1, <2>1
<1>5. Ordered(r, tg)
  <2> SUFFICES ASSUME NEW i \in 1..Len(r), NEW j \in 1..Len(r), i < j
               PROVE  tg[r[i]] <= tg[r[j]]
    BY DEF Ordered
  <2>1. i + k < j + k
    BY <1>0, <1>1
  <2>2. tg[s[i + k]] <= tg[s[j + k]]
    BY <1>3, <2>1 DEF Ordered
  <2>3. QED
    BY <1>3, <2>2
<1>6. ASSUME NEW u PROVE Has(r, u) <=> Has(s, u) /\ u \notin {s[i] : i \in 1..k}
  <2>1. ASSUME Has(r, u) PROVE Has(s, u) /\ u \notin {s[i] : i \in 1..k}
    <3>1. PICK j \in 1..Len(r) : r[j] = u
      BY <2>1 DEF Has
    <3>2. j + k \in 1..Len(s) /\ s[j + k] = u
      BY <1>3, <3>1
    <3>3. \A i \in 1..k : i \in 1..Len(s) /\ i # j + k
      BY <1>0, <1>1
    <3>4. \A i \in 1..k : s[i] # u
      BY <3>2, <3>3 DEF Distinct
    <3>5. QED
      BY <3>2, <3>4 DEF Has
  <2>2. ASSUME Has(s, u), u \notin {s[i] : i \in 1..k} PROVE Has(r, u)
    <3>1. PICK i \in 1..Len(s) : s[i] = u
      BY <2>2 DEF Has
    <3>2. ~(i \in 1..k)
      BY <2>2, <3>1
    <3>3. i - k \in 1..Len(r) /\ (i - k) + k = i
      BY <1>0, <1>1, <3>2
    <3>4. r[i - k] = u
      BY <1>3, <3>1, <3>3
    <3>5. QED
      BY <3>3, <3>4 DEF Has
  <2>3. QED
    BY <2>1, <2>2
<1>7. QED
  BY <1>1, <1>2, <1>4, <1>5, <1>6 DEF r

\* Setting the target of a timer that is not in a list keeps the list's order.
LEMMA Retarget ==
  ASSUME NEW s \in Seq(Timer), NEW tg \in [Timer -> Nat], NEW t \in Timer, NEW v \in Nat,
         Ordered(s, tg), ~Has(s, t)
  PROVE  Ordered(s, [tg EXCEPT ![t] = v])
<1>1. \A i \in 1..Len(s) : s[i] \in Timer /\ s[i] # t
  BY ElementOfSeq DEF Has
<1>2. \A i \in 1..Len(s) : [tg EXCEPT ![t] = v][s[i]] = tg[s[i]]
  BY <1>1
<1>3. QED
  BY <1>2 DEF Ordered

\* Arming a timer that is out of the list, from the head of the list: a free
\* timer in it, whose target is the latest there is, makes sure it is linked.
LEMMA ArmKeeps ==
  ASSUME NEW s \in Seq(Timer), NEW s2, NEW tg \in [Timer -> Nat], NEW t \in Timer,
         NEW v \in Nat, v < UINT32_MAX,
         Distinct(s), Ordered(s, tg), ~Has(s, t),
         WalkInsert(s, s2, [tg EXCEPT ![t] = v], t, 1)
  PROVE  /\ MayLink(s, s2, [tg EXCEPT ![t] = v], t)
         /\ (\E f \in Timer : Has(s, f) /\ tg[f] = UINT32_MAX) => Has(s2, t)
<1> DEFINE tg2 == [tg EXCEPT ![t] = v]
<1>1. tg2 \in [Timer -> Nat] /\ tg2[t] = v
  OBVIOUS
<1>2. Ordered(s, tg2)
  BY Retarget
<1>3. 1 \in 1..(Len(s) + 1)
  BY LenProperties
<1>4. GoodStart(s, tg2, t, 1)
  BY DEF GoodStart
<1>5. ASSUME NEW f \in Timer, Has(s, f), tg[f] = UINT32_MAX PROVE Stops(s, tg2, t, 1)
  <2>1. f # t /\ tg2[f] = UINT32_MAX
    BY <1>5
  <2>2. PICK i \in 1..Len(s) : s[i] = f
    BY <1>5 DEF Has
  <2>3. tg2[s[i]] >= tg2[t]
    BY <1>1, <2>1, <2>2, TimerAssumption
  <2>4. QED
    BY <2>3 DEF Stops
<1> HIDE DEF tg2
<1>6. WalkInsert(s, s2, tg2, t, 1)
  BY DEF tg2
<1>7. MayLink(s, s2, tg2, t) /\ (Stops(s, tg2, t, 1) => Has(s2, t))
  BY <1>1, <1>2, <1>3, <1>4, <1>6, WalkKeeps, Zenon
<1>8. MayLink(s, s2, [tg EXCEPT ![t] = v], t)
  BY <1>7, Zenon DEF tg2
<1>9. QED
  BY <1>5, <1>7, <1>8, Zenon

-----------------------------------------------------------------------------
(***************************************************************************)
(* The inductive invariant: the list is distinct and in order, it holds    *)
(* the timers it should, and the targets keep the free timers at its end,  *)
(* where one of them stops the walk of timer_settimer.                     *)
(***************************************************************************)
Members == \A t \in Timer :
              /\ flags[t] = "ALLOCATED" => ~Has(dl, t)
              /\ flags[t] = "FREE" => Has(dl, t)
              /\ flags[t] = "ONCOUNTDOWN" /\ t \notin crowded => Has(dl, t)
Targets == \A t \in Timer : /\ target[t] <= UINT32_MAX
                            /\ flags[t] = "FREE" => target[t] = UINT32_MAX

Inv == TypeOK /\ Distinct(dl) /\ Ordered(dl, target) /\ Members /\ Targets

LEMMA InvGivesList == Inv => ListExact
<1> SUFFICES ASSUME Inv PROVE ListExact
  OBVIOUS
<1>1. DOMAIN dl = 1..Len(dl)
  BY LenProperties DEF Inv, TypeOK
<1>2. ListOrder
  BY <1>1 DEF Inv, Ordered, ListOrder
<1>3. \A t : Linked(t) <=> Has(dl, t)
  BY <1>1 DEF Linked, Has
<1>4. QED
  BY <1>1, <1>2, <1>3 DEF Inv, Distinct, Members, ListExact

LEMMA InitInv == Init => Inv
<1> SUFFICES ASSUME Init PROVE Inv
  OBVIOUS
<1> USE TimerAssumption
<1>1. N - 1 \in Nat /\ tssTimer \in Timer /\ 1 \in Timer /\ tssTimer # 1
  BY DEF Timer, tssTimer
<1>2. dl \in [1..(N - 1) -> Timer] /\ \A i \in 1..(N - 1) : dl[i] = i
  BY DEF Init, Timer
<1>3. dl \in Seq(Timer) /\ Len(dl) = N - 1
  BY <1>1, <1>2, FunctionIsSeq
<1>4. TypeOK
  BY <1>3 DEF Init, TypeOK, Flag
<1>5. Distinct(dl)
  BY <1>2, <1>3 DEF Distinct
<1>6. Ordered(dl, target)
  <2>1. \A i \in 1..Len(dl) : target[dl[i]] = UINT32_MAX
    BY <1>2, <1>3 DEF Init
  <2>2. QED
    BY <2>1 DEF Ordered
<1>7. Members
  <2>1. \A t \in Timer : Has(dl, t) <=> t # tssTimer
    BY <1>2, <1>3 DEF Has, Timer, tssTimer
  <2>2. QED
    BY <2>1 DEF Init, Members
<1>8. Targets
  BY DEF Init, Targets
<1>9. QED
  BY <1>4, <1>5, <1>6, <1>7, <1>8 DEF Inv

LEMMA AllocInv ==
  ASSUME Inv, NEW t \in Timer, timer_alloc_customfifo(t)
  PROVE  Inv'
<1> USE DEF timer_alloc_customfifo
<1>1. PICK k \in 1..Len(dl) : dl[k] = t /\ dl' = RemoveNode(dl, k)
  BY LenProperties DEF Inv, TypeOK
<1>2. dl \in Seq(Timer) /\ target \in [Timer -> Nat] /\ Distinct(dl) /\ Ordered(dl, target)
  BY DEF Inv, TypeOK
<1>3. /\ RemoveNode(dl, k) \in Seq(Timer)
      /\ \A u : Has(RemoveNode(dl, k), u) <=> Has(dl, u) /\ u # dl[k]
  BY <1>2, RemoveFacts
<1>4. Distinct(RemoveNode(dl, k)) /\ Ordered(RemoveNode(dl, k), target)
  BY <1>2, RemoveKeeps
<1>5. TypeOK'
  BY <1>1, <1>3 DEF Inv, TypeOK, Flag
<1>6. Distinct(dl)' /\ Ordered(dl, target)'
  BY <1>1, <1>4
<1>7. Members'
  BY <1>1, <1>3 DEF Inv, Members, TypeOK
<1>8. Targets'
  BY DEF Inv, Targets, TypeOK
<1>9. QED
  BY <1>5, <1>6, <1>7, <1>8 DEF Inv

\* What setting t does to crowded: nobody else is touched, and t is out of it
\* only when some timer is free.
LEMMA CrowdsFacts ==
  ASSUME NEW f, NEW t \in Timer, crowded \subseteq Timer
  PROVE  /\ Crowds(f, t) \subseteq Timer
         /\ \A u : u # t => (u \in Crowds(f, t) <=> u \in crowded)
         /\ t \notin Crowds(f, t) => \E u \in Timer : f[u] = "FREE"
<1>1. CASE \E u \in Timer : f[u] = "FREE"
  BY <1>1, Zenon DEF Crowds
<1>2. CASE ~\E u \in Timer : f[u] = "FREE"
  <2>1. Crowds(f, t) = crowded \cup {t}
    BY <1>2, Zenon DEF Crowds
  <2>2. QED
    BY <2>1
<1>3. QED
  BY <1>1, <1>2

LEMMA SetInv ==
  ASSUME Inv, NEW t \in Timer, NEW n \in Timeouts, settimer_allocated(t, n)
  PROVE  Inv'
<1>0. /\ flags[t] = "ALLOCATED"
      /\ flags' = [flags EXCEPT ![t] = "ONCOUNTDOWN"]
      /\ target' = [target EXCEPT ![t] = tick + n]
      /\ next_alarm' = Lesser(next_alarm, tick + n)
      /\ crowded' = Crowds(flags, t)
      /\ UNCHANGED <<tick, plain>>
  BY DEF settimer_allocated
<1>1. dl \in Seq(Timer) /\ target \in [Timer -> Nat] /\ Distinct(dl) /\ Ordered(dl, target)
  BY DEF Inv, TypeOK
<1>2. tick + n \in Nat /\ tick + n < UINT32_MAX /\ UINT32_MAX \in Nat
  BY TimerAssumption DEF Inv, TypeOK
<1>3. ~Has(dl, t)
  BY <1>0 DEF Inv, Members
<1>4. \A f \in Timer : flags[f] = "FREE" => Has(dl, f) /\ target[f] = UINT32_MAX
  BY DEF Inv, Members, Targets
<1>5. WalkInsert(dl, dl', [target EXCEPT ![t] = tick + n], t, 1)
  BY Zenon DEF settimer_allocated
<1>6. /\ MayLink(dl, dl', [target EXCEPT ![t] = tick + n], t)
      /\ (\E f \in Timer : Has(dl, f) /\ target[f] = UINT32_MAX) => Has(dl', t)
  BY <1>1, <1>2, <1>3, <1>5, ArmKeeps, Zenon
<1>7. /\ crowded' \subseteq Timer
      /\ \A u : u # t => (u \in crowded' <=> u \in crowded)
      /\ t \notin crowded' => \E u \in Timer : flags[u] = "FREE"
  BY <1>0, CrowdsFacts DEF Inv, TypeOK
<1>8. TypeOK'
  BY <1>0, <1>2, <1>6, <1>7 DEF Inv, TypeOK, Flag, Lesser, MayLink
<1>9. Members'
  <2>1. t \notin crowded' => Has(dl', t)
    BY <1>4, <1>6, <1>7
  <2>2. \A u \in Timer : u # t => flags'[u] = flags[u] /\ (Has(dl', u) <=> Has(dl, u))
    BY <1>0, <1>6 DEF Inv, TypeOK, MayLink
  <2>3. flags'[t] = "ONCOUNTDOWN"
    BY <1>0 DEF Inv, TypeOK
  <2>4. QED
    BY <1>7, <2>1, <2>2, <2>3 DEF Inv, Members
<1>10. Targets'
  BY <1>0, <1>2 DEF Inv, Targets, TypeOK
<1>11. QED
  BY <1>0, <1>6, <1>8, <1>9, <1>10 DEF Inv, MayLink

\* The cached alarm stays a number when a node's successor provides it.
LEMMA TargetAtType ==
  ASSUME NEW s \in Seq(Timer), NEW tg \in [Timer -> Nat], NEW k \in Nat \ {0}
  PROVE  TargetAt(s, tg, k) \in Nat
<1>1. k <= Len(s) => s[k] \in Timer
  BY LenProperties, ElementOfSeq
<1>2. QED
  BY <1>1, TimerAssumption DEF TargetAt

\* The list a running timer is linked into again: without it, and a walk that
\* starts behind the nodes that are earlier.
LEMMA ResetStart ==
  ASSUME Inv, NEW t \in Timer, NEW n \in Timeouts, settimer_oncountdown(t, n)
  PROVE  \E s \in Seq(Timer) : \E from \in 1..(Len(s) + 1) :
           /\ Distinct(s) /\ Ordered(s, target) /\ ~Has(s, t)
           /\ \A u \in Timer : u # t => (Has(s, u) <=> Has(dl, u))
           /\ GoodStart(s, [target EXCEPT ![t] = tick + n], t, from)
           /\ WalkInsert(s, dl', [target EXCEPT ![t] = tick + n], t, from)
           /\ next_alarm' \in Nat
<1> DEFINE tg2 == [target EXCEPT ![t] = tick + n]
<1>1. target' = tg2
  BY DEF settimer_oncountdown
<1>2. dl \in Seq(Timer) /\ target \in [Timer -> Nat] /\ Distinct(dl) /\ Ordered(dl, target)
  BY DEF Inv, TypeOK
<1>3. tick + n \in Nat /\ tick + n < UINT32_MAX /\ UINT32_MAX \in Nat /\ next_alarm \in Nat
  BY TimerAssumption DEF Inv, TypeOK
<1>4. Len(dl) \in Nat /\ DOMAIN dl = 1..Len(dl) /\ \A i \in 1..Len(dl) : dl[i] \in Timer
  BY <1>2, LenProperties, ElementOfSeq
<1>5. tg2 \in [Timer -> Nat] /\ tg2[t] = tick + n
  BY <1>2, <1>3
<1>6. CASE {i \in DOMAIN dl : dl[i] = t} = {}
  <2>1. /\ next_alarm' = Lesser(next_alarm, tick + n)
        /\ WalkInsert(dl, dl', tg2, t, 1)
    BY <1>1, <1>6 DEF settimer_oncountdown
  <2>2. ~Has(dl, t)
    BY <1>4, <1>6 DEF Has
  <2>3. GoodStart(dl, tg2, t, 1) /\ 1 \in 1..(Len(dl) + 1)
    BY <1>4 DEF GoodStart
  <2>4. next_alarm' \in Nat
    BY <1>3, <2>1 DEF Lesser
  <2>5. QED
    BY <1>2, <2>1, <2>2, <2>3, <2>4
<1>7. CASE {i \in DOMAIN dl : dl[i] = t} # {}
  <2>1. PICK k \in 1..Len(dl) :
           /\ dl[k] = t
           /\ next_alarm' = Lesser(IF next_alarm = target[t] THEN TargetAt(dl, target, k + 1)
                                   ELSE next_alarm, tick + n)
           /\ WalkInsert(RemoveNode(dl, k), dl', target', t,
                         IF k > 1 /\ target[dl[k - 1]] < tick + n THEN k ELSE 1)
    BY <1>4, <1>7 DEF settimer_oncountdown
  <2> DEFINE s == RemoveNode(dl, k)
  <2>2. /\ s \in Seq(Timer)
        /\ Len(s) = Len(dl) - 1
        /\ \A j \in 1..(Len(dl) - 1) : s[j] = IF j < k THEN dl[j] ELSE dl[j + 1]
        /\ \A u : Has(s, u) <=> Has(dl, u) /\ u # dl[k]
    BY <1>2, RemoveFacts, Zenon
  <2>3. Distinct(s) /\ Ordered(s, target)
    BY <1>2, RemoveKeeps
  <2>4. ~Has(s, t) /\ \A u \in Timer : u # t => (Has(s, u) <=> Has(dl, u))
    BY <2>1, <2>2
  <2>5. TargetAt(dl, target, k + 1) \in Nat
    <3>1. dl \in Seq(Timer) /\ target \in [Timer -> Nat] /\ k + 1 \in Nat \ {0}
      BY <1>2, <1>4
    <3>2. QED
      BY <3>1, TargetAtType, Zenon
  <2>6. next_alarm' \in Nat
    BY <1>3, <2>1, <2>5 DEF Lesser
  <2> HIDE DEF s, tg2
  <2>7. CASE k > 1 /\ target[dl[k - 1]] < tick + n
    <3>1. WalkInsert(s, dl', tg2, t, k)
      BY <1>1, <2>1, <2>7 DEF s
    <3>2. k \in 1..(Len(s) + 1)
      BY <1>4, <2>2
    <3>3. \A j \in 1..(k - 1) : tg2[s[j]] <= tg2[t]
      <4> TAKE j \in 1..(k - 1)
      <4>0. /\ j < k /\ j \in 1..(Len(dl) - 1) /\ j \in 1..Len(dl) /\ j # k
            /\ k - 1 \in 1..Len(dl) /\ (j = k - 1 \/ j < k - 1)
        BY <1>4
      <4>1. s[j] = dl[j]
        BY <2>2, <4>0
      <4>2. target[dl[j]] <= target[dl[k - 1]]
        <5>1. CASE j < k - 1
          BY <1>2, <4>0, <5>1 DEF Ordered
        <5>2. CASE j = k - 1
          <6>1. target[dl[j]] \in Nat
            BY <1>2, <1>4, <4>0
          <6>2. QED
            BY <5>2, <6>1
        <5>3. QED
          BY <4>0, <5>1, <5>2
      <4>3. dl[j] # t
        BY <1>2, <2>1, <4>0 DEF Distinct
      <4>4. tg2[s[j]] = target[dl[j]] /\ target[dl[j]] \in Nat /\ target[dl[k - 1]] \in Nat
        BY <1>2, <1>4, <4>0, <4>1, <4>3 DEF tg2
      <4>5. QED
        BY <1>3, <1>5, <2>7, <4>2, <4>4
    <3>4. GoodStart(s, tg2, t, k)
      BY <3>3 DEF GoodStart
    <3>5. QED
      BY <2>2, <2>3, <2>4, <2>6, <3>1, <3>2, <3>4 DEF tg2
  <2>8. CASE ~(k > 1 /\ target[dl[k - 1]] < tick + n)
    <3>1. WalkInsert(s, dl', tg2, t, 1)
      BY <1>1, <2>1, <2>8 DEF s
    <3>2. 1 \in 1..(Len(s) + 1) /\ GoodStart(s, tg2, t, 1)
      BY <1>4, <2>2 DEF GoodStart
    <3>3. QED
      BY <2>2, <2>3, <2>4, <2>6, <3>1, <3>2 DEF tg2
  <2>9. QED
    BY <2>7, <2>8
<1>8. QED
  BY <1>6, <1>7

LEMMA ResetInv ==
  ASSUME Inv, NEW t \in Timer, NEW n \in Timeouts, settimer_oncountdown(t, n)
  PROVE  Inv'
<1> DEFINE tg2 == [target EXCEPT ![t] = tick + n]
<1>0. /\ flags' = flags /\ flags[t] = "ONCOUNTDOWN" /\ tick' = tick /\ target' = tg2
      /\ crowded' = Crowds(flags, t) /\ plain' = FALSE
  BY DEF settimer_oncountdown
<1>a. PICK s \in Seq(Timer) : \E from \in 1..(Len(s) + 1) :
           /\ Distinct(s) /\ Ordered(s, target) /\ ~Has(s, t)
           /\ \A u \in Timer : u # t => (Has(s, u) <=> Has(dl, u))
           /\ GoodStart(s, tg2, t, from)
           /\ WalkInsert(s, dl', tg2, t, from)
           /\ next_alarm' \in Nat
  BY ResetStart
<1>1. PICK from \in 1..(Len(s) + 1) :
           /\ Distinct(s) /\ Ordered(s, target) /\ ~Has(s, t)
           /\ \A u \in Timer : u # t => (Has(s, u) <=> Has(dl, u))
           /\ GoodStart(s, tg2, t, from)
           /\ WalkInsert(s, dl', tg2, t, from)
           /\ next_alarm' \in Nat
  BY <1>a
<1>2. target \in [Timer -> Nat]
  BY DEF Inv, TypeOK
<1>3. tick + n \in Nat /\ tick + n < UINT32_MAX /\ UINT32_MAX \in Nat
  BY TimerAssumption DEF Inv, TypeOK
<1>4. tg2 \in [Timer -> Nat] /\ \A u \in Timer : tg2[u] = IF u = t THEN tick + n ELSE target[u]
  BY <1>2, <1>3
<1>5. Ordered(s, tg2)
  BY <1>1, <1>2, <1>3, Retarget
<1> HIDE DEF tg2
<1>6. MayLink(s, dl', tg2, t) /\ (Stops(s, tg2, t, from) => Has(dl', t))
  BY <1>1, <1>4, <1>5, WalkKeeps, Zenon
<1>7. /\ crowded' \subseteq Timer
      /\ \A u : u # t => (u \in crowded' <=> u \in crowded)
      /\ t \notin crowded' => \E u \in Timer : flags[u] = "FREE"
  BY <1>0, CrowdsFacts DEF Inv, TypeOK
<1>8. TypeOK'
  BY <1>0, <1>1, <1>4, <1>6, <1>7 DEF Inv, TypeOK, MayLink
<1>9. Members'
  <2>1. ASSUME t \notin crowded' PROVE Has(dl', t)
    <3>1. PICK f \in Timer : flags[f] = "FREE"
      BY <1>7, <2>1
    <3>2. f # t /\ Has(s, f) /\ target[f] = UINT32_MAX
      BY <1>0, <1>1, <3>1 DEF Inv, Members, Targets
    <3>3. PICK i \in 1..Len(s) : s[i] = f
      BY <3>2 DEF Has
    <3>4. tg2[s[i]] >= tg2[t]
      BY <1>3, <1>4, <3>2, <3>3
    <3>5. QED
      BY <1>6, <3>4 DEF Stops
  <2>2. \A u \in Timer : u # t => (Has(dl', u) <=> Has(dl, u))
    BY <1>1, <1>6 DEF MayLink
  <2>3. QED
    BY <1>0, <1>7, <2>1, <2>2 DEF Inv, Members
<1>10. Targets'
  BY <1>0, <1>3, <1>4 DEF Inv, Targets
<1>11. QED
  BY <1>0, <1>6, <1>8, <1>9, <1>10 DEF Inv, MayLink

LEMMA FreeInv ==
  ASSUME Inv, NEW t \in Timer, timer_free(t)
  PROVE  Inv'
<1> DEFINE tg2 == [target EXCEPT ![t] = UINT32_MAX]
<1>1. /\ flags' = [flags EXCEPT ![t] = "FREE"]
      /\ target' = tg2
      /\ crowded' = crowded \ {t} /\ plain' = FALSE
      /\ UNCHANGED tick
  BY DEF timer_free
<1>2. dl \in Seq(Timer) /\ target \in [Timer -> Nat] /\ Distinct(dl) /\ Ordered(dl, target)
  BY DEF Inv, TypeOK
<1>3. tg2 \in [Timer -> Nat] /\ \A u \in Timer : tg2[u] <= tg2[t]
  BY TimerAssumption DEF Inv, TypeOK, Targets
<1>4. PICK s \in Seq(Timer) :
         /\ dl' = Append(s, t) /\ next_alarm' \in Nat
         /\ Distinct(s) /\ Ordered(s, target) /\ ~Has(s, t)
         /\ \A u \in Timer : u # t => (Has(s, u) <=> Has(dl, u))
  <2>1. DOMAIN dl = 1..Len(dl)
    BY <1>2, LenProperties
  <2>2. CASE {i \in DOMAIN dl : dl[i] = t} = {}
    <3>1. dl' = Append(dl, t) /\ next_alarm' = next_alarm
      BY <2>2 DEF timer_free
    <3>2. ~Has(dl, t)
      BY <2>1, <2>2 DEF Has
    <3>3. QED
      BY <1>2, <3>1, <3>2 DEF Inv, TypeOK
  <2>3. CASE {i \in DOMAIN dl : dl[i] = t} # {}
    <3>1. PICK k \in 1..Len(dl) :
             /\ dl[k] = t
             /\ next_alarm' = IF flags[t] = "ONCOUNTDOWN" /\ next_alarm = target[t]
                              THEN TargetAt(dl, target, k + 1) ELSE next_alarm
             /\ dl' = Append(RemoveNode(dl, k), t)
      BY <2>1, <2>3 DEF timer_free
    <3>2. TargetAt(dl, target, k + 1) \in Nat
      <4>1. dl \in Seq(Timer) /\ target \in [Timer -> Nat] /\ k + 1 \in Nat \ {0}
        BY <1>2, <2>1, LenProperties
      <4>2. QED
        BY <4>1, TargetAtType, Zenon
    <3>3. /\ RemoveNode(dl, k) \in Seq(Timer)
          /\ \A u : Has(RemoveNode(dl, k), u) <=> Has(dl, u) /\ u # dl[k]
      BY <1>2, RemoveFacts
    <3>4. Distinct(RemoveNode(dl, k)) /\ Ordered(RemoveNode(dl, k), target)
      BY <1>2, RemoveKeeps
    <3>5. next_alarm' \in Nat
      BY <3>1, <3>2 DEF Inv, TypeOK
    <3>6. QED
      BY <3>1, <3>3, <3>4, <3>5
  <2>4. QED
    BY <2>2, <2>3
<1>5. Ordered(s, tg2)
  BY <1>2, <1>4, Retarget, TimerAssumption
<1> HIDE DEF tg2
<1>6. \A j \in 1..Len(s) : tg2[s[j]] <= tg2[t]
  BY <1>3, ElementOfSeq
<1>7. /\ Append(s, t) \in Seq(Timer)
      /\ Distinct(Append(s, t))
      /\ Ordered(Append(s, t), tg2)
      /\ \A u : Has(Append(s, t), u) <=> Has(s, u) \/ u = t
  BY <1>3, <1>4, <1>5, <1>6, AppendKeeps
<1>8. TypeOK'
  BY <1>1, <1>3, <1>4, <1>7 DEF Inv, TypeOK, Flag
<1>9. Distinct(dl)' /\ Ordered(dl, target)'
  BY <1>1, <1>4, <1>7
<1>10. Members'
  BY <1>1, <1>4, <1>7 DEF Inv, Members, TypeOK
<1>11. Targets'
  BY <1>1, TimerAssumption DEF Inv, Targets, TypeOK, tg2
<1>12. QED
  BY <1>8, <1>9, <1>10, <1>11 DEF Inv

\* What timer_int_handler does when the cached alarm is due: the timers in
\* fired leave the list, which is rest then, and tssTimer is armed again.
Fires(fired, rest) ==
    LET alarm == TargetAt(rest, target, 1)
        after == [t \in Timer |-> IF t \in fired THEN "ALLOCATED" ELSE flags[t]]
    IN  /\ Distinct(rest) /\ Ordered(rest, target)
        /\ \A u : Has(rest, u) <=> Has(dl, u) /\ u \notin fired
        /\ \A u \in Timer : u \in fired <=> Has(dl, u) /\ target[u] <= tick + 1
        /\ \/ /\ tssTimer \notin fired
              /\ flags' = after
              /\ next_alarm' = alarm
              /\ dl' = rest
              /\ crowded' = crowded \ fired
              /\ UNCHANGED target
           \/ /\ tssTimer \in fired
              /\ \E slice \in Timeouts :
                 /\ target' = [target EXCEPT ![tssTimer] = tick + 1 + slice]
                 /\ flags' = [after EXCEPT ![tssTimer] = "ONCOUNTDOWN"]
                 /\ next_alarm' = Lesser(alarm, tick + 1 + slice)
                 /\ WalkInsert(rest, dl', target', tssTimer, 1)
                 /\ crowded' = Crowds(after, tssTimer) \ (fired \ {tssTimer})

\* The nodes timer_int_handler fires from the front are all that are due.
LEMMA IntSplit ==
  ASSUME Inv, timer_int_handler
  PROVE  /\ tick' = tick + 1 /\ tick + 1 \in 0..MaxTick /\ plain' = plain
         /\ \/ next_alarm > tick + 1 /\ UNCHANGED <<next_alarm, flags, target, dl, crowded>>
            \/ \E fired \in SUBSET Timer, rest \in Seq(Timer) : Fires(fired, rest)
<1>1. tick \in 0..MaxTick /\ dl \in Seq(Timer) /\ target \in [Timer -> Nat]
  BY DEF Inv, TypeOK
<1>2. tick' = tick + 1 /\ tick + 1 \in 0..MaxTick /\ tick + 1 \in Nat /\ plain' = plain
  BY <1>1, TimerAssumption DEF timer_int_handler
<1>3. Distinct(dl) /\ Ordered(dl, target)
  BY DEF Inv
<1>4. CASE next_alarm > tick + 1 /\ UNCHANGED <<next_alarm, flags, target, dl, crowded>>
  BY <1>2, <1>4
<1>5. CASE ~(next_alarm > tick + 1 /\ UNCHANGED <<next_alarm, flags, target, dl, crowded>>)
  <2> DEFINE first(k) == {dl[i] : i \in 1..k}
             left(k)  == SubSeq(dl, k + 1, Len(dl))
             after(k) == [t \in Timer |-> IF t \in first(k) THEN "ALLOCATED" ELSE flags[t]]
             Alternatives(k) ==
                \/ /\ tssTimer \notin first(k)
                   /\ flags' = after(k)
                   /\ next_alarm' = TargetAt(left(k), target, 1)
                   /\ dl' = left(k)
                   /\ crowded' = crowded \ first(k)
                   /\ UNCHANGED target
                \/ /\ tssTimer \in first(k)
                   /\ \E slice \in Timeouts :
                      /\ target' = [target EXCEPT ![tssTimer] = tick + 1 + slice]
                      /\ flags' = [after(k) EXCEPT ![tssTimer] = "ONCOUNTDOWN"]
                      /\ next_alarm' = Lesser(TargetAt(left(k), target, 1), tick + 1 + slice)
                      /\ WalkInsert(left(k), dl', target', tssTimer, 1)
                      /\ crowded' = Crowds(after(k), tssTimer) \ (first(k) \ {tssTimer})
  <2>1. PICK k \in 0..Len(dl) :
           /\ \A i \in 1..k : target[dl[i]] <= tick + 1
           /\ k < Len(dl) => target[dl[k + 1]] > tick + 1
           /\ Alternatives(k)
    BY <1>5, Zenon DEF timer_int_handler, Due
  <2> DEFINE fired == first(k)
             rest == left(k)
  <2>2. /\ rest \in Seq(Timer)
        /\ Distinct(rest) /\ Ordered(rest, target)
        /\ \A u : Has(rest, u) <=> Has(dl, u) /\ u \notin fired
    <3> HIDE DEF Alternatives
    <3>1. QED
      BY <1>1, <1>3, TailFacts, Zenon
  <2>3. Len(dl) \in Nat /\ \A i \in 1..Len(dl) : dl[i] \in Timer /\ target[dl[i]] \in Nat
    BY <1>1, LenProperties, ElementOfSeq
  <2>4. ASSUME NEW u \in Timer
        PROVE  u \in fired <=> Has(dl, u) /\ target[u] <= tick + 1
    <3> HIDE DEF Alternatives
    <3>1. ASSUME u \in fired PROVE Has(dl, u) /\ target[u] <= tick + 1
      <4>1. PICK i \in 1..k : dl[i] = u
        BY <3>1
      <4>2. i \in 1..Len(dl)
        BY <2>3
      <4>3. QED
        BY <2>1, <4>1, <4>2 DEF Has
    <3>2. ASSUME Has(dl, u), target[u] <= tick + 1 PROVE u \in fired
      <4>1. PICK i \in 1..Len(dl) : dl[i] = u
        BY <3>2 DEF Has
      <4>2. CASE i \in 1..k
        BY <4>1, <4>2
      <4>3. CASE i > k
        <5>1. k < Len(dl) /\ k + 1 \in 1..Len(dl) /\ (k + 1 = i \/ k + 1 < i)
          BY <2>3, <4>3
        <5>2. target[dl[k + 1]] > tick + 1
          BY <2>1, <5>1
        <5>3. target[dl[k + 1]] <= target[dl[i]]
          BY <1>3, <2>3, <5>1 DEF Ordered
        <5>4. FALSE
          BY <1>2, <2>3, <3>2, <4>1, <5>1, <5>2, <5>3
        <5>5. QED
          BY <5>4
      <4>4. QED
        BY <2>3, <4>2, <4>3
    <3>3. QED
      BY <3>1, <3>2
  <2>5. fired \in SUBSET Timer
    BY <2>3
  <2>6. Fires(fired, rest)
    BY <2>1, <2>2, <2>4, Zenon DEF Fires
  <2>7. QED
    BY <1>2, <2>2, <2>5, <2>6
<1>6. QED
  BY <1>4, <1>5

LEMMA IntInv ==
  ASSUME Inv, timer_int_handler
  PROVE  Inv'
<1>1. tick' = tick + 1 /\ tick + 1 \in 0..MaxTick /\ plain' = plain
  BY IntSplit
<1>2. CASE next_alarm > tick + 1 /\ UNCHANGED <<next_alarm, flags, target, dl, crowded>>
  BY <1>1, <1>2 DEF Inv, TypeOK, Members, Targets
<1>3. CASE \E fired \in SUBSET Timer, rest \in Seq(Timer) : Fires(fired, rest)
  <2>1. PICK fired \in SUBSET Timer, rest \in Seq(Timer) : Fires(fired, rest)
    BY <1>3
  <2> DEFINE alarm == TargetAt(rest, target, 1)
             after == [t \in Timer |-> IF t \in fired THEN "ALLOCATED" ELSE flags[t]]
  <2>2. /\ Distinct(rest) /\ Ordered(rest, target)
        /\ \A u : Has(rest, u) <=> Has(dl, u) /\ u \notin fired
        /\ \A u \in Timer : u \in fired <=> Has(dl, u) /\ target[u] <= tick + 1
    BY <2>1 DEF Fires
  <2>3. /\ target \in [Timer -> Nat] /\ flags \in [Timer -> Flag] /\ alarm \in Nat
        /\ crowded \subseteq Timer
    <3>1. target \in [Timer -> Nat] /\ flags \in [Timer -> Flag] /\ crowded \subseteq Timer
      BY DEF Inv, TypeOK
    <3>2. alarm \in Nat
      BY <3>1, TargetAtType
    <3>3. QED
      BY <3>1, <3>2
  <2>4. after \in [Timer -> Flag]
    BY <2>3 DEF Flag
  <2>5. ASSUME NEW u \in Timer
        PROVE  /\ after[u] = "ALLOCATED" => ~Has(rest, u)
               /\ after[u] = "FREE" => Has(rest, u) /\ flags[u] = "FREE"
               /\ after[u] = "ONCOUNTDOWN" /\ u \notin crowded => Has(rest, u)
    BY <2>2, <2>3 DEF Inv, Members
  <2> HIDE DEF alarm, after
  <2>9. CASE tssTimer \notin fired
    <3>1. /\ flags' = after /\ next_alarm' = alarm /\ dl' = rest /\ target' = target
          /\ crowded' = crowded \ fired
      BY <2>1, <2>9 DEF Fires, alarm, after
    <3>2. TypeOK'
      BY <1>1, <2>3, <2>4, <3>1 DEF Inv, TypeOK
    <3>3. Members'
      <4>1. \A u \in Timer : u \in fired => after[u] = "ALLOCATED"
        BY DEF after
      <4>2. QED
        BY <2>5, <3>1, <4>1 DEF Members
    <3>4. Targets'
      BY <2>5, <3>1 DEF Inv, Targets
    <3>5. QED
      BY <2>2, <3>1, <3>2, <3>3, <3>4 DEF Inv
  <2>10. CASE tssTimer \in fired
    <3>1. PICK slice \in Timeouts :
             /\ target' = [target EXCEPT ![tssTimer] = tick + 1 + slice]
             /\ flags' = [after EXCEPT ![tssTimer] = "ONCOUNTDOWN"]
             /\ next_alarm' = Lesser(alarm, tick + 1 + slice)
             /\ WalkInsert(rest, dl', target', tssTimer, 1)
             /\ crowded' = Crowds(after, tssTimer) \ (fired \ {tssTimer})
      BY <2>1, <2>10 DEF Fires, alarm, after
    <3> DEFINE v == tick + 1 + slice
    <3>2. v \in Nat /\ v < UINT32_MAX /\ UINT32_MAX \in Nat
      BY <1>1, TimerAssumption
    <3> HIDE DEF v
    <3>3. /\ target' = [target EXCEPT ![tssTimer] = v]
          /\ next_alarm' = Lesser(alarm, v)
          /\ WalkInsert(rest, dl', [target EXCEPT ![tssTimer] = v], tssTimer, 1)
      BY <3>1 DEF v
    <3>4. tssTimer \in Timer /\ ~Has(rest, tssTimer)
      BY <2>2, <2>10
    <3>5. Distinct(rest) /\ Ordered(rest, target)
      BY <2>2
    <3>6. /\ MayLink(rest, dl', [target EXCEPT ![tssTimer] = v], tssTimer)
          /\ (\E f \in Timer : Has(rest, f) /\ target[f] = UINT32_MAX) => Has(dl', tssTimer)
      BY <2>3, <3>2, <3>3, <3>4, <3>5, ArmKeeps, Zenon
    <3>a. /\ Crowds(after, tssTimer) \subseteq Timer
          /\ \A u : u # tssTimer => (u \in Crowds(after, tssTimer) <=> u \in crowded)
          /\ tssTimer \notin Crowds(after, tssTimer) => \E u \in Timer : after[u] = "FREE"
      BY <2>3, <3>4, CrowdsFacts
    <3>b. /\ \A u \in Timer : target'[u] = IF u = tssTimer THEN v ELSE target[u]
          /\ \A u \in Timer : flags'[u] = IF u = tssTimer THEN "ONCOUNTDOWN" ELSE after[u]
      BY <2>3, <2>4, <3>1, <3>3
    <3>7. TypeOK'
      <4>1. flags' \in [Timer -> Flag] /\ target' \in [Timer -> Nat] /\ dl' \in Seq(Timer)
        BY <2>3, <2>4, <3>1, <3>2, <3>3, <3>6 DEF Flag, MayLink
      <4>2. next_alarm' \in Nat /\ crowded' \subseteq Timer
        BY <2>3, <3>1, <3>2, <3>3, <3>a DEF Lesser
      <4>3. QED
        BY <1>1, <4>1, <4>2 DEF Inv, TypeOK
    <3>8. Members'
      <4>1. ASSUME tssTimer \notin crowded' PROVE Has(dl', tssTimer)
        <5>1. tssTimer \notin Crowds(after, tssTimer)
          BY <3>1, <4>1
        <5>2. PICK f \in Timer : after[f] = "FREE"
          BY <3>a, <5>1
        <5>3. Has(rest, f) /\ target[f] = UINT32_MAX
          BY <2>5, <5>2 DEF Inv, Targets
        <5>4. QED
          BY <3>6, <5>3
      <4>2. ASSUME NEW u \in Timer, u # tssTimer
            PROVE  /\ flags'[u] = after[u] /\ (Has(dl', u) <=> Has(rest, u))
                   /\ u \notin crowded' => u \notin crowded \/ u \in fired
        BY <3>1, <3>6, <3>a, <3>b, <4>2 DEF MayLink
      <4>3. \A u \in Timer : u \in fired => after[u] = "ALLOCATED"
        BY DEF after
      <4>4. flags'[tssTimer] = "ONCOUNTDOWN"
        BY <3>4, <3>b
      <4>5. ASSUME NEW u \in Timer
            PROVE  /\ flags'[u] = "ALLOCATED" => ~Has(dl', u)
                   /\ flags'[u] = "FREE" => Has(dl', u)
                   /\ flags'[u] = "ONCOUNTDOWN" /\ u \notin crowded' => Has(dl', u)
        <5>1. CASE u = tssTimer
          BY <4>1, <4>4, <5>1
        <5>2. CASE u # tssTimer
          BY <2>5, <4>2, <4>3, <5>2
        <5>3. QED
          BY <5>1, <5>2
      <4>6. QED
        BY <4>5 DEF Members
    <3>9. Targets'
      BY <2>5, <3>2, <3>b DEF Inv, Targets
    <3>10. QED
      BY <3>3, <3>6, <3>7, <3>8, <3>9 DEF Inv, MayLink
  <2>11. QED
    BY <2>9, <2>10
<1>4. QED
  BY <1>2, <1>3, IntSplit

LEMMA NextInv == Inv /\ [Next]_vars => Inv'
<1> SUFFICES ASSUME Inv, [Next]_vars PROVE Inv'
  OBVIOUS
<1>1. CASE timer_int_handler
  BY <1>1, IntInv
<1>2. CASE \E t \in Timer : timer_alloc_customfifo(t)
  BY <1>2, AllocInv
<1>3. CASE \E t \in Timer, n \in Timeouts : settimer_allocated(t, n)
  BY <1>3, SetInv
<1>4. CASE \E t \in Timer : timer_free(t)
  BY <1>4, FreeInv
<1>5. CASE \E t \in Timer, n \in Timeouts : settimer_oncountdown(t, n)
  BY <1>5, ResetInv
<1>6. CASE UNCHANGED vars
  BY <1>6 DEF vars, Inv, TypeOK, Members, Targets
<1>7. QED
  BY <1>1, <1>2, <1>3, <1>4, <1>5, <1>6 DEF Next

LEMMA SpecInv == Spec => []Inv
<1>1. QED
  BY InitInv, NextInv, PTL DEF Spec

\* The variables of timer.c keep their types under every call of its interface.
THEOREM TimerTypes == Spec => []TypeOK
<1>1. Inv => TypeOK
  BY DEF Inv
<1>2. QED
  BY <1>1, SpecInv, PTL

\* Whatever is called, down to the allocation of the last timer, the ring is in
\* the order of target_tick (timer.h:19), holds no timer twice, no allocated one
\* and every free one, and timer_settimer leaves a timer out of it only when no
\* timer was free: for any number of timers and any timeouts.
THEOREM TimerList == Spec => []ListExact
<1>1. QED
  BY InvGivesList, SpecInv, PTL

-----------------------------------------------------------------------------
(***************************************************************************)
(* The kernel's own calls, which neither reset nor free a running timer    *)
(* and leave one free: no running timer is out of the list, and the cached *)
(* alarm is never later than one, so the interrupt that skips the list     *)
(* skips no timer.                                                         *)
(***************************************************************************)
Alarm == \A t \in Timer : flags[t] = "ONCOUNTDOWN" =>
            next_alarm <= target[t] /\ tick < target[t] /\ target[t] < UINT32_MAX

Whole == /\ \E t \in Timer : flags[t] = "FREE"
         /\ crowded = {}
         /\ Alarm

KInv == Inv /\ (plain => Whole)

\* The head of an ordered list is its earliest node.
LEMMA HeadIsLeast ==
  ASSUME NEW s \in Seq(Timer), NEW tg \in [Timer -> Nat], Ordered(s, tg), NEW u, Has(s, u)
  PROVE  TargetAt(s, tg, 1) <= tg[u]
<1>1. Len(s) \in Nat /\ \A i \in 1..Len(s) : tg[s[i]] \in Nat
  BY LenProperties, ElementOfSeq
<1>2. PICK i \in 1..Len(s) : s[i] = u
  BY DEF Has
<1>3. 1 <= Len(s) /\ 1 \in 1..Len(s) /\ (i = 1 \/ 1 < i)
  BY <1>1
<1>4. tg[s[1]] <= tg[s[i]]
  BY <1>1, <1>3 DEF Ordered
<1>5. QED
  BY <1>2, <1>3, <1>4 DEF TargetAt

LEMMA KInit == Init => KInv
<1> SUFFICES ASSUME Init PROVE Whole
  BY InitInv DEF KInv
<1>1. Alarm
  BY DEF Init, Alarm
<1>2. 1 \in Timer /\ flags[1] = "FREE"
  BY TimerAssumption DEF Init, Timer, tssTimer
<1>3. QED
  BY <1>1, <1>2 DEF Init, Whole

LEMMA KSet ==
  ASSUME Inv, Whole, NEW t \in Timer, NEW n \in Timeouts, settimer_allocated(t, n)
  PROVE  Whole'
<1>1. /\ target \in [Timer -> Nat] /\ flags \in [Timer -> Flag] /\ next_alarm \in Nat
      /\ tick \in Nat /\ tick + n \in Nat /\ tick < tick + n /\ tick + n < UINT32_MAX
  BY TimerAssumption DEF Inv, TypeOK
<1>a. crowded' = {} /\ \E u \in Timer : flags'[u] = "FREE"
  <2>1. PICK f \in Timer : flags[f] = "FREE"
    BY DEF Whole
  <2>2. crowded' = crowded \ {t}
    BY <2>1, Zenon DEF settimer_allocated, Crowds
  <2>3. flags'[f] = "FREE"
    BY <1>1, <2>1 DEF settimer_allocated
  <2>4. QED
    BY <2>2, <2>3 DEF Whole
<1>2. /\ \A u \in Timer : target'[u] = IF u = t THEN tick + n ELSE target[u]
      /\ \A u \in Timer : u # t => flags'[u] = flags[u]
      /\ next_alarm' = IF next_alarm <= tick + n THEN next_alarm ELSE tick + n
      /\ tick' = tick
  BY <1>1 DEF settimer_allocated, Lesser
<1>3. SUFFICES ASSUME NEW u \in Timer, flags'[u] = "ONCOUNTDOWN"
               PROVE  next_alarm' <= target'[u] /\ tick' < target'[u] /\ target'[u] < UINT32_MAX
  BY <1>a DEF Alarm, Whole
<1>4. CASE u = t
  BY <1>1, <1>2, <1>4
<1>5. CASE u # t
  <2>1. target[u] \in Nat /\ target'[u] = target[u]
    BY <1>1, <1>2, <1>5
  <2>2. next_alarm <= target[u] /\ tick < target[u] /\ target[u] < UINT32_MAX
    BY <1>2, <1>3, <1>5 DEF Whole, Alarm
  <2>3. QED
    BY <1>1, <1>2, <2>1, <2>2
<1>6. QED
  BY <1>4, <1>5

LEMMA KInt ==
  ASSUME Inv, Whole, timer_int_handler
  PROVE  Whole'
<1>1. tick' = tick + 1 /\ tick + 1 \in Nat /\ tick + 1 < UINT32_MAX /\ UINT32_MAX \in Nat
  BY IntSplit, TimerAssumption
<1>2. /\ target \in [Timer -> Nat] /\ flags \in [Timer -> Flag] /\ next_alarm \in Nat
      /\ tick \in Nat
  BY DEF Inv, TypeOK
<1>3. CASE next_alarm > tick + 1 /\ UNCHANGED <<next_alarm, flags, target, dl, crowded>>
  <2> SUFFICES ASSUME NEW u \in Timer, flags[u] = "ONCOUNTDOWN"
               PROVE  tick + 1 < target[u]
    BY <1>1, <1>3 DEF Whole, Alarm
  <2>1. next_alarm <= target[u] /\ target[u] \in Nat
    BY <1>2 DEF Whole, Alarm
  <2>2. QED
    BY <1>2, <1>3, <2>1
<1>4. CASE \E fired \in SUBSET Timer, rest \in Seq(Timer) : Fires(fired, rest)
  <2>1. PICK fired \in SUBSET Timer, rest \in Seq(Timer) : Fires(fired, rest)
    BY <1>4
  <2> DEFINE alarm == TargetAt(rest, target, 1)
  <2>2. alarm \in Nat
    BY <1>2, TargetAtType
  \* A timer that still runs and was not armed again in this step is in rest.
  <2>3. ASSUME NEW u \in Timer, u \notin fired, flags[u] = "ONCOUNTDOWN"
        PROVE  alarm <= target[u] /\ tick + 1 < target[u] /\ target[u] < UINT32_MAX
    <3>1. Has(dl, u)
      BY <2>3 DEF Inv, Members, Whole
    <3>2. Has(rest, u) /\ ~(target[u] <= tick + 1)
      BY <2>1, <2>3, <3>1 DEF Fires
    <3>3. alarm <= target[u]
      BY <1>2, <2>1, <3>2, HeadIsLeast DEF Fires
    <3>4. target[u] \in Nat /\ target[u] < UINT32_MAX
      BY <1>2, <2>3 DEF Whole, Alarm
    <3>5. QED
      BY <1>1, <3>2, <3>3, <3>4
  <2>a. PICK f \in Timer : flags[f] = "FREE"
    BY DEF Whole
  <2>b. f \notin fired
    <3>1. target[f] = UINT32_MAX
      BY <2>a DEF Inv, Targets
    <3>2. QED
      BY <1>1, <2>1, <3>1 DEF Fires
  <2> HIDE DEF alarm
  <2>4. CASE tssTimer \notin fired
    <3>1. /\ next_alarm' = alarm /\ target' = target
          /\ \A u \in Timer : flags'[u] = IF u \in fired THEN "ALLOCATED" ELSE flags[u]
          /\ crowded' = crowded \ fired
      BY <2>1, <2>4 DEF Fires, alarm
    <3>2. Alarm'
      BY <1>1, <2>3, <3>1 DEF Alarm
    <3>3. flags'[f] = "FREE" /\ crowded' = {}
      BY <2>a, <2>b, <3>1 DEF Whole
    <3>4. QED
      BY <3>2, <3>3 DEF Whole
  <2>5. CASE tssTimer \in fired
    <3>1. PICK slice \in Timeouts :
             /\ target' = [target EXCEPT ![tssTimer] = tick + 1 + slice]
             /\ flags' = [[t \in Timer |-> IF t \in fired THEN "ALLOCATED" ELSE flags[t]]
                             EXCEPT ![tssTimer] = "ONCOUNTDOWN"]
             /\ next_alarm' = Lesser(alarm, tick + 1 + slice)
             /\ crowded' = Crowds([t \in Timer |-> IF t \in fired THEN "ALLOCATED" ELSE flags[t]],
                                  tssTimer) \ (fired \ {tssTimer})
      BY <2>1, <2>5 DEF Fires, alarm
    <3> DEFINE v == tick + 1 + slice
    <3>2. v \in Nat /\ tick + 1 < v /\ v < UINT32_MAX
      BY <1>1, IntSplit, TimerAssumption
    <3>3. /\ \A u \in Timer : target'[u] = IF u = tssTimer THEN v ELSE target[u]
          /\ \A u \in Timer : u # tssTimer =>
                flags'[u] = IF u \in fired THEN "ALLOCATED" ELSE flags[u]
          /\ next_alarm' = IF alarm <= v THEN alarm ELSE v
      BY <1>2, <3>1 DEF Lesser
    <3> HIDE DEF v
    <3>a. flags'[f] = "FREE" /\ crowded' = {}
      <4> DEFINE after == [t \in Timer |-> IF t \in fired THEN "ALLOCATED" ELSE flags[t]]
      <4>1. after[f] = "FREE"
        BY <2>a, <2>b
      <4>2. crowded' = Crowds(after, tssTimer) \ (fired \ {tssTimer})
        BY <3>1
      <4> HIDE DEF after
      <4>3. Crowds(after, tssTimer) = crowded \ {tssTimer}
        BY <4>1, Zenon DEF Crowds
      <4>4. f # tssTimer
        BY <2>5, <2>b
      <4>5. QED
        BY <2>a, <2>b, <3>3, <4>2, <4>3, <4>4 DEF Whole
    <3>4. SUFFICES ASSUME NEW u \in Timer, flags'[u] = "ONCOUNTDOWN"
                   PROVE  next_alarm' <= target'[u] /\ tick' < target'[u] /\ target'[u] < UINT32_MAX
      BY <3>a DEF Alarm, Whole
    <3>5. CASE u = tssTimer
      BY <1>1, <2>2, <3>2, <3>3, <3>5
    <3>6. CASE u # tssTimer
      <4>1. u \notin fired /\ flags[u] = "ONCOUNTDOWN" /\ target'[u] = target[u] /\ target[u] \in Nat
        BY <1>2, <3>3, <3>4, <3>6
      <4>2. alarm <= target[u] /\ tick + 1 < target[u] /\ target[u] < UINT32_MAX
        BY <2>3, <4>1
      <4>3. QED
        BY <1>1, <2>2, <3>2, <3>3, <4>1, <4>2
    <3>7. QED
      BY <3>5, <3>6
  <2>6. QED
    BY <2>4, <2>5
<1>5. QED
  BY <1>3, <1>4, IntSplit

\* The steps that keep plain are the kernel's.
LEMMA PlainSteps ==
  ASSUME [Next]_vars, plain'
  PROVE  /\ plain
         /\ \/ timer_int_handler
            \/ \E t \in Timer : timer_alloc_customfifo(t)
            \/ \E t \in Timer, n \in Timeouts : settimer_allocated(t, n)
            \/ UNCHANGED vars
<1>1. CASE timer_int_handler
  BY <1>1 DEF timer_int_handler
<1>2. ASSUME NEW t \in Timer, timer_alloc_customfifo(t) PROVE plain
  BY <1>2 DEF timer_alloc_customfifo
<1>3. ASSUME NEW t \in Timer, NEW n \in Timeouts, settimer_allocated(t, n) PROVE plain
  BY <1>3 DEF settimer_allocated
<1>4. ASSUME NEW t \in Timer PROVE ~timer_free(t)
  BY DEF timer_free
<1>5. ASSUME NEW t \in Timer, NEW n \in Timeouts PROVE ~settimer_oncountdown(t, n)
  BY DEF settimer_oncountdown
<1>6. CASE UNCHANGED vars
  BY <1>6 DEF vars
<1>7. QED
  BY <1>1, <1>2, <1>3, <1>4, <1>5, <1>6 DEF Next

LEMMA KNext == KInv /\ [Next]_vars => KInv'
<1> SUFFICES ASSUME KInv, [Next]_vars, plain' PROVE Whole'
  BY NextInv DEF KInv
<1>1. Inv /\ Whole
  BY PlainSteps DEF KInv
<1>2. CASE timer_int_handler
  BY <1>1, <1>2, KInt
<1>3. ASSUME NEW t \in Timer, timer_alloc_customfifo(t) PROVE Whole'
  <2>1. flags' = [flags EXCEPT ![t] = "ALLOCATED"] /\ UNCHANGED <<tick, next_alarm, target, crowded>>
    BY <1>3 DEF timer_alloc_customfifo
  <2>2. Alarm'
    BY <1>1, <2>1 DEF Inv, TypeOK, Whole, Alarm
  <2>3. \E u \in Timer : flags'[u] = "FREE"
    BY <1>3 DEF timer_alloc_customfifo
  <2>4. QED
    BY <1>1, <2>1, <2>2, <2>3 DEF Whole
<1>4. ASSUME NEW t \in Timer, NEW n \in Timeouts, settimer_allocated(t, n) PROVE Whole'
  BY <1>1, <1>4, KSet
<1>5. CASE UNCHANGED vars
  BY <1>1, <1>5 DEF vars, Whole, Alarm
<1>6. QED
  BY <1>2, <1>3, <1>4, <1>5, PlainSteps

LEMMA SpecKInv == Spec => []KInv
<1>1. QED
  BY KInit, KNext, PTL DEF Spec

\* As long as timer.c is called as the kernel's tasks call it, the tick never
\* passes the target of a timer that counts down: next_alarm_on_tick hides no
\* alarm (timer.h:26), and no timer is lost from the ring.
THEOREM TimerNoOverdue == Spec => []NoOverdue
<1>1. KInv => NoOverdue
  BY DEF KInv, Whole, Alarm, NoOverdue, Punctual
<1>2. QED
  BY <1>1, SpecKInv, PTL

\* One interrupt is one tick of the service.
LEMMA IntIsTick ==
  ASSUME Inv, Whole, timer_int_handler
  PROVE  Service!Tick
<1>0. Inv /\ Alarm /\ crowded = {}
  BY DEF Whole
<1>1. tick' = tick + 1 /\ tick + 1 \in Nat /\ tick + 1 < UINT32_MAX /\ UINT32_MAX \in Nat
  BY <1>0, IntSplit, TimerAssumption
<1>2. /\ target \in [Timer -> Nat] /\ flags \in [Timer -> Flag] /\ next_alarm \in Nat
      /\ tick \in Nat
  BY <1>0 DEF Inv, TypeOK
<1>3. \A t \in Timer : Deadlines[t] # UINT32_MAX => Deadlines[t] > tick
  BY <1>0 DEF Deadlines, Alarm
<1> DEFINE due == {t \in Timer : Deadlines[t] = tick + 1}
<1>4. CASE next_alarm > tick + 1 /\ UNCHANGED <<next_alarm, flags, target, dl, crowded>>
  <2>1. Deadlines' = Deadlines
    BY <1>4 DEF Deadlines
  <2>2. \A t \in Timer : t \notin due
    <3> SUFFICES ASSUME NEW t \in Timer PROVE Deadlines[t] # tick + 1
      OBVIOUS
    <3>1. CASE flags[t] = "ONCOUNTDOWN"
      BY <1>0, <1>2, <1>4, <3>1 DEF Deadlines, Alarm
    <3>2. CASE flags[t] # "ONCOUNTDOWN"
      BY <1>1, <3>2 DEF Deadlines
    <3>3. QED
      BY <3>1, <3>2
  <2>3. Deadlines' = [t \in Timer |-> IF t \in due THEN UINT32_MAX ELSE Deadlines[t]]
    BY <2>1, <2>2 DEF Deadlines
  <2>4. QED
    BY <1>1, <1>3, <2>3 DEF Service!Tick, Service!Due, Deadlines
<1>5. CASE \E fired \in SUBSET Timer, rest \in Seq(Timer) : Fires(fired, rest)
  <2>1. PICK fired \in SUBSET Timer, rest \in Seq(Timer) : Fires(fired, rest)
    BY <1>5
  <2>2. ASSUME NEW t \in Timer
        PROVE  /\ t \in fired <=> t \in due
               /\ t \in fired => flags[t] = "ONCOUNTDOWN"
    <3>1. t \in fired <=> Has(dl, t) /\ target[t] <= tick + 1
      BY <2>1 DEF Fires
    <3>2. Has(dl, t) <=> flags[t] # "ALLOCATED"
      BY <1>0, <1>2 DEF Inv, Members, Flag
    <3>3. target[t] \in Nat /\ flags[t] \in Flag
      BY <1>2
    <3>4. CASE flags[t] = "ONCOUNTDOWN"
      <4>1. tick < target[t]
        BY <1>0, <3>4 DEF Alarm
      <4>2. Deadlines[t] = target[t]
        BY <3>4 DEF Deadlines
      <4>3. target[t] <= tick + 1 <=> target[t] = tick + 1
        BY <1>2, <3>3, <4>1
      <4>4. QED
        BY <3>1, <3>2, <3>4, <4>2, <4>3
    <3>5. CASE flags[t] = "FREE"
      <4>1. target[t] = UINT32_MAX /\ Deadlines[t] = UINT32_MAX
        BY <1>0, <3>5 DEF Inv, Targets, Deadlines
      <4>2. QED
        BY <1>1, <3>1, <4>1
    <3>6. CASE flags[t] = "ALLOCATED"
      BY <1>1, <3>1, <3>2, <3>6 DEF Deadlines
    <3>7. QED
      BY <3>3, <3>4, <3>5, <3>6 DEF Flag
  <2>3. CASE tssTimer \notin fired
    <3>1. /\ target' = target
          /\ \A t \in Timer : flags'[t] = IF t \in fired THEN "ALLOCATED" ELSE flags[t]
      BY <2>1, <2>3 DEF Fires
    <3>2. Deadlines' = [t \in Timer |-> IF t \in due THEN UINT32_MAX ELSE Deadlines[t]]
      BY <2>2, <3>1 DEF Deadlines
    <3>3. QED
      BY <1>1, <1>3, <3>2 DEF Service!Tick, Service!Due, Deadlines
  <2>4. CASE tssTimer \in fired
    <3>1. PICK slice \in Timeouts :
             /\ target' = [target EXCEPT ![tssTimer] = tick + 1 + slice]
             /\ flags' = [[t \in Timer |-> IF t \in fired THEN "ALLOCATED" ELSE flags[t]]
                             EXCEPT ![tssTimer] = "ONCOUNTDOWN"]
      BY <2>1, <2>4 DEF Fires
    <3>2. /\ \A t \in Timer : target'[t] = IF t = tssTimer THEN tick + 1 + slice ELSE target[t]
          /\ \A t \in Timer : flags'[t] = IF t = tssTimer THEN "ONCOUNTDOWN"
                ELSE IF t \in fired THEN "ALLOCATED" ELSE flags[t]
      BY <1>2, <3>1
    <3>3. Deadlines' = [t \in Timer |-> IF t = tssTimer THEN tick + 1 + slice
                                       ELSE IF t \in due THEN UINT32_MAX ELSE Deadlines[t]]
      BY <2>2, <3>2 DEF Deadlines
    <3>4. tssTimer \in due
      BY <2>2, <2>4
    <3>5. QED
      BY <1>1, <1>3, <3>3, <3>4 DEF Service!Tick, Service!Due, Deadlines
  <2>5. QED
    BY <2>3, <2>4
<1>6. QED
  BY <1>0, <1>4, <1>5, IntSplit

LEMMA StepIsService ==
  KInv /\ [Next]_vars => [plain' => Service!Next]_<<tick, Deadlines>>
<1> SUFFICES ASSUME KInv, [Next]_vars, plain' PROVE [Service!Next]_<<tick, Deadlines>>
  OBVIOUS
<1>a. Inv /\ Whole
  BY PlainSteps DEF KInv
<1>0. target \in [Timer -> Nat] /\ flags \in [Timer -> Flag]
  BY <1>a DEF Inv, TypeOK
<1>1. CASE timer_int_handler
  BY <1>a, <1>1, IntIsTick DEF Service!Next
<1>2. ASSUME NEW t \in Timer, timer_alloc_customfifo(t) PROVE UNCHANGED <<tick, Deadlines>>
  BY <1>0, <1>2 DEF timer_alloc_customfifo, Deadlines
<1>3. ASSUME NEW t \in Timer, NEW n \in Timeouts, settimer_allocated(t, n)
      PROVE  Service!Set(t, n)
  <2>1. Deadlines[t] = UINT32_MAX
    BY <1>3 DEF settimer_allocated, Deadlines
  <2>2. Deadlines' = [Deadlines EXCEPT ![t] = tick + n]
    BY <1>0, <1>3 DEF settimer_allocated, Deadlines
  <2>3. QED
    BY <1>3, <2>1, <2>2 DEF Service!Set, settimer_allocated, Deadlines
<1>4. CASE UNCHANGED vars
  BY <1>4 DEF vars, Deadlines
<1>5. QED
  BY <1>1, <1>2, <1>3, <1>4, PlainSteps DEF Service!Next

LEMMA ServiceInit == Init => Service!Init
<1>1. QED
  BY DEF Init, Service!Init, Deadlines

(***************************************************************************)
(* As long as they are called as the kernel's tasks call them, the timers  *)
(* are the abstract service: each armed timer fires in exactly the tick of *)
(* its deadline, although timer_int_handler looks at the list only when    *)
(* the cached alarm is due.                                                *)
(***************************************************************************)
THEOREM TimerImplementsService == Spec => ImplementsService
<1>1. QED
  BY ServiceInit, StepIsService, SpecKInv, PTL DEF Spec, ImplementsService

\* The kernel's timers, whose tasks make no other call, implement the abstract
\* service as a whole.
THEOREM KernelTimers == KernelSpec => Service!Spec
<1>1. plain' /\ [plain' => Service!Next]_<<tick, Deadlines>> => [Service!Next]_<<tick, Deadlines>>
  OBVIOUS
<1>2. QED
  BY <1>1, ServiceInit, StepIsService, SpecKInv, PTL DEF Spec, KernelSpec, Service!Spec
=============================================================================
