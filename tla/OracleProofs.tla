---------------------------- MODULE OracleProofs ----------------------------
(***************************************************************************)
(* Proofs about the oracle: its type invariant and its five safety         *)
(* invariants, for every validator set, every set of blocks with logs and  *)
(* every number of faults.                                                 *)
(*                                                                         *)
(* The inductive invariant is a conjunction with one part per concern.     *)
(*   PhaseInv    the leader commits first                                  *)
(*   StoreInv    what an event store may hold                              *)
(*   VoteInv     votes are for observed events                             *)
(*   ListenInv   the listener skips no block with logs                     *)
(*   AppInv      the application before and after the block                *)
(*   KnownInv    a vote names resolutions that exist or have existed       *)
(*   DecidedInv  where a decided event may still be                        *)
(*   ForgetInv   a marked vote is counted, on its way or lost              *)
(*   FaultInv    the list of faults                                        *)
(*   FreshInv    without faults a listener stores no event twice           *)
(*   OnceInv     without faults a node votes once for an event             *)
(* PhaseInv to KnownInv carry the order of the callbacks and the observed  *)
(* points; each of the others rests on them.                               *)
(***************************************************************************)
EXTENDS Oracle, Sums, FiniteSetTheorems, SequenceTheorems, TLAPS

-----------------------------------------------------------------------------
(* Events, and lists of heights.                                           *)

\* Heights are natural numbers.
LEMMA LogTypes ==
  /\ MaxTip \in Nat /\ LogBlocks \subseteq 1 .. MaxTip /\ LogBlocks \subseteq Nat
  /\ \A h \in {0} \cup LogBlocks : h \in Nat
<1>1. MaxTip \in Nat /\ LogBlocks \subseteq 1 .. MaxTip
  BY OracleAssumption, Zenon
<1>2. ASSUME NEW h \in LogBlocks PROVE h \in Nat
  BY <1>1
<1> QED BY <1>1, <1>2

\* The heights in an event.
LEMMA EventTypes ==
  ASSUME NEW e \in Event
  PROVE  /\ e.point \in LogBlocks /\ e.prev \in {0} \cup LogBlocks
         /\ e.point \in Nat /\ e.prev \in Nat
<1>1. e.point \in LogBlocks /\ e.prev \in {0} \cup LogBlocks
  BY DEF Event
<1> QED BY <1>1, LogTypes

\* A nonempty set of blocks with logs has a first one.
LEMMA MinLog ==
  ASSUME NEW S \in SUBSET LogBlocks, S # {}
  PROVE  /\ Min(S) \in S /\ Min(S) \in LogBlocks /\ Min(S) \in Nat
         /\ \A x \in S : Min(S) <= x
<1>1. S \in SUBSET (1 .. MaxTip) /\ MaxTip \in Nat
  BY LogTypes
<1>2. \E x \in S : \A y \in S : x <= y
  BY <1>1, LeastInterval
<1>3. Min(S) \in S /\ \A x \in S : Min(S) <= x
  BY <1>2 DEF Min
<1> QED BY <1>3, LogTypes

\* No block with logs lies between the two heights that an event joins, if it
\* joins them in this order.
Good(e) == e.prev < e.point => \A h \in LogBlocks : ~(e.prev < h /\ h < e.point)

\* The elements of a list grow.
Ascending(s) == \A i, j \in DOMAIN s : i < j => s[i] < s[j]

\* The elements of a finite set of heights can be listed in order.
LEMMA AscendingExists ==
  ASSUME NEW m \in Nat
  PROVE  \A S \in SUBSET (1 .. m) :
           \E n \in Nat : \E s \in [1 .. n -> S] : Ascending(s) /\ Range(s) = S
<1> DEFINE Has(S) == \E n \in Nat : \E s \in [1 .. n -> S] : Ascending(s) /\ Range(s) = S
           T == {k \in Nat : \A S \in SUBSET (1 .. k) : Has(S)}
<1>1. 0 \in T
  <2> SUFFICES Has({})
    <3>1. SUBSET (1 .. 0) = {{}} /\ 0 \in Nat
      OBVIOUS
    <3> QED BY <3>1
  <2> DEFINE s == [i \in 1 .. 0 |-> 0]
  <2>1. 1 .. 0 = {} OBVIOUS
  <2>2. s \in [1 .. 0 -> {}] /\ DOMAIN s = {}
    BY <2>1
  <2>3. Ascending(s) /\ Range(s) = {}
    BY <2>2 DEF Ascending, Range
  <2> HIDE DEF s
  <2> QED BY <2>2, <2>3
<1>2. ASSUME NEW k \in T PROVE k + 1 \in T
  <2> SUFFICES ASSUME NEW S \in SUBSET (1 .. k + 1) PROVE Has(S)
    OBVIOUS
  <2>1. CASE k + 1 \notin S
    <3>1. S \in SUBSET (1 .. k)
      BY <2>1
    <3> QED BY <3>1
  <2>2. CASE k + 1 \in S
    <3> DEFINE R == S \ {k + 1}
    <3>1. R \in SUBSET (1 .. k)
      OBVIOUS
    <3>2. PICK n \in Nat : \E r \in [1 .. n -> R] : Ascending(r) /\ Range(r) = R
      BY <3>1
    <3>2a. PICK r \in [1 .. n -> R] : Ascending(r) /\ Range(r) = R
      BY <3>2
    <3> DEFINE s == [i \in 1 .. n + 1 |-> IF i = n + 1 THEN k + 1 ELSE r[i]]
    <3>3. s \in [1 .. n + 1 -> S] /\ DOMAIN s = 1 .. n + 1 /\ DOMAIN r = 1 .. n
      BY <3>2a, <2>2
    <3>4. s[n + 1] = k + 1 /\ \A i \in 1 .. n : s[i] = r[i] /\ r[i] \in 1 .. k
      <4>1. \A i \in 1 .. n : i \in 1 .. n + 1 /\ i # n + 1 /\ r[i] \in R
        OBVIOUS
      <4>2. n + 1 \in 1 .. n + 1
        OBVIOUS
      <4> QED BY <4>1, <4>2, <3>1
    <3> HIDE DEF s
    <3>5. Ascending(s)
      <4> SUFFICES ASSUME NEW i \in 1 .. n + 1, NEW j \in 1 .. n + 1, i < j
                   PROVE  s[i] < s[j]
        BY <3>3 DEF Ascending
      <4>1. i \in 1 .. n /\ s[i] \in 1 .. k /\ s[i] = r[i]
        <5>1. i \in 1 .. n OBVIOUS
        <5> QED BY <5>1, <3>4
      <4>2. CASE j = n + 1
        BY <4>1, <4>2, <3>4
      <4>3. CASE j \in 1 .. n
        BY <4>1, <4>3, <3>4, <3>2a, <3>3 DEF Ascending
      <4> QED BY <4>2, <4>3
    <3>6. Range(s) = S
      <4>1. \A x \in S : \E i \in 1 .. n + 1 : s[i] = x
        <5> SUFFICES ASSUME NEW x \in S PROVE \E i \in 1 .. n + 1 : s[i] = x
          OBVIOUS
        <5>1. CASE x = k + 1
          BY <5>1, <3>4
        <5>2. CASE x # k + 1
          <6>1. PICK i \in 1 .. n : r[i] = x
            <7>1. x \in Range(r)
              BY <5>2, <3>2a
            <7> QED BY <7>1, <3>3 DEF Range
          <6>2. i \in 1 .. n + 1 /\ s[i] = x
            BY <6>1, <3>4
          <6> QED BY <6>2
        <5> QED BY <5>1, <5>2
      <4>2. \A i \in 1 .. n + 1 : s[i] \in S
        BY <3>3
      <4> HIDE DEF R, Has, T
      <4> QED BY <4>1, <4>2, <3>3 DEF Range
    <3> QED BY <3>3, <3>5, <3>6
  <2> QED BY <2>1, <2>2
<1>3. T = Nat
  <2>1. T \subseteq Nat /\ \A k \in T : k + 1 \in T
    BY <1>2
  <2> HIDE DEF T
  <2> QED BY <1>1, <2>1, SetInduction
<1> QED BY <1>3

\* ORDER BY: the list chosen by InOrder has the elements of the set, in order.
LEMMA InOrderIs ==
  ASSUME NEW m \in Nat, NEW P \in SUBSET (1 .. m)
  PROVE  /\ InOrder(P) \in Seq(P) /\ Ascending(InOrder(P)) /\ Range(InOrder(P)) = P
<1>1. PICK n \in Nat : \E s \in [1 .. n -> P] : Ascending(s) /\ Range(s) = P
  BY AscendingExists
<1>1a. PICK s \in [1 .. n -> P] : Ascending(s) /\ Range(s) = P
  BY <1>1
<1>2. \A i, j \in 1 .. n : i # j => s[i] # s[j]
  <2> SUFFICES ASSUME NEW i \in 1 .. n, NEW j \in 1 .. n, i # j PROVE s[i] # s[j]
    OBVIOUS
  <2>1. s[i] \in 1 .. m /\ s[j] \in 1 .. m /\ DOMAIN s = 1 .. n
    OBVIOUS
  <2>2. i < j \/ j < i
    OBVIOUS
  <2> QED BY <2>1, <2>2, <1>1a DEF Ascending
<1>3. Cardinality(P) = n /\ IsFiniteSet(P)
  <2>1. s \in Bijection(1 .. n, P)
    BY <1>1a, <1>2 DEF Bijection, Injection, Surjection, Range, IsInjective
  <2>2. IsFiniteSet(1 .. n) /\ Cardinality(1 .. n) = n
    BY FS_Interval
  <2> QED BY <2>1, <2>2, FS_Bijection DEF ExistsBijection
<1>4. s \in SetToSeqs(P)
  BY <1>2, <1>3 DEF SetToSeqs
<1> DEFINE r == InOrder(P)
<1>5. r \in SetToSeqs(P) /\ Ascending(r)
  BY <1>1a, <1>4 DEF InOrder, Ascending
<1>6. r \in [1 .. n -> P] /\ \A i, j \in 1 .. n : i # j => r[i] # r[j]
  BY <1>5, <1>3 DEF SetToSeqs
<1>7. r \in Surjection(1 .. n, P)
  <2>1. r \in Injection(1 .. n, P)
    BY <1>6 DEF Injection, IsInjective
  <2>2. Cardinality(1 .. n) = n
    BY FS_Interval
  <2> QED BY <2>1, <2>2, <1>3, FS_Injection
<1> HIDE DEF r
<1>8. Range(r) = P
  BY <1>7 DEF Surjection, Range
<1>9. r \in Seq(P)
  BY <1>6, SeqDef
<1> QED BY <1>5, <1>8, <1>9 DEF r

\* A list of larger elements after a list of smaller ones.
LEMMA Appended ==
  ASSUME NEW S, S \subseteq Nat, NEW g \in Seq(S), NEW s \in Seq(S), Ascending(g), Ascending(s),
         \A x \in Range(g), y \in Range(s) : x < y
  PROVE  /\ g \o s \in Seq(S) /\ Ascending(g \o s)
         /\ Range(g \o s) = Range(g) \cup Range(s)
<1> DEFINE u == g \o s
           a == Len(g)
           c == Len(s)
<1>1. /\ a \in Nat /\ c \in Nat /\ DOMAIN g = 1 .. a /\ DOMAIN s = 1 .. c
      /\ u \in Seq(S) /\ DOMAIN u = 1 .. a + c
      /\ \A i \in 1 .. a + c : u[i] = IF i <= a THEN g[i] ELSE s[i - a]
  OBVIOUS
<1>2. /\ \A i \in 1 .. a : g[i] \in Range(g) /\ g[i] \in Nat
      /\ \A i \in 1 .. c : s[i] \in Range(s) /\ s[i] \in Nat
  <2>1. (\A i \in 1 .. a : g[i] \in S) /\ \A i \in 1 .. c : s[i] \in S
    BY ElementOfSeq
  <2>2. (\A i \in 1 .. a : g[i] \in Range(g)) /\ \A i \in 1 .. c : s[i] \in Range(s)
    BY <1>1 DEF Range
  <2> HIDE DEF a, c
  <2> QED BY <2>1, <2>2
<1> HIDE DEF u, a, c
<1>3. \A i \in 1 .. a : i \in 1 .. a + c /\ u[i] = g[i]
  BY <1>1
<1>4. \A i \in 1 .. a + c : i \notin 1 .. a => i - a \in 1 .. c /\ u[i] = s[i - a]
  BY <1>1
<1>5. Ascending(u)
  <2> SUFFICES ASSUME NEW i \in 1 .. a + c, NEW j \in 1 .. a + c, i < j
               PROVE  u[i] < u[j]
    BY <1>1 DEF Ascending
  <2>1. CASE j \in 1 .. a
    <3>1. i \in 1 .. a
      BY <2>1, <1>1
    <3> QED BY <2>1, <3>1, <1>1, <1>3 DEF Ascending
  <2>2. CASE i \in 1 .. a /\ j \notin 1 .. a
    BY <2>2, <1>2, <1>3, <1>4
  <2>3. CASE i \notin 1 .. a /\ j \notin 1 .. a
    <3>1. i - a \in 1 .. c /\ j - a \in 1 .. c /\ u[i] = s[i - a] /\ u[j] = s[j - a]
      BY <2>3, <1>4
    <3>2. i - a < j - a
      BY <1>1
    <3> QED BY <3>1, <3>2, <1>1 DEF Ascending
  <2>4. j \notin 1 .. a => i \in 1 .. a \/ i \notin 1 .. a
    OBVIOUS
  <2> QED BY <2>1, <2>2, <2>3
<1>6. Range(u) = Range(g) \cup Range(s)
  <2>1. ASSUME NEW x \in Range(u) PROVE x \in Range(g) \cup Range(s)
    <3>1. PICK i \in 1 .. a + c : u[i] = x
      BY <1>1 DEF Range
    <3> QED BY <3>1, <1>2, <1>3, <1>4
  <2>2. ASSUME NEW x \in Range(g) PROVE x \in Range(u)
    <3>1. PICK i \in 1 .. a : g[i] = x
      BY <1>1 DEF Range
    <3> QED BY <3>1, <1>1, <1>3 DEF Range
  <2>3. ASSUME NEW x \in Range(s) PROVE x \in Range(u)
    <3>1. PICK i \in 1 .. c : s[i] = x
      BY <1>1 DEF Range
    <3>2. a + i \in 1 .. a + c /\ a + i \notin 1 .. a /\ (a + i) - a = i
      BY <1>1
    <3>3. u[a + i] = x
      BY <3>1, <3>2, <1>4
    <3> QED BY <3>2, <3>3, <1>1 DEF Range
  <2> QED BY <2>1, <2>2, <2>3
<1> QED BY <1>1, <1>5, <1>6 DEF u

\* An ascending list ends with the largest of its elements.
LEMMA LastIsLargest ==
  ASSUME NEW S, S \subseteq Nat, NEW s \in Seq(S), Ascending(s), s # <<>>
  PROVE  s[Len(s)] \in Range(s) /\ \A x \in Range(s) : x <= s[Len(s)]
<1>1. Len(s) \in Nat /\ Len(s) \in 1 .. Len(s) /\ DOMAIN s = 1 .. Len(s)
      /\ \A i \in 1 .. Len(s) : s[i] \in Nat
  <2>1. Len(s) \in Nat /\ DOMAIN s = 1 .. Len(s)
    OBVIOUS
  <2>2. Len(s) # 0
    BY EmptySeq
  <2>3. \A i \in 1 .. Len(s) : s[i] \in S
    BY ElementOfSeq
  <2>4. Len(s) \in 1 .. Len(s)
    BY <2>1, <2>2
  <2> QED BY <2>1, <2>3, <2>4
<1>2. ASSUME NEW x \in Range(s) PROVE x <= s[Len(s)]
  <2>1. PICK i \in 1 .. Len(s) : s[i] = x
    BY <1>1 DEF Range
  <2>2. CASE i = Len(s)
    BY <2>1, <2>2, <1>1
  <2>3. CASE i < Len(s)
    <3>1. s[i] < s[Len(s)]
      BY <2>3, <1>1 DEF Ascending
    <3> QED BY <3>1, <2>1, <1>1
  <2>4. i = Len(s) \/ i < Len(s)
    <3>1. ASSUME NEW m \in Nat, NEW k \in 1 .. m PROVE k = m \/ k < m
      OBVIOUS
    <3> QED BY <3>1, <1>1
  <2> QED BY <2>2, <2>3, <2>4
<1> QED BY <1>1, <1>2 DEF Range

-----------------------------------------------------------------------------
(* The ordered-sync topic.                                                 *)

\* A topic: one row per point, the rows that were stored are Good, and exactly
\* the blocks with logs up to the last processed point have been given, in
\* order.
TopicOK(t) ==
  /\ DOMAIN t = {"pending", "last", "given"}
  /\ t.pending \subseteq Event
  /\ \A p, q \in t.pending : p.point = q.point => p = q
  /\ \A p \in t.pending : Good(p) /\ p.prev < p.point
  /\ t.last \in {0} \cup LogBlocks
  /\ t.given \in Seq(LogBlocks)
  /\ Range(t.given) = {h \in LogBlocks : h <= t.last}
  /\ Ascending(t.given)

\* storeDataPoint keeps the topic, and adds confirmed points only.
LEMMA StoredPoints ==
  ASSUME NEW t, NEW dps, TopicOK(t), dps \subseteq Event, \A e \in dps : Good(e)
  PROVE  /\ TopicOK(StoreDataPoints(t, dps))
         /\ StoreDataPoints(t, dps).pending \subseteq t.pending \cup dps
<1> DEFINE valid == {dp \in dps : /\ dp.prev < dp.point
                                  /\ \A p \in t.pending : p.point # dp.point}
           first(point) == CHOOSE dp \in valid : dp.point = point
           new == {first(dp.point) : dp \in valid}
           u == StoreDataPoints(t, dps)
<1>1. /\ u.pending = t.pending \cup new /\ u.last = t.last /\ u.given = t.given
      /\ DOMAIN u = {"pending", "last", "given"}
  BY DEF TopicOK, StoreDataPoints
<1>2. \A dp \in valid : first(dp.point) \in valid /\ first(dp.point).point = dp.point
  OBVIOUS
<1>3. new \subseteq valid
  BY <1>2
<1>4. \A p, q \in new : p.point = q.point => p = q
  <2> SUFFICES ASSUME NEW p \in new, NEW q \in new, p.point = q.point PROVE p = q
    OBVIOUS
  <2>1. PICK x \in valid : p = first(x.point)
    OBVIOUS
  <2>2. PICK y \in valid : q = first(y.point)
    OBVIOUS
  <2>3. x.point = y.point
    BY <1>2, <2>1, <2>2
  <2> HIDE DEF valid, first
  <2> QED BY <2>1, <2>2, <2>3
<1> HIDE DEF u, new
<1>5. \A p, q \in u.pending : p.point = q.point => p = q
  BY <1>1, <1>3, <1>4 DEF TopicOK
<1> QED BY <1>1, <1>3, <1>5 DEF TopicOK, u

\* The finalized rows are above the last processed point, and below each of
\* them no block with logs is missing: the query follows prev, and a Good row
\* leaves out no block with logs.
LEMMA FinalizedPoints ==
  ASSUME NEW t, TopicOK(t)
  PROVE  /\ Finalized(t) \subseteq t.pending
         /\ \A p \in Finalized(t) :
              /\ t.last < p.point
              /\ \A h \in LogBlocks : t.last < h /\ h <= p.point =>
                    \E q \in Finalized(t) : q.point = h
<1> DEFINE F == Finalized(t)
           R1 == {p \in t.pending : t.last < p.point}
           R2 == {p \in F : \A h \in LogBlocks : t.last < h /\ h <= p.point =>
                               \E q \in F : q.point = h}
<1>1. F \subseteq t.pending
  BY DEF Finalized
<1>2. Continued(t, F)
  <2> SUFFICES ASSUME NEW p \in t.pending,
                      p.prev = t.last \/ (\E q \in F : p.prev = q.point),
                      NEW rows \in SUBSET t.pending, Continued(t, rows)
               PROVE  p \in rows
    BY DEF Finalized, Continued
  <2>1. F \subseteq rows
    BY DEF Finalized
  <2> QED BY <2>1 DEF Continued
<1>3. \A R \in SUBSET t.pending : Continued(t, R) => F \subseteq R
  BY DEF Finalized
<1>T. t.last \in Nat /\ LogBlocks \subseteq Nat
  BY LogTypes DEF TopicOK
<1>P. ASSUME NEW p \in t.pending
      PROVE  /\ p.point \in LogBlocks /\ p.point \in Nat /\ p.prev \in Nat /\ p.prev < p.point
             /\ \A h \in LogBlocks : ~(p.prev < h /\ h < p.point)
  <2>1. p \in Event /\ Good(p) /\ p.prev < p.point
    BY DEF TopicOK
  <2> QED BY <2>1, EventTypes DEF Good
<1>4. Continued(t, R1)
  <2> SUFFICES ASSUME NEW p \in t.pending,
                      p.prev = t.last \/ (\E q \in R1 : p.prev = q.point)
               PROVE  t.last < p.point
    BY DEF Continued
  <2>1. CASE p.prev = t.last
    BY <2>1, <1>P
  <2>2. CASE \E q \in R1 : p.prev = q.point
    <3>1. PICK q \in R1 : p.prev = q.point
      BY <2>2
    <3>2. p.point \in Nat /\ p.prev \in Nat /\ t.last < p.prev /\ p.prev < p.point
      BY <1>P, <3>1
    <3> QED BY <3>2, <1>T
  <2> QED BY <2>1, <2>2
<1>5. Continued(t, R2)
  <2> HIDE DEF F
  <2> SUFFICES ASSUME NEW p \in t.pending,
                      p.prev = t.last \/ (\E q \in R2 : p.prev = q.point)
               PROVE  p \in R2
    BY DEF Continued
  <2>1. p \in F
    BY <1>2 DEF Continued
  <2>2. ASSUME NEW h \in LogBlocks, t.last < h, h <= p.point
        PROVE  \E q \in F : q.point = h
    <3>T. /\ h \in Nat /\ p.point \in Nat /\ p.prev \in Nat /\ t.last \in Nat
          /\ ~(p.prev < h /\ h < p.point)
      BY <1>P, <1>T
    <3>1. CASE h = p.point
      BY <3>1, <2>1
    <3>2. CASE h < p.point
      <4>1. h <= p.prev
        BY <3>T, <3>2
      <4>2. p.prev # t.last
        BY <4>1, <2>2, <3>T
      <4>3. PICK q \in R2 : p.prev = q.point
        BY <4>2
      <4> QED BY <4>1, <4>3, <2>2
    <3> QED BY <3>1, <3>2, <2>2, <3>T
  <2> QED BY <2>1, <2>2
<1> QED BY <1>1, <1>3, <1>4, <1>5

\* resolve keeps the topic.
LEMMA ResolvedTopic ==
  ASSUME NEW t, TopicOK(t)
  PROVE  TopicOK(Resolve(t)) /\ Resolve(t).pending = t.pending
<1> DEFINE F == Finalized(t)
           P == {p.point : p \in F}
           s == InOrder(P)
           u == Resolve(t)
<1>1. /\ u.pending = t.pending /\ u.given = t.given \o s
      /\ u.last = IF s = <<>> THEN t.last ELSE s[Len(s)]
      /\ DOMAIN u = {"pending", "last", "given"}
  BY DEF TopicOK, Resolve
<1>2. P \subseteq LogBlocks /\ t.last \in Nat
  <2>1. F \subseteq Event /\ t.last \in {0} \cup LogBlocks
    BY FinalizedPoints DEF TopicOK
  <2> HIDE DEF F
  <2> QED BY <2>1, EventTypes, LogTypes
<1>3. ASSUME NEW x \in P
      PROVE  /\ t.last < x /\ x \in Nat
             /\ \A h \in LogBlocks : t.last < h /\ h <= x => h \in P
  <2> HIDE DEF F
  <2>1. PICK p \in F : x = p.point
    OBVIOUS
  <2> QED BY <2>1, <1>2, FinalizedPoints, LogTypes DEF F
<1> HIDE DEF P, u
<1>4. s \in Seq(P) /\ Ascending(s) /\ Range(s) = P
  <2>1. P \in SUBSET (1 .. MaxTip)
    BY <1>2, LogTypes
  <2> QED BY <2>1, InOrderIs, LogTypes
<1> HIDE DEF s
<1>5. /\ t.given \in Seq(LogBlocks) /\ Range(t.given) = {h \in LogBlocks : h <= t.last}
      /\ Ascending(t.given) /\ s \in Seq(LogBlocks)
  BY <1>2, <1>4 DEF TopicOK
<1>6. \A x \in Range(t.given), y \in Range(s) : x < y
  <2> SUFFICES ASSUME NEW x \in LogBlocks, x <= t.last, NEW y \in P PROVE x < y
    BY <1>4, <1>5
  <2> QED BY <1>2, <1>3, LogTypes
<1>7. /\ u.given \in Seq(LogBlocks) /\ Ascending(u.given)
      /\ Range(u.given) = Range(t.given) \cup P
  <2> DEFINE g == t.given
  <2>1. g \in Seq(LogBlocks) /\ Ascending(g) /\ \A x \in Range(g), y \in Range(s) : x < y
    BY <1>5, <1>6
  <2> HIDE DEF g
  <2>2. /\ g \o s \in Seq(LogBlocks) /\ Ascending(g \o s)
        /\ Range(g \o s) = Range(g) \cup Range(s)
    <3>1. LogBlocks \subseteq Nat /\ s \in Seq(LogBlocks) /\ Ascending(s)
      BY LogTypes, <1>5, <1>4
    <3> QED BY <2>1, <3>1, Appended, Zenon
  <2> QED BY <2>2, <1>1, <1>4 DEF g
<1>8. u.last \in {0} \cup LogBlocks /\ Range(u.given) = {h \in LogBlocks : h <= u.last}
  <2>1. CASE s = <<>>
    <3>1. P = {}
      BY <1>4, <2>1 DEF Range
    <3> QED BY <3>1, <2>1, <1>1, <1>7, <1>5 DEF TopicOK
  <2>2. CASE s # <<>>
    <3>1. u.last \in P /\ u.last \in Nat /\ t.last < u.last
      BY <2>2, <1>1, <1>3, <1>4, <1>5, LastIsLargest, LogTypes
    <3>2. \A x \in P : x <= u.last
      BY <2>2, <1>1, <1>4, <1>5, LastIsLargest, LogTypes
    <3>3. ASSUME NEW h \in LogBlocks PROVE h \in Range(u.given) <=> h <= u.last
      <4>1. h \in Nat
        BY LogTypes
      <4>2. h \in Range(u.given) <=> h <= t.last \/ h \in P
        BY <1>5, <1>7
      <4>3. h \in P => h <= u.last
        BY <3>2
      <4>4. h <= u.last /\ ~(h <= t.last) => h \in P
        BY <3>1, <1>3, <1>2, <4>1
      <4> QED BY <4>1, <4>2, <4>3, <4>4, <3>1, <1>2
    <3> QED BY <3>1, <3>3, <1>2, <1>5, <1>7
  <2> QED BY <2>1, <2>2
<1> QED BY <1>1, <1>5, <1>7, <1>8 DEF TopicOK, u

-----------------------------------------------------------------------------
(* The vote store.                                                         *)

\* The record of an application.
IsApp(a) ==
  /\ DOMAIN a = {"res", "processed", "topic"}
  /\ DOMAIN a.topic = {"pending", "last", "given"}

\* The events that the block turns into resolutions.
Opened(a, b) == IF VoteBodiesPass(a, b.bodies) THEN b.bodies ELSE {}

\* The voters of a resolution after the transactions of the block.
Approvers(a, b, e) ==
  IF e \in Opened(a, b) THEN {Leader}
  ELSE a.res[e] \cup {tx.voter : tx \in {t \in b.votes : e \in VotesCounted(a, t.ids)}}

\* The resolutions that the block confirms.
Passed(a, b) ==
  {e \in (DOMAIN a.res \cup Opened(a, b)) \ b.expired :
     SumFunctionOnSet(Power, Approvers(a, b, e)) >= RequiredPower(1, 2)}

\* The resolutions that are no longer open after the block.
Gone(a, b) == Passed(a, b) \cup b.expired

\* What executing a block makes of the application.
LEMMA ExecutedIs ==
  ASSUME NEW a, IsApp(a), NEW b
  PROVE  /\ Executed(a, b).res = [e \in (DOMAIN a.res \cup Opened(a, b)) \ Gone(a, b) |-> Approvers(a, b, e)]
         /\ Executed(a, b).processed = a.processed \cup Gone(a, b)
         /\ Executed(a, b).topic = Resolve(StoreDataPoints(a.topic, Passed(a, b)))
         /\ DOMAIN Executed(a, b) = {"res", "processed", "topic"}
<1> DEFINE v == VoteIDs(a, b.votes)
           w == IF b.bodies = {} THEN v ELSE VoteBodies(v, Leader, b.bodies)
           ap(e) == a.res[e] \cup {tx.voter : tx \in {t \in b.votes : e \in VotesCounted(a, t.ids)}}
<1>1. /\ v.res = [e \in DOMAIN a.res |-> ap(e)] /\ v.processed = a.processed /\ v.topic = a.topic
      /\ DOMAIN v = {"res", "processed", "topic"}
  BY DEF IsApp, VoteIDs
<1>2. VoteBodiesPass(v, b.bodies) <=> VoteBodiesPass(a, b.bodies)
  BY <1>1 DEF VoteBodiesPass
<1>3. /\ w.res = [e \in DOMAIN a.res \cup Opened(a, b) |-> Approvers(a, b, e)]
      /\ w.processed = a.processed /\ w.topic = a.topic
  <2>1. CASE b.bodies = {}
    BY <1>1, <2>1 DEF Opened, Approvers
  <2>2. CASE b.bodies # {} /\ ~VoteBodiesPass(a, b.bodies)
    BY <1>1, <1>2, <2>2 DEF Opened, Approvers, VoteBodies
  <2>3. CASE b.bodies # {} /\ VoteBodiesPass(a, b.bodies)
    <3> HIDE DEF v
    <3>1. w = [v EXCEPT !.res = [e \in DOMAIN v.res \cup b.bodies |->
                              IF e \in b.bodies THEN {Leader} ELSE v.res[e]]]
      BY <1>2, <2>3 DEF VoteBodies
    <3>2. w.res = [e \in DOMAIN v.res \cup b.bodies |->
                              IF e \in b.bodies THEN {Leader} ELSE v.res[e]]
      BY <3>1, <1>1
    <3>3. DOMAIN v.res = DOMAIN a.res /\ Opened(a, b) = b.bodies
      BY <1>1, <2>3 DEF Opened
    <3>4. w.res = [e \in DOMAIN a.res \cup Opened(a, b) |-> Approvers(a, b, e)]
      <4> HIDE DEF w
      <4> SUFFICES [e \in DOMAIN v.res \cup b.bodies |-> IF e \in b.bodies THEN {Leader} ELSE v.res[e]]
                    = [e \in DOMAIN a.res \cup Opened(a, b) |-> Approvers(a, b, e)]
        BY <3>2
      <4>1. \A e \in DOMAIN a.res : v.res[e] = ap(e)
        BY <1>1
      <4>2. \A e \in DOMAIN a.res \cup b.bodies :
               (IF e \in b.bodies THEN {Leader} ELSE v.res[e]) = Approvers(a, b, e)
        BY <4>1, <3>3 DEF Approvers
      <4> QED BY <4>2, <3>3
    <3>5. w.processed = a.processed /\ w.topic = a.topic
      BY <3>1, <1>1
    <3> QED BY <3>4, <3>5
  <2> QED BY <2>1, <2>2, <2>3
<1> HIDE DEF w, v
<1>4. Executed(a, b) = Finalize(w, b.expired)
  BY DEF Executed, w, v
<1>5. Confirmed(w, b.expired) = Passed(a, b)
  BY <1>3 DEF Confirmed, Passed, ApprovedPower
<1>6. ProcessVotes(w, b.expired)
       = [res |-> Restrict(w.res, DOMAIN w.res \ Gone(a, b)),
          processed |-> a.processed \cup Gone(a, b),
          topic |-> StoreDataPoints(a.topic, Passed(a, b))]
  BY <1>5, <1>3 DEF ProcessVotes, Gone
<1>7. Restrict(w.res, DOMAIN w.res \ Gone(a, b)) = [e \in (DOMAIN a.res \cup Opened(a, b)) \ Gone(a, b) |-> Approvers(a, b, e)]
  BY <1>3 DEF Restrict
<1> DEFINE p == ProcessVotes(w, b.expired)
<1>8. /\ p.res = [e \in (DOMAIN a.res \cup Opened(a, b)) \ Gone(a, b) |-> Approvers(a, b, e)]
      /\ p.processed = a.processed \cup Gone(a, b)
      /\ p.topic = StoreDataPoints(a.topic, Passed(a, b))
      /\ DOMAIN p = {"res", "processed", "topic"}
  BY <1>6, <1>7
<1>9. Finalize(w, b.expired) = [p EXCEPT !.topic = Resolve(p.topic)]
  BY DEF Finalize
<1> HIDE DEF p
<1> QED BY <1>4, <1>8, <1>9

\* The set has half of the power.
Half(S) == 2 * SumFunctionOnSet(Power, S) >= TotalPower

\* A larger set has half of the power if a smaller one has.
LEMMA HalfGrows ==
  ASSUME NEW R, NEW S, R \subseteq S, S \subseteq Nodes,
         Half(R)
  PROVE  Half(S)
<1>1. IsFiniteSet(Nodes) /\ (\A n \in Nodes : Power[n] \in Nat) /\ TotalPower \in Nat
  BY PowerAssumption
<1>2. IsFiniteSet(S) /\ IsFiniteSet(R) /\ \A x \in S : Power[x] \in Nat /\ Power[x] \in Int
  BY <1>1, FS_Subset
<1>3. SumFunctionOnSet(Power, R) <= SumFunctionOnSet(Power, S)
  BY <1>2, SumMonotone
<1>4. SumFunctionOnSet(Power, R) \in Nat /\ SumFunctionOnSet(Power, S) \in Nat
  BY <1>2, SumType
<1> QED BY <1>1, <1>3, <1>4 DEF Half

\* RequiredPower rounds up, so that what reaches it is half of the power.
LEMMA RequiredIsHalf ==
  ASSUME NEW S, S \subseteq Nodes, SumFunctionOnSet(Power, S) >= RequiredPower(1, 2)
  PROVE  Half(S)
<1>1. IsFiniteSet(Nodes) /\ (\A n \in Nodes : Power[n] \in Nat) /\ TotalPower \in Nat
  BY PowerAssumption
<1>2. IsFiniteSet(S) /\ \A x \in S : Power[x] \in Nat /\ Power[x] \in Int
  BY <1>1, FS_Subset
<1>3. SumFunctionOnSet(Power, S) \in Nat
  BY <1>2, SumType
<1> QED BY <1>1, <1>3 DEF Half, RequiredPower

\* The nodes that have observed an event.
Observers(obs, e) == {n \in Nodes : e \in obs[n]}

\* An application: a resolution is Good and its voters have observed it, a
\* resolution is not open and processed at once, and each row of the topic was
\* observed by half of the power.
AppOK(a, obs) ==
  /\ DOMAIN a = {"res", "processed", "topic"} /\ TopicOK(a.topic)
  /\ DOMAIN a.res \subseteq Event
  /\ \A e \in DOMAIN a.res : Good(e) /\ a.res[e] \subseteq Observers(obs, e)
  /\ a.processed \subseteq Event \ DOMAIN a.res
  /\ \A p \in a.topic.pending : Half(Observers(obs, p))

\* The ids of resolutions, open or processed.
Known(a) == DOMAIN a.res \cup a.processed

\* What the application c after the block b keeps of the application a before
\* it: processed ids and known ids, the votes of open resolutions, and every
\* vote of the block for a resolution that stays open is counted.
Follows(a, b, c) ==
  /\ a.processed \subseteq c.processed
  /\ Known(a) \subseteq Known(c)
  /\ \A e \in DOMAIN a.res \cap DOMAIN c.res : a.res[e] \subseteq c.res[e]
  /\ \A tx \in b.votes : \A e \in tx.ids \cap DOMAIN c.res : tx.voter \in c.res[e]

\* Executing a block of sincere votes and observed events keeps the
\* application.
LEMMA ExecutedOK ==
  ASSUME NEW a, NEW b, NEW obs \in [Nodes -> SUBSET Event],
         AppOK(a, obs), b.expired \subseteq DOMAIN a.res,
         b.bodies \subseteq obs[Leader],
         b.votes \subseteq VoteTx,
         \A tx \in b.votes : tx.ids \subseteq obs[tx.voter] /\ tx.ids \subseteq Known(a),
         \A n \in Nodes : \A e \in obs[n] : Good(e)
  PROVE  AppOK(Executed(a, b), obs) /\ Follows(a, b, Executed(a, b))
<1> DEFINE c == Executed(a, b)
           O == Opened(a, b)
           G == Gone(a, b)
           D == (DOMAIN a.res \cup O) \ G
<1>1. /\ c.res = [e \in D |-> Approvers(a, b, e)]
      /\ c.processed = a.processed \cup G
      /\ c.topic = Resolve(StoreDataPoints(a.topic, Passed(a, b)))
      /\ DOMAIN c = {"res", "processed", "topic"}
  BY ExecutedIs DEF AppOK, TopicOK, IsApp
<1>2. /\ O \subseteq b.bodies /\ O \subseteq Event /\ O \cap a.processed = {}
      /\ O \cap DOMAIN a.res = {}
      /\ \A e \in O : Good(e) /\ Leader \in Observers(obs, e)
  BY OracleAssumption DEF Opened, VoteBodiesPass, Observers
<1>3. ASSUME NEW tx \in b.votes
      PROVE  tx.voter \in Nodes /\ VotesCounted(a, tx.ids) = tx.ids \ a.processed
             /\ \A e \in tx.ids : tx.voter \in Observers(obs, e)
  <2>1. tx.voter \in Nodes /\ tx.ids \subseteq Event
    BY DEF VoteTx
  <2>2. tx.ids \ a.processed \subseteq DOMAIN a.res
    BY DEF Known
  <2> QED BY <2>1, <2>2 DEF VotesCounted, Observers
<1>4. ASSUME NEW e \in DOMAIN a.res \cup O
      PROVE  /\ e \in Event /\ Good(e) /\ Approvers(a, b, e) \subseteq Observers(obs, e)
             /\ e \in DOMAIN a.res => /\ a.res[e] \subseteq Approvers(a, b, e)
                                      /\ \A tx \in b.votes : e \in tx.ids => tx.voter \in Approvers(a, b, e)
  <2>1. CASE e \in O
    BY <1>2, <2>1 DEF Approvers
  <2>2. CASE e \notin O /\ e \in DOMAIN a.res
    <3>1. Approvers(a, b, e) = a.res[e] \cup {tx.voter : tx \in {t \in b.votes : e \in VotesCounted(a, t.ids)}}
      BY <2>2 DEF Approvers
    <3>2. \A tx \in b.votes : e \in VotesCounted(a, tx.ids) <=> e \in tx.ids
      BY <2>2, <1>3 DEF AppOK
    <3>3. e \in Event /\ Good(e) /\ a.res[e] \subseteq Observers(obs, e)
      BY <2>2 DEF AppOK
    <3> QED BY <3>1, <3>2, <3>3, <1>3
  <2> QED BY <2>1, <2>2
<1>5. G \subseteq DOMAIN a.res \cup O
  BY DEF Gone, Passed
<1>6. DOMAIN c.res = D /\ \A e \in D : c.res[e] = Approvers(a, b, e)
  BY <1>1
<1>7. /\ DOMAIN c.res \subseteq Event
      /\ \A e \in DOMAIN c.res : Good(e) /\ c.res[e] \subseteq Observers(obs, e)
      /\ c.processed \subseteq Event \ DOMAIN c.res
  <2>1. a.processed \subseteq Event \ DOMAIN a.res
    BY DEF AppOK
  <2> HIDE DEF c, O, G
  <2> QED BY <1>1, <1>2, <1>4, <1>5, <1>6, <2>1
<1>8. Passed(a, b) \subseteq Event /\ \A e \in Passed(a, b) : Good(e) /\ Half(Observers(obs, e))
  <2> SUFFICES ASSUME NEW e \in Passed(a, b) PROVE e \in Event /\ Good(e) /\ Half(Observers(obs, e))
    OBVIOUS
  <2>1. e \in DOMAIN a.res \cup O /\ SumFunctionOnSet(Power, Approvers(a, b, e)) >= RequiredPower(1, 2)
    BY DEF Passed
  <2>2. Approvers(a, b, e) \subseteq Observers(obs, e) /\ Observers(obs, e) \subseteq Nodes
    BY <2>1, <1>4 DEF Observers
  <2>3. Half(Approvers(a, b, e))
    BY <2>1, <2>2, RequiredIsHalf
  <2> QED BY <2>1, <2>2, <2>3, <1>4, HalfGrows
<1> DEFINE t == StoreDataPoints(a.topic, Passed(a, b))
<1>9. TopicOK(t) /\ t.pending \subseteq a.topic.pending \cup Passed(a, b)
  BY <1>8, StoredPoints DEF AppOK
<1>10. TopicOK(c.topic) /\ c.topic.pending = t.pending
  <2> HIDE DEF t
  <2> QED BY <1>1, <1>9, ResolvedTopic DEF t
<1>11. \A p \in c.topic.pending : Half(Observers(obs, p))
  BY <1>8, <1>9, <1>10 DEF AppOK
<1> HIDE DEF c, t
<1>12. AppOK(c, obs)
  BY <1>1, <1>7, <1>10, <1>11 DEF AppOK
<1>13. Follows(a, b, c)
  <2> HIDE DEF O, G
  <2>1. a.processed \subseteq c.processed
    BY <1>1
  <2>2. Known(a) \subseteq Known(c)
    BY <1>1, <1>6 DEF Known
  <2>3. \A e \in DOMAIN a.res \cap DOMAIN c.res : a.res[e] \subseteq c.res[e]
    BY <1>6, <1>4
  <2>4. ASSUME NEW tx \in b.votes, NEW e \in tx.ids \cap DOMAIN c.res
        PROVE  tx.voter \in c.res[e]
    <3>1. e \in Known(a) /\ e \in D
      BY <1>6
    <3>2. e \in DOMAIN a.res
      <4>1. e \notin c.processed
        BY <1>7
      <4> QED BY <3>1, <4>1, <2>1 DEF Known
    <3> QED BY <3>1, <3>2, <1>4, <1>6
  <2> QED BY <2>1, <2>2, <2>3, <2>4 DEF Follows
<1> QED BY <1>12, <1>13 DEF c

\* More observations do not harm the application.
LEMMA AppGrows ==
  ASSUME NEW a, NEW obs, NEW more, AppOK(a, obs), \A n \in Nodes : obs[n] \subseteq more[n]
  PROVE  AppOK(a, more)
<1>1. \A e : Observers(obs, e) \subseteq Observers(more, e) /\ Observers(more, e) \subseteq Nodes
  BY DEF Observers
<1>2. \A p \in a.topic.pending : Half(Observers(more, p))
  BY <1>1, HalfGrows DEF AppOK
<1> QED BY <1>1, <1>2 DEF AppOK

\* The application at genesis.
LEMMA EmptyAppOK ==
  ASSUME NEW obs
  PROVE  AppOK(EmptyApp, obs) /\ DOMAIN EmptyApp.res = {} /\ EmptyApp.processed = {}
<1> DEFINE a == EmptyApp
<1>1. /\ DOMAIN a = {"res", "processed", "topic"} /\ DOMAIN a.res = {} /\ a.processed = {}
      /\ DOMAIN a.topic = {"pending", "last", "given"}
      /\ a.topic.pending = {} /\ a.topic.last = 0 /\ a.topic.given = <<>>
  BY DEF EmptyApp, EmptyTopic
<1> HIDE DEF a
<1>2. \A h \in LogBlocks : ~(h <= 0)
  <2>1. \A h \in LogBlocks : h \in 1 .. MaxTip
    BY LogTypes
  <2> QED BY <2>1, LogTypes
<1>3. <<>> \in Seq(LogBlocks) /\ DOMAIN <<>> = {}
  OBVIOUS
<1>4. TopicOK(a.topic)
  BY <1>1, <1>2, <1>3 DEF TopicOK, Ascending, Range
<1>5. AppOK(a, obs)
  BY <1>1, <1>4 DEF AppOK
<1> QED BY <1>1, <1>5 DEF a

-----------------------------------------------------------------------------
(* The listener.                                                           *)

\* Heights of the external chain.
Height == 0 .. MaxTip

\* The two stored heights of a listener.
KV == [lh : Height, lwe : Height]

\* No block with logs above i, up to j.
NoLogs(i, j) == \A h \in LogBlocks : ~(i < h /\ h <= j)

\* A listener and its stored heights: every block with logs up to the last
\* seen height is at or below the last height with an event; while it stores
\* events, those to do are all the blocks with logs from the first of them to
\* the end of the range, with none between the previous event and them.
ListenerOK(l, k) ==
  /\ k.lwe \in {0} \cup LogBlocks /\ NoLogs(k.lwe, k.lh)
  /\ l.pc # "off" => l.start = k.lh
  /\ l.pc \in {"store", "insert"} =>
       /\ l.todo # {} /\ k.lh <= l.to
       /\ l.todo = {h \in LogBlocks : Min(l.todo) <= h /\ h <= l.to}
       /\ \A h \in LogBlocks : ~(l.prev < h /\ h < Min(l.todo))
  /\ l.pc \in {"lwe", "lh"} =>
       /\ l.prev \in LogBlocks /\ NoLogs(l.prev, l.to) /\ k.lh <= l.to
  /\ l.pc = "lh" => k.lwe = l.prev

\* The event that a listener stores next.
Due(l) == [point |-> Min(l.todo), prev |-> l.prev]

\* The heights in a listener.
LEMMA ListenerTypes ==
  ASSUME NEW l \in Listener
  PROVE  /\ l.start \in Nat /\ l.to \in Nat /\ l.prev \in Nat
         /\ l.todo \in SUBSET LogBlocks
<1>1. /\ l.start \in 0 .. MaxTip /\ l.to \in 0 .. MaxTip /\ l.prev \in {0} \cup LogBlocks
      /\ l.todo \in SUBSET LogBlocks
  BY DEF Listener
<1>2. ASSUME NEW h \in 0 .. MaxTip PROVE h \in Nat
  BY LogTypes
<1>3. l.prev \in Nat
  BY <1>1, LogTypes
<1> QED BY <1>1, <1>2, <1>3

\* A range with logs keeps the listener.
LEMMA FoundOK ==
  ASSUME NEW l \in Listener, NEW k \in KV, ListenerOK(l, k), l.pc = "next",
         NEW to \in Height, NEW from \in {l.start, l.start + 1}, l.start < to,
         LogBlocks \cap (from .. to) # {}
  PROVE  LET m == [l EXCEPT !.pc = "store", !.to = to,
                            !.todo = LogBlocks \cap (from .. to), !.prev = k.lwe]
         IN m \in Listener /\ ListenerOK(m, k)
<1> DEFINE found == LogBlocks \cap (from .. to)
           m == [l EXCEPT !.pc = "store", !.to = to, !.todo = found, !.prev = k.lwe]
<1>1. /\ Min(found) \in found /\ Min(found) \in Nat /\ \A x \in found : Min(found) <= x
  BY MinLog
<1>2. /\ k.lwe \in {0} \cup LogBlocks /\ NoLogs(k.lwe, k.lh) /\ l.start = k.lh
      /\ k.lwe \in Nat /\ k.lh \in Nat /\ from \in Nat /\ to \in Nat /\ k.lh < to /\ from \in {k.lh, k.lh + 1}
  BY LogTypes DEF ListenerOK, KV, Height, Listener
<1> HIDE DEF found
<1>3. /\ m.pc = "store" /\ m.to = to /\ m.todo = found /\ m.prev = k.lwe /\ m.start = l.start
  BY DEF Listener
<1>4. m \in Listener
  BY <1>2 DEF Listener, found, Height
<1>5. ASSUME NEW h \in LogBlocks
      PROVE  /\ h \in found <=> Min(found) <= h /\ h <= to
             /\ ~(k.lwe < h /\ h < Min(found))
  <2>1. h \in Nat /\ (h \in found <=> from <= h /\ h <= to) /\ from <= Min(found) /\ Min(found) <= to
    BY <1>1, <1>2, LogTypes DEF found
  <2>2. h \in found => Min(found) <= h
    BY <1>1
  <2>3. ~(k.lwe < h /\ h <= k.lh)
    BY <1>2 DEF NoLogs
  <2> QED BY <2>1, <2>2, <2>3, <1>1, <1>2
<1> HIDE DEF m
<1>6. /\ found # {} /\ found \in SUBSET LogBlocks /\ k.lh <= to
  BY <1>2 DEF found
<1>7. found = {h \in LogBlocks : Min(found) <= h /\ h <= to}
  BY <1>5, <1>6
<1>8. ListenerOK(m, k)
  BY <1>2, <1>3, <1>5, <1>6, <1>7 DEF ListenerOK
<1> QED BY <1>4, <1>8 DEF m, found

\* A range without logs keeps the listener.
LEMMA NothingFoundOK ==
  ASSUME NEW l \in Listener, NEW k \in KV, ListenerOK(l, k), l.pc = "next",
         NEW to \in Height, NEW from \in {l.start, l.start + 1}, l.start < to,
         LogBlocks \cap (from .. to) = {}
  PROVE  /\ [l EXCEPT !.start = to] \in Listener /\ [k EXCEPT !.lh = to] \in KV
         /\ ListenerOK([l EXCEPT !.start = to], [k EXCEPT !.lh = to])
<1> DEFINE m == [l EXCEPT !.start = to]
           q == [k EXCEPT !.lh = to]
<1>1. /\ k.lwe \in {0} \cup LogBlocks /\ NoLogs(k.lwe, k.lh) /\ l.start = k.lh
      /\ k.lwe \in Nat /\ k.lh \in Nat /\ from \in Nat /\ to \in Nat /\ k.lh < to /\ from \in {k.lh, k.lh + 1}
  BY LogTypes DEF ListenerOK, KV, Height, Listener
<1>2. m.pc = "next" /\ m.start = to /\ q.lh = to /\ q.lwe = k.lwe
  BY DEF Listener, KV
<1>3. m \in Listener /\ q \in KV
  BY DEF Listener, KV, Height
<1>4. ASSUME NEW h \in LogBlocks PROVE ~(k.lwe < h /\ h <= to)
  <2>1. h \in Nat /\ ~(from <= h /\ h <= to)
    BY <1>1, LogTypes
  <2>2. ~(k.lwe < h /\ h <= k.lh)
    BY <1>1 DEF NoLogs
  <2> QED BY <2>1, <2>2, <1>1
<1> HIDE DEF m, q
<1>5. ListenerOK(m, q)
  BY <1>1, <1>2, <1>4 DEF ListenerOK, NoLogs
<1> QED BY <1>3, <1>5 DEF m, q

\* The event that a listener stores is Good.
LEMMA DueOK ==
  ASSUME NEW l \in Listener, NEW k \in KV, ListenerOK(l, k), l.pc \in {"store", "insert"}
  PROVE  Due(l) \in Event /\ Good(Due(l))
<1>1. /\ l.todo # {} /\ l.todo \in SUBSET LogBlocks /\ l.prev \in {0} \cup LogBlocks
      /\ \A h \in LogBlocks : ~(l.prev < h /\ h < Min(l.todo))
  BY DEF ListenerOK, Listener
<1>2. Min(l.todo) \in LogBlocks
  BY <1>1, MinLog
<1> QED BY <1>1, <1>2 DEF Due, Event, Good

\* Going on to the next event keeps the listener.
LEMMA StoredOK ==
  ASSUME NEW l \in Listener, NEW k \in KV, ListenerOK(l, k), l.pc \in {"store", "insert"}
  PROVE  Stored(l) \in Listener /\ ListenerOK(Stored(l), k)
<1> DEFINE m == Stored(l)
           h == Min(l.todo)
           rest == l.todo \ {h}
<1>1. /\ l.todo # {} /\ l.todo \in SUBSET LogBlocks /\ l.prev \in {0} \cup LogBlocks
      /\ l.todo = {x \in LogBlocks : h <= x /\ x <= l.to} /\ l.to \in Nat
      /\ l.start = k.lh /\ k.lh <= l.to /\ k.lwe \in {0} \cup LogBlocks /\ NoLogs(k.lwe, k.lh)
  BY DEF ListenerOK, Listener
<1>2. h \in l.todo /\ h \in LogBlocks /\ h \in Nat /\ \A x \in l.todo : h <= x
  BY <1>1, MinLog
<1> HIDE DEF h
<1>3. /\ m.pc = (IF l.todo = {h} THEN "lwe" ELSE "store") /\ m.to = l.to /\ m.todo = rest
      /\ m.prev = h /\ m.start = l.start
  BY DEF Stored, Listener, h
<1>4. m \in Listener
  BY <1>2 DEF Stored, Listener, h
<1> HIDE DEF m
<1>5. CASE rest = {}
  <2>1. l.todo = {h} /\ m.pc = "lwe"
    BY <1>2, <1>3, <1>5
  <2>2. NoLogs(h, l.to)
    <3> SUFFICES ASSUME NEW x \in LogBlocks, h < x, x <= l.to PROVE FALSE
      BY DEF NoLogs
    <3>1. x \in Nat
      BY LogTypes
    <3>2. x \in l.todo
      BY <1>1, <1>2, <3>1
    <3> QED BY <3>1, <3>2, <2>1, <1>2
  <2> QED BY <1>1, <1>2, <1>3, <1>4, <2>1, <2>2 DEF ListenerOK, m
<1>6. CASE rest # {}
  <2> DEFINE g == Min(rest)
  <2>1. l.todo # {h} /\ m.pc = "store"
    BY <1>3, <1>6
  <2>2. g \in rest /\ g \in Nat /\ \A x \in rest : g <= x
    BY <1>1, <1>6, MinLog
  <2> HIDE DEF g
  <2>3. ASSUME NEW x \in LogBlocks
        PROVE  /\ x \in rest <=> g <= x /\ x <= l.to
               /\ ~(h < x /\ x < g)
    <3>1. /\ x \in Nat /\ (x \in l.todo <=> h <= x /\ x <= l.to)
          /\ (x \in rest <=> x \in l.todo /\ x # h) /\ h < g /\ g <= l.to
          /\ x \in rest => g <= x
      <4>1. x \in Nat /\ (x \in l.todo <=> h <= x /\ x <= l.to) /\ (x \in rest <=> x \in l.todo /\ x # h)
        BY LogTypes, <1>1
      <4>2. g \in l.todo /\ g # h
        BY <2>2
      <4>3. h <= g /\ g <= l.to
        BY <4>2, <1>1
      <4> QED BY <4>1, <4>2, <4>3, <2>2, <1>2
    <3> HIDE DEF rest
    <3> QED BY <3>1, <1>1, <1>2, <2>2
  <2>4. rest = {x \in LogBlocks : g <= x /\ x <= l.to}
    BY <2>3, <1>1
  <2> HIDE DEF rest
  <2>5. ListenerOK(m, k)
    BY <1>1, <1>2, <1>3, <1>6, <2>1, <2>3, <2>4 DEF ListenerOK, g
  <2> QED BY <2>5, <1>4 DEF m
<1> QED BY <1>5, <1>6

\* A listener that stops keeps its stored heights.
LEMMA OffOK ==
  ASSUME NEW k \in KV, NEW l \in Listener, ListenerOK(l, k)
  PROVE  Off \in Listener /\ ListenerOK(Off, k)
<1>1. Off \in Listener /\ Off.pc = "off"
  BY LogTypes DEF Off, Listener
<1> QED BY <1>1 DEF ListenerOK

\* A listener that never started over: the events stored so far are below
\* those that are due, but for the last one, which the catch-up may meet again
\* as the first block of its next chunk, then with a previous height that is
\* no longer below it.
Fresh(l, k, obs) ==
  /\ l.pc # "lh" => k.lwe <= k.lh
  /\ l.pc = "off" => obs = {} /\ k.lh = 0
  /\ l.pc = "next" =>
       \A o \in obs : o.point <= l.start /\ (o.point = l.start => o.prev < o.point)
  /\ l.pc \in {"store", "insert"} =>
       /\ l.start < l.to
       /\ l.prev < Min(l.todo) \/ Min(l.todo) = l.start
       /\ \A o \in obs : \/ o.point < Min(l.todo)
                         \/ /\ o.point = Min(l.todo) /\ o.point = l.start
                            /\ o.prev < o.point /\ l.start <= l.prev
  /\ l.pc \in {"lwe", "lh"} =>
       /\ l.prev <= l.to
       /\ \A o \in obs : o.point <= l.to /\ (o.point = l.to => o.prev < o.point)

\* The event due is not one of the events stored so far.
LEMMA DueIsFresh ==
  ASSUME NEW l \in Listener, NEW k \in KV, ListenerOK(l, k), l.pc = "insert",
         NEW obs, Fresh(l, k, obs)
  PROVE  Due(l) \notin obs
<1> SUFFICES ASSUME Due(l) \in obs PROVE FALSE
  OBVIOUS
<1>1. l.todo # {} /\ l.todo \in SUBSET LogBlocks /\ l.prev \in Nat /\ l.start \in Nat
  BY ListenerTypes DEF ListenerOK
<1>2. Min(l.todo) \in Nat
  BY <1>1, MinLog
<1>3. Due(l).point = Min(l.todo) /\ Due(l).prev = l.prev
  BY DEF Due
<1>4. \/ Due(l).point < Min(l.todo)
      \/ /\ Due(l).point = l.start /\ Due(l).prev < Due(l).point /\ l.start <= l.prev
  BY DEF Fresh
<1> QED BY <1>1, <1>2, <1>3, <1>4

\* A range with logs keeps the order of events.
LEMMA FoundFresh ==
  ASSUME NEW l \in Listener, NEW k \in KV, ListenerOK(l, k), l.pc = "next",
         NEW obs \in SUBSET Event, Fresh(l, k, obs),
         NEW to \in Height, NEW from \in {l.start, l.start + 1}, l.start < to,
         LogBlocks \cap (from .. to) # {}
  PROVE  Fresh([l EXCEPT !.pc = "store", !.to = to,
                         !.todo = LogBlocks \cap (from .. to), !.prev = k.lwe], k, obs)
<1> DEFINE found == LogBlocks \cap (from .. to)
           m == [l EXCEPT !.pc = "store", !.to = to, !.todo = found, !.prev = k.lwe]
<1>1. /\ Min(found) \in found /\ Min(found) \in Nat
  BY MinLog
<1>2. /\ k.lwe \in Nat /\ k.lh \in Nat /\ to \in Nat /\ l.start = k.lh /\ k.lh < to
      /\ NoLogs(k.lwe, k.lh) /\ k.lwe <= k.lh /\ from \in Nat /\ k.lh <= from
      /\ l.start \in Nat
  BY LogTypes DEF ListenerOK, Fresh, KV, Height, Listener
<1>3. k.lh <= Min(found)
  BY <1>1, <1>2
<1> HIDE DEF found
<1>4. /\ m.pc = "store" /\ m.to = to /\ m.todo = found /\ m.prev = k.lwe /\ m.start = l.start
  BY DEF Listener
<1> HIDE DEF m
<1>5. m.prev < Min(m.todo) \/ Min(m.todo) = m.start
  BY <1>1, <1>2, <1>3, <1>4
<1>6. ASSUME NEW o \in obs
      PROVE  \/ o.point < Min(m.todo)
             \/ /\ o.point = Min(m.todo) /\ o.point = m.start
                /\ o.prev < o.point /\ m.start <= m.prev
  <2>1. o.point \in LogBlocks /\ o.point \in Nat /\ o.prev \in Nat
    BY EventTypes
  <2>2. o.point <= l.start /\ (o.point = l.start => o.prev < o.point)
    BY DEF Fresh
  <2>3. ~(k.lwe < o.point /\ o.point <= k.lh)
    BY <1>2, <2>1 DEF NoLogs
  <2> QED BY <1>1, <1>2, <1>3, <1>4, <2>1, <2>2, <2>3
<1>7. Fresh(m, k, obs)
  BY <1>2, <1>4, <1>5, <1>6 DEF Fresh
<1> QED BY <1>7 DEF m, found

\* A range without logs keeps the order of events.
LEMMA NothingFoundFresh ==
  ASSUME NEW l \in Listener, NEW k \in KV, ListenerOK(l, k), l.pc = "next",
         NEW obs \in SUBSET Event, Fresh(l, k, obs), NEW to \in Height, l.start < to
  PROVE  Fresh([l EXCEPT !.start = to], [k EXCEPT !.lh = to], obs)
<1> DEFINE m == [l EXCEPT !.start = to]
           q == [k EXCEPT !.lh = to]
<1>1. m.pc = "next" /\ m.start = to /\ q.lh = to /\ q.lwe = k.lwe
  BY DEF Listener, KV
<1>2. /\ k.lwe \in Nat /\ k.lh \in Nat /\ to \in Nat /\ l.start = k.lh /\ k.lh < to /\ k.lwe <= k.lh
  BY LogTypes DEF ListenerOK, Fresh, KV, Height, Listener
<1>3. ASSUME NEW o \in obs PROVE o.point < to
  <2>1. o.point \in Nat /\ o.point <= l.start
    BY EventTypes DEF Fresh
  <2> QED BY <1>2, <2>1
<1>4. \A o \in obs : o.point <= to /\ (o.point = to => o.prev < o.point)
  <2> SUFFICES ASSUME NEW o \in obs PROVE o.point <= to /\ o.point # to
    OBVIOUS
  <2>1. o.point \in Nat /\ o.point < to
    BY <1>3, EventTypes
  <2> QED BY <1>2, <2>1
<1> HIDE DEF m, q
<1>5. Fresh(m, q, obs)
  BY <1>1, <1>2, <1>4 DEF Fresh
<1> QED BY <1>5 DEF m, q

\* Going on to the next event keeps the order of events, whether the event was
\* inserted or found processed.
LEMMA StoredFresh ==
  ASSUME NEW l \in Listener, NEW k \in KV, ListenerOK(l, k), l.pc \in {"store", "insert"},
         NEW obs \in SUBSET Event, Fresh(l, k, obs), NEW more \in SUBSET (obs \cup {Due(l)})
  PROVE  Fresh(Stored(l), k, more)
<1> DEFINE m == Stored(l)
           h == Min(l.todo)
           rest == l.todo \ {h}
<1>1. /\ l.todo # {} /\ l.todo \in SUBSET LogBlocks /\ l.prev \in Nat
      /\ l.todo = {x \in LogBlocks : h <= x /\ x <= l.to} /\ l.to \in Nat
      /\ l.start \in Nat /\ k.lwe <= k.lh
      /\ l.start < l.to /\ (l.prev < h \/ h = l.start)
  <2>1. l.prev \in Nat /\ l.to \in Nat /\ l.start \in Nat /\ l.todo \in SUBSET LogBlocks
    BY ListenerTypes
  <2> QED BY <2>1 DEF ListenerOK, Fresh
<1>2. h \in l.todo /\ h \in LogBlocks /\ h \in Nat /\ h <= l.to
  BY <1>1, MinLog
<1>3. Due(l) \in Event /\ Due(l).point = h /\ Due(l).prev = l.prev
  BY DueOK DEF Due
<1> HIDE DEF h
<1>4. /\ m.pc = (IF l.todo = {h} THEN "lwe" ELSE "store") /\ m.to = l.to /\ m.todo = rest
      /\ m.prev = h /\ m.start = l.start
  BY DEF Stored, Listener, h
<1> HIDE DEF m
<1>5. ASSUME NEW o \in more
      PROVE  /\ o.point \in Nat /\ o.prev \in Nat /\ o.point <= h
             /\ o.point = l.to => o.prev < o.point
  <2>1. o \in Event /\ o.point \in Nat /\ o.prev \in Nat
    BY <1>3, EventTypes
  <2>2. CASE o \in obs
    <3>1. o.point < h \/ (o.point = h /\ o.point = l.start)
      BY <2>2 DEF Fresh, h
    <3> QED BY <1>1, <1>2, <2>1, <3>1
  <2>3. CASE o = Due(l)
    BY <1>1, <1>2, <1>3, <2>1, <2>3
  <2> QED BY <2>2, <2>3
<1>6. CASE l.todo = {h}
  <2>1. \A o \in more : o.point <= l.to /\ (o.point = l.to => o.prev < o.point)
    <3> SUFFICES ASSUME NEW o \in more PROVE o.point <= l.to
      BY <1>5
    <3>1. o.point \in Nat /\ o.point <= h
      BY <1>5
    <3> QED BY <3>1, <1>1, <1>2
  <2>2. Fresh(m, k, more)
    BY <1>1, <1>2, <1>4, <1>6, <2>1 DEF Fresh
  <2> QED BY <2>2 DEF m
<1>7. CASE l.todo # {h}
  <2> DEFINE g == Min(rest)
  <2>1. rest # {} /\ rest \in SUBSET LogBlocks
    BY <1>1, <1>2, <1>7
  <2>2. g \in rest /\ g \in Nat
    BY <2>1, MinLog
  <2> HIDE DEF g
  <2>3. h < g
    <3>1. g # h /\ h <= g
      BY <2>2, <1>1
    <3> QED BY <3>1, <2>2, <1>2
  <2>4. \A o \in more : o.point < g
    <3> SUFFICES ASSUME NEW o \in more PROVE o.point < g
      OBVIOUS
    <3>1. o.point \in Nat /\ o.point <= h
      BY <1>5
    <3> QED BY <3>1, <2>3, <2>2, <1>2
  <2> HIDE DEF rest
  <2>5. Fresh(m, k, more)
    BY <1>1, <1>4, <1>7, <2>3, <2>4 DEF Fresh, g
  <2> QED BY <2>5 DEF m
<1> QED BY <1>6, <1>7

-----------------------------------------------------------------------------
(* The invariant.                                                          *)

\* The phases of a node.
Phase == Open \cup {"behind", "lost", "committed"}

\* The leader commits a block before the others do, marks no votes, and is the
\* only one that loses a block.
PhaseInv ==
  /\ at \in [Nodes -> Phase]
  /\ at[Leader] # "committed" => \A n \in Nodes : at[n] # "committed"
  /\ at[Leader] # "mark"
  /\ \A n \in Nodes : n # Leader => at[n] # "lost"

\* A set of S for each node.
Of(S) == [Nodes -> SUBSET S]

\* The event store of a node: marked and deleted rows exist, rows were
\* observed, and only an open transaction deletes.
StoreInv ==
  /\ events \in Of(Event) /\ sent \in Of(Event) /\ del \in Of(Event) /\ ballot \in Of(Event)
  /\ observed \in Of(Event) /\ raced \in Of(Event) /\ lost \subseteq Event
  /\ \A n \in Nodes :
       /\ sent[n] \subseteq events[n] /\ del[n] \subseteq events[n]
       /\ events[n] \subseteq observed[n] /\ raced[n] \subseteq observed[n]
       /\ ballot[n] \subseteq observed[n]
       /\ at[n] \notin Open => del[n] = {}

\* A vote of a validator for events that it has observed.
Sincere(tx) == tx.voter # Leader /\ tx.ids \subseteq observed[tx.voter]

\* Votes, in a mempool or in the block, are sincere, and the leader sends
\* none.
VoteInv ==
  /\ own \in Of(VoteTx) /\ txs \subseteq VoteTx /\ blk.votes \subseteq VoteTx
  /\ \A tx \in txs \cup blk.votes : Sincere(tx)
  /\ \A n \in Nodes : \A tx \in own[n] : Sincere(tx) /\ tx.voter = n
  /\ blk.bodies \subseteq observed[Leader] /\ blk.expired \subseteq Event
  /\ sent[Leader] = {} /\ ballot[Leader] = {}

\* Every listener is in order, and events are Good.
ListenInv ==
  /\ lst \in [Nodes -> Listener] /\ kv \in [Nodes -> KV]
  /\ \A n \in Nodes : ListenerOK(lst[n], kv[n]) /\ \A e \in observed[n] : Good(e)

\* The application before and after the block.
AppInv == AppOK(app, observed) /\ AppOK(next, observed) /\ Follows(app, blk, next)

\* Votes and marks are for resolutions that exist or have existed, so that no
\* vote transaction fails.
KnownInv ==
  /\ \A tx \in txs \cup blk.votes : tx.ids \subseteq Known(app)
  /\ \A n \in Nodes : /\ sent[n] \subseteq Known(app) /\ ballot[n] \subseteq Known(app)
                      /\ \A tx \in own[n] : tx.ids \subseteq Known(app)

\* A decided event is deleted by the block that decides it, or was inserted
\* late: at the end of a block only deleted rows and late ones are decided.
DecidedInv ==
  \A n \in Nodes :
    /\ at[n] # "committed" => events[n] \cap app.processed \subseteq raced[n]
    /\ at[n] = "done" => (events[n] \ del[n]) \cap next.processed \subseteq raced[n]
    /\ at[n] = "committed" => events[n] \cap next.processed \subseteq raced[n]

\* A marked vote is counted, on its way or lost; the vote that a node is about
\* to mark is in its mempool.
ForgetInv ==
  \A n \in Nodes : /\ Unsent(n) \subseteq lost
                   /\ at[n] = "mark" => [voter |-> n, ids |-> ballot[n]] \in own[n]

\* The faults that have happened are faults.
FaultInv == faults \in Seq(FaultKinds)

\* No listener has started over, no node has crashed and no mempool was wiped.
Quiet == Range(faults) \subseteq {"expire"}

\* Without faults, events are stored in order.
FreshInv == Quiet => \A n \in Nodes : Fresh(lst[n], kv[n], observed[n])

\* The rows that are marked, or about to be.
Marked(n) == sent[n] \cup (IF at[n] = "mark" THEN ballot[n] ELSE {})

\* Without faults, a row that a vote on its way names is marked, or about to
\* be, so that no second vote is sent for it; and what the transactions of the
\* block delete is what they vote for.
OnceInv ==
  Quiet =>
    /\ at[Leader] # "lost"
    /\ \A n \in Nodes :
         /\ \A tx \in own[n] \cup txs : tx.voter = n => tx.ids \cap events[n] \subseteq Marked(n)
         /\ at[n] # "committed" =>
              \A tx \in blk.votes : tx.voter = n => tx.ids \cap events[n] \subseteq sent[n]
         /\ at[n] = "mark" => ballot[n] \cap sent[n] = {}
         /\ at[n] \in {"executed", "mark"} => del[n] \subseteq VotedFor(n)

\* The inductive invariant.
Inv ==
  /\ PhaseInv /\ StoreInv /\ VoteInv /\ ListenInv /\ AppInv /\ KnownInv
  /\ DecidedInv /\ ForgetInv /\ FaultInv /\ FreshInv /\ OnceInv

\* It holds at genesis.
LEMMA InitInv ==
  ASSUME Init
  PROVE  Inv
<1>0. Leader \in Nodes
  BY OracleAssumption
<1>1. PhaseInv
  BY <1>0 DEF Init, PhaseInv, Phase
<1>2. StoreInv
  BY DEF Init, StoreInv, Of, Open
<1>3. VoteInv
  BY <1>0 DEF Init, VoteInv, Of
<1>4. ListenInv
  <2>1. Off \in Listener /\ Off.pc = "off" /\ 0 \in Height
    BY LogTypes DEF Off, Listener, Height
  <2> DEFINE k == [lh |-> 0, lwe |-> 0]
  <2>2. k \in KV /\ k.lh = 0 /\ k.lwe = 0
    BY <2>1 DEF KV
  <2>3. lst = [n \in Nodes |-> Off] /\ kv = [n \in Nodes |-> k] /\ observed = [n \in Nodes |-> {}]
    BY DEF Init
  <2> HIDE DEF k
  <2>4. ListenerOK(Off, k)
    BY <2>1, <2>2, LogTypes DEF ListenerOK, NoLogs
  <2> QED BY <2>1, <2>2, <2>3, <2>4 DEF ListenInv
<1>5. AppInv
  <2>1. app = EmptyApp /\ next = EmptyApp /\ blk.votes = {}
    BY DEF Init
  <2> QED BY <2>1, EmptyAppOK DEF AppInv, Follows
<1>6. KnownInv
  BY DEF Init, KnownInv
<1>7. DecidedInv
  BY DEF Init, DecidedInv
<1>8. ForgetInv
  <2>1. \A n \in Nodes : sent[n] = {} /\ at[n] = "committed"
    BY DEF Init
  <2> QED BY <2>1 DEF ForgetInv, Unsent
<1>8a. FaultInv
  BY DEF Init, FaultInv
<1>9. FreshInv
  <2>1. Off.pc = "off"
    BY DEF Off
  <2>2. \A n \in Nodes : lst[n] = Off /\ kv[n].lh = 0 /\ kv[n].lwe = 0 /\ observed[n] = {}
    BY DEF Init
  <2> QED BY <2>1, <2>2 DEF FreshInv, Fresh
<1>10. OnceInv
  <2>1. \A n \in Nodes : own[n] = {} /\ at[n] = "committed"
    BY DEF Init
  <2>2. txs = {} /\ blk.votes = {}
    BY DEF Init
  <2> QED BY <1>0, <2>1, <2>2 DEF OnceInv
<1> QED BY <1>1, <1>2, <1>3, <1>4, <1>5, <1>6, <1>7, <1>8, <1>8a, <1>9, <1>10 DEF Inv

-----------------------------------------------------------------------------
(* What the steps touch.                                                   *)

\* What a proposal does.
LEMMA ProposeIs ==
  ASSUME Propose
  PROVE  /\ \/ (\A n \in Nodes : at[n] = "committed") /\ app' = next
            \/ at[Leader] = "lost" /\ app' = app /\ \A n \in Nodes : Abortable(n)
         /\ next' = Executed(app', blk')
         /\ blk'.votes = txs /\ blk'.bodies \subseteq events[Leader]
         /\ blk'.bodies = events[Leader] \ DOMAIN app'.res
         /\ blk'.expired \subseteq DOMAIN app'.res
         /\ faults' = faults \/ Fault("expire")
         /\ at' = [n \in Nodes |-> "behind"] /\ acks' = {}
         /\ del' = [n \in Nodes |-> {}] /\ ballot' = [n \in Nodes |-> {}]
         /\ UNCHANGED <<storeVars, own, txs, listenVars, history>>
<1> DEFINE base == IF at[Leader] = "committed" THEN next ELSE app
           b(expired) == [bodies |-> events[Leader] \ DOMAIN base.res, votes |-> txs,
                          expired |-> expired]
<1>1. PICK expired \in {{}} \cup {{e} : e \in DOMAIN base.res} :
        /\ IF expired = {} THEN UNCHANGED faults ELSE Fault("expire")
        /\ blk' = b(expired)
        /\ next' = Executed(base, b(expired))
  BY DEF Propose
<1>2. /\ app' = base
      /\ at' = [n \in Nodes |-> "behind"] /\ acks' = {}
      /\ del' = [n \in Nodes |-> {}] /\ ballot' = [n \in Nodes |-> {}]
      /\ UNCHANGED <<storeVars, own, txs, listenVars, history>>
      /\ \/ \A n \in Nodes : at[n] = "committed"
         \/ at[Leader] = "lost" /\ \A n \in Nodes : Abortable(n)
  BY DEF Propose
<1>3. \/ (\A n \in Nodes : at[n] = "committed") /\ base = next
      \/ at[Leader] = "lost" /\ base = app /\ \A n \in Nodes : Abortable(n)
  BY <1>2, OracleAssumption
<1> HIDE DEF base
<1>4. expired \subseteq DOMAIN base.res
  BY <1>1
<1>5. blk'.votes = txs /\ blk'.bodies = events[Leader] \ DOMAIN base.res /\ blk'.expired = expired
  BY <1>1
<1>6. next' = Executed(app', blk')
  BY <1>1, <1>2
<1>7. faults' = faults \/ Fault("expire")
  BY <1>1
<1> QED BY <1>2, <1>3, <1>4, <1>5, <1>6, <1>7

\* What a step of a listener leaves alone.
LEMMA ListenFrame ==
  ASSUME NEW n \in Nodes, ListenerStep(n)
  PROVE  /\ UNCHANGED <<chainVars, at, sent, del, ballot, own, faults, lost>>
         /\ ~StoreInsert(n) => UNCHANGED <<events, observed, raced>>
  BY DEF ListenerStep, Listen, CatchUp, NewHeight, ProcessEvents, StoreCheck, StoreInsert,
         SetLastHeightWithEvent, SetLastSeenHeight, storeVars, history

\* What blocks and mempools leave alone.
LEMMA BlockFrame ==
  ASSUME NEW n \in Nodes, BlockStep(n) \/ Gossip(n) \/ WipeMempool(n)
  PROVE  UNCHANGED <<lst, kv, lost, observed, raced>>
<1>1. CASE Propose
  BY <1>1, ProposeIs DEF listenVars, history
<1>2. CASE ~Propose
  BY <1>2 DEF BlockStep, ExecuteTxs, UpdateStats, NoVote, BroadcastVoteIDTx, MarkBroadcasted,
              CommitBlock, Gossip, WipeMempool, listenVars, history
<1> QED BY <1>1, <1>2

\* What an insert into the event store does.
LEMMA InsertIs ==
  ASSUME ListenInv, NEW n \in Nodes, StoreInsert(n)
  PROVE  /\ Current(n) = Due(lst[n]) /\ Current(n) \in Event
         /\ events' = [events EXCEPT ![n] = @ \cup {Current(n)}]
         /\ observed' = [observed EXCEPT ![n] = @ \cup {Current(n)}]
         /\ raced' = [raced EXCEPT ![n] = @ \cup ({Current(n)} \cap
                        (IF at[n] \in {"done", "committed"} THEN next.processed ELSE app.processed))]
         /\ Current(n) \notin del[n]
         /\ UNCHANGED <<chainVars, at, sent, del, ballot, own, faults, lost>>
<1>1. lst[n] \in Listener /\ kv[n] \in KV /\ ListenerOK(lst[n], kv[n]) /\ lst[n].pc = "insert"
  BY DEF ListenInv, StoreInsert
<1>2. Due(lst[n]) \in Event
  BY <1>1, DueOK
<1> QED BY <1>2 DEF StoreInsert, Current, Due

\* Observations are not undone.
LEMMA ObservedGrows ==
  ASSUME StoreInv, ListenInv, [Next]_vars
  PROVE  \A n \in Nodes : observed[n] \subseteq observed'[n]
<1>1. CASE UNCHANGED observed
  BY <1>1
<1>2. ASSUME NEW n \in Nodes, StoreInsert(n) PROVE \A m \in Nodes : observed[m] \subseteq observed'[m]
  BY <1>2, InsertIs DEF StoreInv, Of
<1>3. ASSUME NEW n \in Nodes, ~StoreInsert(n),
             \/ ListenerStep(n) \/ BlockStep(n) \/ Gossip(n)
             \/ ListenerFails(n) \/ WipeMempool(n) \/ Crash(n)
      PROVE  UNCHANGED observed
  <2>1. CASE ListenerStep(n)
    BY <1>3, <2>1, ListenFrame
  <2>2. CASE BlockStep(n) \/ Gossip(n) \/ WipeMempool(n)
    BY <2>2, BlockFrame
  <2>3. CASE ListenerFails(n) \/ Crash(n)
    BY <2>3 DEF ListenerFails, Crash, history
  <2> QED BY <1>3, <2>1, <2>2, <2>3
<1> QED BY <1>1, <1>2, <1>3 DEF Next, vars, history

\* Only a proposal touches the application and the block.
LEMMA ChainFrame ==
  ASSUME [Next]_vars, ~Propose
  PROVE  UNCHANGED <<app, next, blk>>
<1>1. CASE UNCHANGED vars
  BY <1>1 DEF vars, chainVars
<1>2. ASSUME NEW n \in Nodes, ListenerStep(n) PROVE UNCHANGED <<app, next, blk>>
  BY <1>2, ListenFrame DEF chainVars
<1>3. ASSUME NEW n \in Nodes, BlockStep(n) \/ Gossip(n) \/ ListenerFails(n) \/ WipeMempool(n) \/ Crash(n)
      PROVE  UNCHANGED <<app, next, blk>>
  BY <1>3 DEF BlockStep, ExecuteTxs, UpdateStats, NoVote, BroadcastVoteIDTx, MarkBroadcasted,
              CommitBlock, Gossip, WipeMempool, ListenerFails, Crash, chainVars
<1> QED BY <1>1, <1>2, <1>3 DEF Next

\* A step that is no fault, or lets a resolution expire.
LEMMA CalmStep ==
  ASSUME NEW n \in Nodes, ListenerStep(n) \/ BlockStep(n) \/ Gossip(n)
  PROVE  faults' = faults \/ Fault("expire")
<1>1. CASE ListenerStep(n) \/ Gossip(n)
  BY <1>1, ListenFrame DEF Gossip
<1>2. CASE BlockStep(n) /\ Propose
  BY <1>2, ProposeIs
<1>3. CASE BlockStep(n) /\ ~Propose
  BY <1>3 DEF BlockStep, ExecuteTxs, UpdateStats, NoVote, BroadcastVoteIDTx, MarkBroadcasted,
              CommitBlock
<1> QED BY <1>1, <1>2, <1>3

\* A step that is a fault.
LEMMA FaultyStep ==
  ASSUME NEW n \in Nodes, ListenerFails(n) \/ WipeMempool(n) \/ Crash(n)
  PROVE  \E kind \in {"listener", "wipe", "leader crash", "validator crash"} : Fault(kind)
BY DEF ListenerFails, WipeMempool, Crash

\* A fault is added to those that have happened.
LEMMA FaultAdds ==
  ASSUME FaultInv, NEW kind, Fault(kind)
  PROVE  FaultInv' /\ Range(faults') = Range(faults) \cup {kind}
<1>1. faults \in Seq(FaultKinds) /\ kind \in FaultKinds /\ faults' = Append(faults, kind)
  BY DEF FaultInv, Fault
<1>2. /\ Len(faults) \in Nat /\ DOMAIN faults = 1 .. Len(faults)
      /\ DOMAIN faults' = 1 .. Len(faults) + 1 /\ faults'[Len(faults) + 1] = kind
      /\ \A i \in 1 .. Len(faults) : faults'[i] = faults[i]
  BY <1>1
<1>3. Range(faults') = Range(faults) \cup {kind}
  BY <1>2 DEF Range
<1> QED BY <1>1, <1>3 DEF FaultInv

\* The list of faults keeps its shape.
LEMMA FaultStep ==
  ASSUME FaultInv, [Next]_vars
  PROVE  FaultInv'
<1>1. faults' = faults \/ \E kind \in FaultKinds : Fault(kind)
  <2>1. \A kind : Fault(kind) => kind \in FaultKinds
    BY DEF Fault
  <2>2. CASE UNCHANGED vars
    BY <2>2 DEF vars
  <2>3. CASE Next
    BY <2>1, <2>3, CalmStep, FaultyStep DEF Next
  <2> QED BY <2>2, <2>3
<1> QED BY <1>1, FaultAdds DEF FaultInv

\* A step after which there was no fault is not one.
LEMMA QuietStep ==
  ASSUME FaultInv, [Next]_vars, Quiet'
  PROVE  /\ Quiet
         /\ \/ UNCHANGED vars
            \/ \E n \in Nodes : ListenerStep(n) \/ BlockStep(n) \/ Gossip(n)
<1>1. CASE UNCHANGED vars
  BY <1>1 DEF vars, Quiet
<1>2. ASSUME NEW n \in Nodes, ListenerStep(n) \/ BlockStep(n) \/ Gossip(n) PROVE Quiet
  <2>1. CASE faults' = faults
    BY <2>1 DEF Quiet
  <2>2. CASE Fault("expire")
    BY <2>2, FaultAdds DEF Quiet
  <2> QED BY <1>2, <2>1, <2>2, CalmStep
<1>3. ASSUME NEW n \in Nodes, ListenerFails(n) \/ WipeMempool(n) \/ Crash(n) PROVE FALSE
  <2>1. PICK kind \in {"listener", "wipe", "leader crash", "validator crash"} : Fault(kind)
    BY <1>3, FaultyStep
  <2>2. kind \in Range(faults') /\ kind # "expire"
    BY <2>1, FaultAdds
  <2> QED BY <2>2 DEF Quiet
<1> QED BY <1>1, <1>2, <1>3 DEF Next

-----------------------------------------------------------------------------
(* Each part of the invariant is preserved.                                *)

\* Every step keeps PhaseInv.
LEMMA PhaseStep ==
  ASSUME PhaseInv, [Next]_vars
  PROVE  PhaseInv'
<1>1. Leader \in Nodes
  BY OracleAssumption
<1>2. CASE UNCHANGED at
  BY <1>2 DEF PhaseInv
<1>3. ASSUME NEW n \in Nodes, BlockStep(n) PROVE PhaseInv'
  <2>1. CASE ExecuteTxs(n)
    BY <1>1, <2>1 DEF PhaseInv, ExecuteTxs, Phase, Open
  <2>2. CASE UpdateStats(n) \/ NoVote(n) \/ MarkBroadcasted(n)
    <3>1. at' = [at EXCEPT ![n] = "done"] /\ at[n] \in Open
      BY <2>2 DEF UpdateStats, NoVote, MarkBroadcasted, FinalizeBlock, Open
    <3> QED BY <1>1, <3>1 DEF PhaseInv, Phase, Open
  <2>3. CASE BroadcastVoteIDTx(n)
    BY <1>1, <2>3 DEF PhaseInv, BroadcastVoteIDTx, Phase, Open
  <2>4. CASE CommitBlock(n)
    BY <1>1, <2>4 DEF PhaseInv, CommitBlock, Phase, Open
  <2>5. CASE Propose
    <3>1. at' = [m \in Nodes |-> "behind"]
      BY <2>5, ProposeIs
    <3> QED BY <1>1, <3>1 DEF PhaseInv, Phase
  <2> QED BY <1>3, <2>1, <2>2, <2>3, <2>4, <2>5 DEF BlockStep
<1>4. ASSUME NEW n \in Nodes, WipeMempool(n) PROVE PhaseInv'
  BY <1>1, <1>4 DEF PhaseInv, WipeMempool, Phase, Open
<1>5. ASSUME NEW n \in Nodes, Crash(n) PROVE PhaseInv'
  BY <1>1, <1>5 DEF PhaseInv, Crash, Phase, Open
<1>6. ASSUME NEW n \in Nodes, ListenerStep(n) \/ Gossip(n) \/ ListenerFails(n) PROVE UNCHANGED at
  BY <1>6 DEF ListenerStep, Gossip, ListenerFails, Listen, CatchUp, NewHeight, ProcessEvents,
              StoreCheck, StoreInsert, SetLastHeightWithEvent, SetLastSeenHeight
<1> QED BY <1>2, <1>3, <1>4, <1>5, <1>6 DEF Next, vars

\* One listener goes on, and the others stand still.
LEMMA OneListener ==
  ASSUME ListenInv, NEW n \in Nodes, NEW l \in Listener, NEW k \in KV, ListenerOK(l, k),
         lst' = [lst EXCEPT ![n] = l], kv' = [kv EXCEPT ![n] = k],
         \A m \in Nodes : \A e \in observed'[m] : e \in observed[m] \/ Good(e)
  PROVE  ListenInv'
  BY DEF ListenInv

\* processEvents keeps the listeners.
LEMMA ProcessEventsOK ==
  ASSUME ListenInv, NEW n \in Nodes, lst[n].pc = "next",
         NEW from \in {lst[n].start, lst[n].start + 1}, NEW to \in Height, lst[n].start < to,
         ProcessEvents(n, from, to)
  PROVE  ListenInv'
<1> DEFINE l == lst[n]
           k == kv[n]
           found == LogBlocks \cap (from .. to)
<1>1. l \in Listener /\ k \in KV /\ ListenerOK(l, k)
  BY DEF ListenInv
<1>2. CASE found = {}
  <2> DEFINE m == [l EXCEPT !.start = to]
             q == [k EXCEPT !.lh = to]
  <2>1. m \in Listener /\ q \in KV /\ ListenerOK(m, q)
    BY <1>1, <1>2, NothingFoundOK
  <2>2. lst' = [lst EXCEPT ![n] = m] /\ kv' = [kv EXCEPT ![n] = q] /\ observed' = observed
    BY <1>2 DEF ProcessEvents, history
  <2> HIDE DEF m, q
  <2> QED BY <2>1, <2>2, OneListener
<1>3. CASE found # {}
  <2> DEFINE m == [l EXCEPT !.pc = "store", !.to = to, !.todo = found, !.prev = k.lwe]
  <2>1. m \in Listener /\ ListenerOK(m, k)
    BY <1>1, <1>3, FoundOK
  <2>2. lst' = [lst EXCEPT ![n] = m] /\ kv' = [kv EXCEPT ![n] = k] /\ observed' = observed
    BY <1>3 DEF ProcessEvents, history, ListenInv
  <2> HIDE DEF m
  <2> QED BY <1>1, <2>1, <2>2, OneListener
<1> QED BY <1>2, <1>3

\* The ranges that the listener asks for go beyond the last height seen.
LEMMA RangeAhead ==
  ASSUME ListenInv, NEW n \in Nodes, CatchUp(n) \/ NewHeight(n)
  PROVE  /\ lst[n].pc = "next"
         /\ \E from \in {lst[n].start, lst[n].start + 1}, to \in Height :
              lst[n].start < to /\ ProcessEvents(n, from, to)
<1> DEFINE l == lst[n]
<1>1. l.start \in Nat /\ l.goal \in Height /\ MaxTip \in Nat /\ Chunk \in Nat \ {0}
  <2>1. l \in Listener
    BY DEF ListenInv
  <2>2. l.start \in Height /\ l.goal \in Height
    BY <2>1 DEF Listener, Height
  <2>3. MaxTip \in Nat /\ Chunk \in Nat \ {0}
    BY OracleAssumption, Zenon
  <2> QED BY <2>2, <2>3 DEF Height
<1>2. CASE CatchUp(n)
  <2> DEFINE to == IF l.start + Chunk < l.goal THEN l.start + Chunk ELSE l.goal
  <2>1. l.pc = "next" /\ l.start < l.goal /\ ProcessEvents(n, l.start, to)
    BY <1>2 DEF CatchUp, CatchingUp
  <2>2. to \in Height /\ l.start < to
    BY <1>1, <2>1 DEF Height
  <2> QED BY <2>1, <2>2
<1>3. CASE NewHeight(n)
  <2>1. l.pc = "next" /\ \E height \in l.start + 1 .. MaxTip : ProcessEvents(n, l.start + 1, height)
    BY <1>3 DEF NewHeight
  <2>2. PICK height \in l.start + 1 .. MaxTip : ProcessEvents(n, l.start + 1, height)
    BY <2>1
  <2>3. height \in Height /\ l.start < height
    BY <1>1 DEF Height
  <2> QED BY <2>1, <2>2, <2>3
<1> QED BY <1>2, <1>3

\* Every step keeps ListenInv.
LEMMA ListenStep ==
  ASSUME ListenInv, [Next]_vars
  PROVE  ListenInv'
<1>1. CASE UNCHANGED <<lst, kv, observed>>
  BY <1>1 DEF ListenInv
<1>2. ASSUME NEW n \in Nodes, BlockStep(n) \/ Gossip(n) \/ WipeMempool(n) PROVE ListenInv'
  BY <1>1, <1>2, BlockFrame
<1>3. ASSUME NEW n \in Nodes, ListenerStep(n) PROVE ListenInv'
  <2> DEFINE l == lst[n]
             k == kv[n]
  <2>1. l \in Listener /\ k \in KV /\ ListenerOK(l, k) /\ kv = [kv EXCEPT ![n] = k]
    BY DEF ListenInv
  <2>2. CASE Listen(n)
    <3>1. PICK height \in StartHeights[n] :
            lst' = [lst EXCEPT ![n] = [Off EXCEPT !.pc = "next", !.start = kv[n].lh, !.goal = height]]
      BY <2>2 DEF Listen
    <3> DEFINE m == [Off EXCEPT !.pc = "next", !.start = kv[n].lh, !.goal = height]
    <3>2. height \in Height
      BY OracleAssumption DEF Height
    <3>3. m \in Listener /\ m.pc = "next" /\ m.start = k.lh
      <4>1. Off \in Listener
        BY <2>1, OffOK
      <4>2. k.lh \in 0 .. MaxTip /\ height \in 0 .. MaxTip /\ 0 \in 0 .. MaxTip
        BY <2>1, <3>2, LogTypes DEF KV, Height
      <4> HIDE DEF k
      <4> QED BY <4>1, <4>2 DEF Listener, k
    <3>4. ListenerOK(m, k)
      <4> HIDE DEF m
      <4> QED BY <2>1, <3>3 DEF ListenerOK
    <3>5. lst' = [lst EXCEPT ![n] = m] /\ kv' = kv /\ observed' = observed
      BY <2>2, <3>1 DEF Listen, history
    <3> HIDE DEF m, k
    <3> QED BY <2>1, <3>3, <3>4, <3>5, OneListener
  <2>3. CASE CatchUp(n) \/ NewHeight(n)
    BY <2>3, RangeAhead, ProcessEventsOK
  <2>4. CASE StoreCheck(n)
    <3>1. l.pc = "store" /\ kv' = kv /\ observed' = observed
      BY <2>4 DEF StoreCheck, history
    <3>2. CASE Current(n) \in Committed(n).processed
      <4>1. lst' = [lst EXCEPT ![n] = Stored(l)]
        BY <2>4, <3>2 DEF StoreCheck
      <4>2. Stored(l) \in Listener /\ ListenerOK(Stored(l), k)
        BY <2>1, <3>1, StoredOK
      <4> HIDE DEF l, k
      <4> QED BY <2>1, <3>1, <4>1, <4>2, OneListener
    <3>3. CASE Current(n) \notin Committed(n).processed
      <4> DEFINE m == [l EXCEPT !.pc = "insert"]
      <4>1. lst' = [lst EXCEPT ![n] = m]
        BY <2>4, <3>3 DEF StoreCheck
      <4>2. m \in Listener /\ m.pc = "insert" /\ m.todo = l.todo /\ m.to = l.to /\ m.prev = l.prev
            /\ m.start = l.start
        BY <2>1 DEF Listener
      <4> HIDE DEF m, l
      <4>3. ListenerOK(m, k)
        BY <2>1, <3>1, <4>2 DEF ListenerOK
      <4> HIDE DEF k
      <4> QED BY <2>1, <3>1, <4>1, <4>2, <4>3, OneListener
    <3> QED BY <3>2, <3>3
  <2>5. CASE StoreInsert(n)
    <3>1. l.pc = "insert" /\ kv' = kv /\ lst' = [lst EXCEPT ![n] = Stored(l)]
          /\ observed' = [observed EXCEPT ![n] = @ \cup {Due(l)}]
      BY <2>5 DEF StoreInsert, Current, Due
    <3>2. Stored(l) \in Listener /\ ListenerOK(Stored(l), k) /\ Good(Due(l))
      BY <2>1, <3>1, StoredOK, DueOK
    <3> HIDE DEF l, k
    <3>3. \A m \in Nodes : \A e \in observed'[m] : e \in observed[m] \/ Good(e)
      BY <3>1, <3>2
    <3> QED BY <2>1, <3>1, <3>2, <3>3, OneListener
  <2>6. CASE SetLastHeightWithEvent(n)
    <3> DEFINE m == [l EXCEPT !.pc = "lh"]
               q == [k EXCEPT !.lwe = l.prev]
    <3>1. /\ l.pc = "lwe" /\ lst' = [lst EXCEPT ![n] = m] /\ kv' = [kv EXCEPT ![n] = q]
          /\ observed' = observed
      BY <2>6 DEF SetLastHeightWithEvent, history
    <3>2. m \in Listener /\ m.pc = "lh" /\ m.to = l.to /\ m.prev = l.prev /\ m.start = l.start
      BY <2>1 DEF Listener
    <3>3. /\ l.prev \in LogBlocks /\ NoLogs(l.prev, l.to) /\ k.lh <= l.to /\ l.start = k.lh
          /\ k.lh \in Nat /\ l.to \in Nat
      BY <2>1, <3>1, LogTypes DEF ListenerOK, KV, Listener, Height
    <3>4. q \in KV /\ q.lwe = l.prev /\ q.lh = k.lh
      BY <2>1, <3>3, LogTypes DEF KV, Height
    <3> HIDE DEF m, q, l, k
    <3>5. NoLogs(l.prev, k.lh)
      BY <3>3, LogTypes DEF NoLogs
    <3>6. ListenerOK(m, q)
      BY <3>1, <3>2, <3>3, <3>4, <3>5 DEF ListenerOK
    <3> QED BY <3>1, <3>2, <3>4, <3>6, OneListener
  <2>7. CASE SetLastSeenHeight(n)
    <3> DEFINE m == [l EXCEPT !.pc = "next", !.start = l.to, !.to = 0, !.prev = 0]
               q == [k EXCEPT !.lh = l.to]
    <3>1. /\ l.pc = "lh" /\ lst' = [lst EXCEPT ![n] = m] /\ kv' = [kv EXCEPT ![n] = q]
          /\ observed' = observed
      BY <2>7 DEF SetLastSeenHeight, history
    <3>2. m \in Listener /\ m.pc = "next" /\ m.start = l.to
      <4>1. 0 \in 0 .. MaxTip /\ l \in Listener
        BY <2>1, LogTypes
      <4> HIDE DEF l
      <4> QED BY <4>1 DEF Listener
    <3>3. l.prev \in LogBlocks /\ NoLogs(l.prev, l.to) /\ k.lwe = l.prev /\ l.to \in Height
      BY <2>1, <3>1 DEF ListenerOK, Listener, Height
    <3>4. q \in KV /\ q.lwe = l.prev /\ q.lh = l.to
      BY <2>1, <3>3 DEF KV
    <3> HIDE DEF m, q, l, k
    <3>5. ListenerOK(m, q)
      BY <3>2, <3>3, <3>4 DEF ListenerOK
    <3> QED BY <3>1, <3>2, <3>4, <3>5, OneListener
  <2> QED BY <1>3, <2>2, <2>3, <2>4, <2>5, <2>6, <2>7 DEF ListenerStep
<1>4. ASSUME NEW n \in Nodes, ListenerFails(n) \/ Crash(n) PROVE ListenInv'
  <2>1. lst' = [lst EXCEPT ![n] = Off] /\ kv' = kv /\ observed' = observed
    BY <1>4 DEF ListenerFails, Crash, history
  <2>2. Off \in Listener /\ ListenerOK(Off, kv[n]) /\ kv[n] \in KV /\ kv = [kv EXCEPT ![n] = kv[n]]
    BY OffOK DEF ListenInv
  <2> QED BY <2>1, <2>2, OneListener
<1> QED BY <1>1, <1>2, <1>3, <1>4 DEF Next, vars, listenVars, history

\* Every step keeps StoreInv.
LEMMA StoreStep ==
  ASSUME PhaseInv, StoreInv, ListenInv, [Next]_vars
  PROVE  StoreInv'
<1>0. Leader \in Nodes
  BY OracleAssumption
<1>1. CASE UNCHANGED <<events, sent, del, ballot, observed, raced, lost, at>>
  BY <1>1 DEF StoreInv
<1>2. ASSUME NEW n \in Nodes, ListenerStep(n) PROVE StoreInv'
  <2>1. CASE StoreInsert(n)
    <3> DEFINE c == Current(n)
    <3>1. /\ c \in Event
          /\ events' = [events EXCEPT ![n] = @ \cup {c}]
          /\ observed' = [observed EXCEPT ![n] = @ \cup {c}]
          /\ \E d : raced' = [raced EXCEPT ![n] = @ \cup ({c} \cap d)]
          /\ UNCHANGED <<at, sent, del, ballot, lost>>
      BY <2>1, InsertIs
    <3> HIDE DEF c
    <3>2. PICK d : raced' = [raced EXCEPT ![n] = @ \cup ({c} \cap d)]
      BY <3>1
    <3> QED BY <3>1, <3>2 DEF StoreInv, Of
  <2>2. CASE ~StoreInsert(n)
    BY <1>1, <1>2, <2>2, ListenFrame
  <2> QED BY <2>1, <2>2
<1>3. ASSUME NEW n \in Nodes, BlockStep(n) PROVE StoreInv'
  <2>0. UNCHANGED <<lost, observed, raced>>
    BY <1>3, BlockFrame
  <2>1. CASE ExecuteTxs(n)
    BY <2>0, <2>1 DEF StoreInv, Of, ExecuteTxs, storeVars, Open, PhaseInv
  <2>2. CASE UpdateStats(n) \/ NoVote(n)
    <3>1. /\ del' = [del EXCEPT ![n] = @ \cup DeleteEvents(n)] /\ ballot' = [ballot EXCEPT ![n] = {}]
          /\ at' = [at EXCEPT ![n] = "done"] /\ UNCHANGED <<events, sent>>
      BY <2>2 DEF UpdateStats, NoVote, FinalizeBlock, storeVars
    <3>2. DeleteEvents(n) \subseteq events[n]
      BY DEF DeleteEvents
    <3> QED BY <2>0, <3>1, <3>2 DEF StoreInv, Of, Open, PhaseInv
  <2>3. CASE MarkBroadcasted(n)
    <3>1. /\ del' = [del EXCEPT ![n] = @ \cup DeleteEvents(n)] /\ ballot' = [ballot EXCEPT ![n] = {}]
          /\ at' = [at EXCEPT ![n] = "done"] /\ UNCHANGED events
          /\ sent' = [sent EXCEPT ![n] = @ \cup (ballot[n] \cap events[n])]
      BY <2>3 DEF MarkBroadcasted, FinalizeBlock
    <3>2. DeleteEvents(n) \subseteq events[n]
      BY DEF DeleteEvents
    <3> QED BY <2>0, <3>1, <3>2 DEF StoreInv, Of, Open, PhaseInv
  <2>4. CASE BroadcastVoteIDTx(n)
    <3>1. /\ ballot' = [ballot EXCEPT ![n] = Unbroadcasted(n)]
          /\ at' = [at EXCEPT ![n] = "mark"] /\ UNCHANGED <<events, sent, del>>
      BY <2>4 DEF BroadcastVoteIDTx, storeVars
    <3>2. Unbroadcasted(n) \subseteq events[n]
      BY DEF Unbroadcasted
    <3> QED BY <2>0, <3>1, <3>2 DEF StoreInv, Of, Open, PhaseInv
  <2>5. CASE CommitBlock(n)
    BY <2>0, <2>5 DEF StoreInv, Of, CommitBlock, Open, PhaseInv
  <2>6. CASE Propose
    <3>1. /\ at' = [m \in Nodes |-> "behind"] /\ UNCHANGED <<events, sent>>
          /\ del' = [m \in Nodes |-> {}] /\ ballot' = [m \in Nodes |-> {}]
      BY <2>6, ProposeIs DEF storeVars
    <3> QED BY <2>0, <3>1 DEF StoreInv, Of, Open
  <2> QED BY <1>3, <2>1, <2>2, <2>3, <2>4, <2>5, <2>6 DEF BlockStep
<1>4. ASSUME NEW n \in Nodes, Gossip(n) \/ ListenerFails(n) PROVE StoreInv'
  BY <1>1, <1>4 DEF Gossip, ListenerFails, storeVars, history
<1>5. ASSUME NEW n \in Nodes, WipeMempool(n) PROVE StoreInv'
  <2>0. UNCHANGED <<lost, observed, raced>>
    BY <1>5, BlockFrame
  <2> DEFINE gone == UNION {tx.ids : tx \in own[n]}
  <2>1. /\ at' = [at EXCEPT ![n] = IF @ \in Open THEN "behind" ELSE @]
        /\ del' = [del EXCEPT ![n] = {}] /\ ballot' = [ballot EXCEPT ![n] = {}]
        /\ sent' = [sent EXCEPT ![n] = @ \ gone] /\ UNCHANGED events
    BY <1>5 DEF WipeMempool
  <2> HIDE DEF gone
  <2> QED BY <2>0, <2>1 DEF StoreInv, Of, PhaseInv
<1>6. ASSUME NEW n \in Nodes, Crash(n) PROVE StoreInv'
  <2>1. /\ at' = [at EXCEPT ![n] = IF @ = "committed" THEN @
                             ELSE IF n = Leader THEN "lost" ELSE "behind"]
        /\ del' = [del EXCEPT ![n] = {}] /\ ballot' = [ballot EXCEPT ![n] = {}]
        /\ UNCHANGED <<events, sent, observed, raced>>
        /\ lost' = lost \cup UNION {Unsent(m)' : m \in Nodes}
    BY <1>6 DEF Crash, storeVars
  <2>2. \A m \in Nodes : Unsent(m)' \subseteq Event
    <3>1. \A m \in Nodes : Unsent(m)' \subseteq sent'[m]
      BY DEF Unsent
    <3> QED BY <2>1, <3>1 DEF StoreInv, Of
  <2>3. lost' \subseteq Event
    BY <2>1, <2>2 DEF StoreInv
  <2> QED BY <2>1, <2>3 DEF StoreInv, Of, PhaseInv
<1> QED BY <1>1, <1>2, <1>3, <1>4, <1>5, <1>6 DEF Next, vars, storeVars, history

\* Every step keeps VoteInv.
LEMMA VoteStep ==
  ASSUME PhaseInv, StoreInv, VoteInv, ListenInv, AppInv, [Next]_vars
  PROVE  VoteInv'
<1>0. Leader \in Nodes
  BY OracleAssumption
<1>G. /\ \A n \in Nodes : observed[n] \subseteq observed'[n]
      /\ \A tx \in VoteTx : Sincere(tx) => Sincere(tx)'
  <2>1. \A n \in Nodes : observed[n] \subseteq observed'[n]
    BY ObservedGrows
  <2>2. \A tx \in VoteTx : tx.voter \in Nodes
    BY DEF VoteTx
  <2> QED BY <2>1, <2>2 DEF Sincere
<1>K. \* what stays sincere when nothing new is sent
      ASSUME /\ own' \in Of(VoteTx) /\ txs' \subseteq VoteTx
             /\ \A n \in Nodes : own'[n] \subseteq own[n]
             /\ txs' \subseteq txs \cup UNION {own[n] : n \in Nodes}
             /\ blk' = blk /\ sent'[Leader] = {} /\ ballot'[Leader] = {}
      PROVE  VoteInv'
  <2>1. blk.bodies \subseteq observed'[Leader]
    BY <1>0, <1>G DEF VoteInv
  <2>2. \A tx \in txs \cup blk.votes \cup UNION {own[n] : n \in Nodes} : tx \in VoteTx /\ Sincere(tx)
    BY DEF VoteInv, Of
  <2>3. \A tx \in txs' \cup blk'.votes : Sincere(tx)'
    BY <1>K, <1>G, <2>2
  <2>4. ASSUME NEW n \in Nodes, NEW tx \in own'[n] PROVE Sincere(tx)' /\ tx.voter = n
    <3>1. tx \in own[n]
      BY <1>K
    <3>2. Sincere(tx) /\ tx.voter = n /\ tx \in VoteTx
      BY <3>1 DEF VoteInv, Of
    <3> QED BY <3>2, <1>G
  <2> QED BY <1>K, <2>1, <2>3, <2>4 DEF VoteInv
<1>1. CASE UNCHANGED <<own, txs, blk, sent, ballot>>
  BY <1>1, <1>K DEF VoteInv
<1>2. ASSUME NEW n \in Nodes, ListenerStep(n) \/ ListenerFails(n) PROVE VoteInv'
  <2>1. CASE ListenerStep(n)
    BY <2>1, <1>1, ListenFrame DEF chainVars
  <2>2. CASE ListenerFails(n)
    BY <2>2, <1>1 DEF ListenerFails, chainVars, storeVars
  <2> QED BY <1>2, <2>1, <2>2
<1>3. ASSUME NEW n \in Nodes, BlockStep(n) PROVE VoteInv'
  <2>1. CASE ExecuteTxs(n)
    BY <2>1, <1>1 DEF ExecuteTxs, chainVars, storeVars
  <2>2. CASE UpdateStats(n) \/ NoVote(n)
    <3>1. ballot' = [ballot EXCEPT ![n] = {}] /\ UNCHANGED <<own, txs, blk, sent>>
      BY <2>2 DEF UpdateStats, NoVote, FinalizeBlock, storeVars
    <3>2. ballot'[Leader] = {}
      BY <1>0, <3>1 DEF StoreInv, VoteInv, Of
    <3> QED BY <3>1, <3>2, <1>K DEF VoteInv
  <2>3. CASE MarkBroadcasted(n)
    <3>1. /\ ballot' = [ballot EXCEPT ![n] = {}] /\ UNCHANGED <<own, txs, blk>>
          /\ sent' = [sent EXCEPT ![n] = @ \cup (ballot[n] \cap events[n])]
      BY <2>3 DEF MarkBroadcasted, FinalizeBlock
    <3>2. ballot'[Leader] = {} /\ sent'[Leader] = {}
      BY <1>0, <3>1 DEF StoreInv, VoteInv, Of
    <3> QED BY <3>1, <3>2, <1>K DEF VoteInv
  <2>4. CASE BroadcastVoteIDTx(n)
    <3> DEFINE v == [voter |-> n, ids |-> Unbroadcasted(n)]
    <3>1. /\ n # Leader /\ ballot' = [ballot EXCEPT ![n] = Unbroadcasted(n)]
          /\ own' = [own EXCEPT ![n] = @ \cup {v}] /\ UNCHANGED <<txs, blk, sent, observed>>
      BY <2>4 DEF BroadcastVoteIDTx, storeVars, chainVars, history
    <3>2. Unbroadcasted(n) \subseteq events[n] /\ Unbroadcasted(n) \subseteq Event
      BY DEF Unbroadcasted, StoreInv, Of
    <3>3. v \in VoteTx /\ Sincere(v) /\ v.voter = n
      BY <3>1, <3>2 DEF VoteTx, Sincere, StoreInv
    <3> HIDE DEF v
    <3> QED BY <1>0, <3>1, <3>3, <1>G DEF VoteInv, Of, StoreInv
  <2>5. CASE CommitBlock(n)
    <3>1. /\ own' = [own EXCEPT ![n] = @ \ blk.votes] /\ txs' \subseteq txs
          /\ sent' = [sent EXCEPT ![n] = @ \ del[n]] /\ UNCHANGED <<blk, ballot>>
      BY <2>5 DEF CommitBlock
    <3>2. sent'[Leader] = {}
      BY <1>0, <3>1 DEF StoreInv, VoteInv, Of
    <3>3. own' \in Of(VoteTx) /\ \A m \in Nodes : own'[m] \subseteq own[m]
      BY <3>1 DEF VoteInv, Of
    <3> QED BY <3>1, <3>2, <3>3, <1>K DEF VoteInv
  <2>6. CASE Propose
    <3>1. /\ UNCHANGED <<sent, own, txs, observed>> /\ blk'.votes = txs
          /\ blk'.bodies \subseteq events[Leader] /\ blk'.expired \subseteq DOMAIN app'.res
          /\ ballot' = [m \in Nodes |-> {}] /\ app' \in {app, next}
      BY <2>6, ProposeIs DEF storeVars, history
    <3>2. DOMAIN app'.res \subseteq Event
      BY <3>1 DEF AppInv, AppOK
    <3>3. blk'.bodies \subseteq observed[Leader] /\ ballot'[Leader] = {}
      BY <3>1, <1>0 DEF StoreInv
    <3> QED BY <3>1, <3>2, <3>3 DEF VoteInv, Sincere
  <2> QED BY <1>3, <2>1, <2>2, <2>3, <2>4, <2>5, <2>6 DEF BlockStep
<1>4. ASSUME NEW n \in Nodes, Gossip(n) PROVE VoteInv'
  <2>1. PICK tx \in own[n] : txs' = txs \cup {tx}
    BY <1>4 DEF Gossip
  <2>2. UNCHANGED <<own, blk, sent, ballot>>
    BY <1>4 DEF Gossip, storeVars
  <2>3. txs' \subseteq VoteTx /\ txs' \subseteq txs \cup UNION {own[m] : m \in Nodes}
    BY <2>1 DEF VoteInv, Of
  <2> QED BY <2>2, <2>3, <1>K DEF VoteInv
<1>5. ASSUME NEW n \in Nodes, WipeMempool(n) \/ Crash(n) PROVE VoteInv'
  <2>1. /\ own' = [own EXCEPT ![n] = {}] /\ txs' \subseteq txs
        /\ ballot' = [ballot EXCEPT ![n] = {}] /\ UNCHANGED blk
    BY <1>5 DEF WipeMempool, Crash, chainVars
  <2>2. \/ UNCHANGED sent
        \/ \E gone : sent' = [sent EXCEPT ![n] = @ \ gone]
    BY <1>5 DEF WipeMempool, Crash, storeVars
  <2>3. own' \in Of(VoteTx) /\ \A m \in Nodes : own'[m] \subseteq own[m]
    BY <2>1 DEF VoteInv, Of
  <2>4. ballot'[Leader] = {}
    BY <1>0, <2>1 DEF VoteInv, StoreInv, Of
  <2>5. sent'[Leader] = {}
    BY <1>0, <2>2 DEF VoteInv, StoreInv, Of
  <2> QED BY <2>1, <2>3, <2>4, <2>5, <1>K DEF VoteInv
<1> QED BY <1>1, <1>2, <1>3, <1>4, <1>5 DEF Next, vars, chainVars, storeVars

\* Every step keeps AppInv.
LEMMA AppStep ==
  ASSUME StoreInv, VoteInv, ListenInv, AppInv, KnownInv, [Next]_vars
  PROVE  AppInv'
<1>1. \A n \in Nodes : observed[n] \subseteq observed'[n]
  BY ObservedGrows
<1>2. CASE ~Propose
  <2>1. UNCHANGED <<app, next, blk>>
    BY <1>2, ChainFrame
  <2> QED BY <1>1, <2>1, AppGrows DEF AppInv
<1>3. CASE Propose
  <2>1. /\ app' \in {app, next} /\ next' = Executed(app', blk')
        /\ blk'.votes = txs /\ blk'.bodies \subseteq events[Leader]
        /\ blk'.expired \subseteq DOMAIN app'.res /\ observed' = observed
    BY <1>3, ProposeIs DEF history
  <2>2. AppOK(app', observed)
    BY <2>1 DEF AppInv
  <2>3. observed \in [Nodes -> SUBSET Event] /\ \A n \in Nodes : \A e \in observed[n] : Good(e)
    BY DEF StoreInv, Of, ListenInv
  <2>4. blk'.bodies \subseteq observed[Leader] /\ blk'.votes \subseteq VoteTx
    BY <2>1, OracleAssumption DEF StoreInv, VoteInv
  <2>5. \A tx \in blk'.votes : tx.ids \subseteq observed[tx.voter] /\ tx.ids \subseteq Known(app')
    <3>1. Known(app) \subseteq Known(app')
      BY <2>1 DEF AppInv, Follows
    <3> QED BY <2>1, <3>1 DEF VoteInv, Sincere, KnownInv
  <2>6. AppOK(next', observed) /\ Follows(app', blk', next')
    BY <2>1, <2>2, <2>3, <2>4, <2>5, ExecutedOK
  <2> QED BY <2>1, <2>2, <2>6 DEF AppInv
<1> QED BY <1>2, <1>3

\* Every step keeps KnownInv.
LEMMA KnownStep ==
  ASSUME StoreInv, VoteInv, AppInv, KnownInv, [Next]_vars
  PROVE  KnownInv'
<1>0. Known(app) \subseteq Known(app')
  <2>1. CASE Propose
    BY <2>1, ProposeIs DEF AppInv, Follows
  <2>2. CASE ~Propose
    BY <2>2, ChainFrame
  <2> QED BY <2>1, <2>2
<1>K. ASSUME NEW n \in Nodes, NEW ids, ids \subseteq Known(app),
             \A m \in Nodes : /\ sent'[m] \subseteq sent[m] \cup ballot[m]
                              /\ ballot'[m] \subseteq ballot[m] \cup ids
                              /\ \A tx \in own'[m] : tx \in own[m] \/ tx.ids = ids,
             txs' \subseteq txs \cup own[n], blk'.votes \subseteq txs \cup blk.votes
      PROVE  KnownInv'
  <2>1. \A tx \in txs \cup blk.votes \cup own[n] : tx.ids \subseteq Known(app')
    BY <1>0 DEF KnownInv
  <2>2. ASSUME NEW m \in Nodes PROVE sent'[m] \subseteq Known(app') /\ ballot'[m] \subseteq Known(app')
    BY <1>0, <1>K DEF KnownInv
  <2>3. ASSUME NEW m \in Nodes, NEW tx \in own'[m] PROVE tx.ids \subseteq Known(app')
    BY <1>0, <1>K DEF KnownInv
  <2> QED BY <2>1, <2>2, <2>3, <1>K DEF KnownInv
<1>1. CASE UNCHANGED <<own, txs, blk, sent, ballot>>
  <2>1. PICK n \in Nodes : TRUE
    BY OracleAssumption
  <2> QED BY <1>1, <1>K
<1>2. ASSUME NEW n \in Nodes, ListenerStep(n) \/ ListenerFails(n) PROVE KnownInv'
  <2>1. CASE ListenerStep(n)
    BY <2>1, <1>1, ListenFrame DEF chainVars
  <2>2. CASE ListenerFails(n)
    BY <2>2, <1>1 DEF ListenerFails, chainVars, storeVars
  <2> QED BY <1>2, <2>1, <2>2
<1>T. sent \in Of(Event) /\ ballot \in Of(Event) /\ own \in Of(VoteTx)
  BY DEF StoreInv, VoteInv
<1>3. ASSUME NEW n \in Nodes, BlockStep(n) PROVE KnownInv'
  <2>1. CASE ExecuteTxs(n)
    BY <2>1, <1>1 DEF ExecuteTxs, chainVars, storeVars
  <2>2. CASE UpdateStats(n) \/ NoVote(n)
    <3>1. ballot' = [ballot EXCEPT ![n] = {}] /\ UNCHANGED <<own, txs, blk, sent>>
      BY <2>2 DEF UpdateStats, NoVote, FinalizeBlock, storeVars
    <3> QED BY <3>1, <1>K, <1>T DEF Of
  <2>3. CASE MarkBroadcasted(n)
    <3>1. /\ ballot' = [ballot EXCEPT ![n] = {}] /\ UNCHANGED <<own, txs, blk>>
          /\ sent' = [sent EXCEPT ![n] = @ \cup (ballot[n] \cap events[n])]
      BY <2>3 DEF MarkBroadcasted, FinalizeBlock
    <3> QED BY <3>1, <1>K, <1>T DEF Of
  <2>4. CASE BroadcastVoteIDTx(n)
    <3> DEFINE ids == Unbroadcasted(n)
    <3>1. /\ ballot' = [ballot EXCEPT ![n] = ids]
          /\ own' = [own EXCEPT ![n] = @ \cup {[voter |-> n, ids |-> ids]}]
          /\ UNCHANGED <<txs, blk, sent>>
      BY <2>4 DEF BroadcastVoteIDTx, storeVars, chainVars
    <3>2. ids \subseteq Known(app)
      BY DEF Unbroadcasted, Known
    <3> HIDE DEF ids
    <3> QED BY <3>1, <3>2, <1>K, <1>T DEF Of
  <2>5. CASE CommitBlock(n)
    <3>1. /\ own' = [own EXCEPT ![n] = @ \ blk.votes] /\ txs' \subseteq txs
          /\ sent' = [sent EXCEPT ![n] = @ \ del[n]] /\ UNCHANGED <<blk, ballot>>
      BY <2>5 DEF CommitBlock
    <3> QED BY <3>1, <1>K, <1>T DEF Of
  <2>6. CASE Propose
    <3>1. /\ UNCHANGED <<sent, own, txs>> /\ blk'.votes = txs
          /\ ballot' = [m \in Nodes |-> {}]
      BY <2>6, ProposeIs DEF storeVars
    <3> QED BY <3>1, <1>K, <1>T DEF Of
  <2> QED BY <1>3, <2>1, <2>2, <2>3, <2>4, <2>5, <2>6 DEF BlockStep
<1>4. ASSUME NEW n \in Nodes, Gossip(n) PROVE KnownInv'
  <2>1. PICK tx \in own[n] : txs' = txs \cup {tx}
    BY <1>4 DEF Gossip
  <2>2. UNCHANGED <<own, blk, sent, ballot>>
    BY <1>4 DEF Gossip, storeVars
  <2> QED BY <2>1, <2>2, <1>K
<1>5. ASSUME NEW n \in Nodes, WipeMempool(n) \/ Crash(n) PROVE KnownInv'
  <2>1. /\ own' = [own EXCEPT ![n] = {}] /\ txs' \subseteq txs
        /\ ballot' = [ballot EXCEPT ![n] = {}] /\ UNCHANGED blk
    BY <1>5 DEF WipeMempool, Crash, chainVars
  <2>2. \A m \in Nodes : sent'[m] \subseteq sent[m]
    <3>1. \/ UNCHANGED sent
          \/ \E gone : sent' = [sent EXCEPT ![n] = @ \ gone]
      BY <1>5 DEF WipeMempool, Crash, storeVars
    <3> QED BY <3>1, <1>T DEF Of
  <2> QED BY <2>1, <2>2, <1>K, <1>T DEF Of
<1> QED BY <1>1, <1>2, <1>3, <1>4, <1>5 DEF Next, vars, chainVars, storeVars

\* Every step keeps DecidedInv.
LEMMA DecidedStep ==
  ASSUME PhaseInv, StoreInv, ListenInv, AppInv, DecidedInv, [Next]_vars
  PROVE  DecidedInv'
<1>0. app.processed \subseteq next.processed /\ Leader \in Nodes
  BY OracleAssumption DEF AppInv, Follows
<1>T. at \in [Nodes -> Phase] /\ events \in Of(Event) /\ del \in Of(Event) /\ raced \in Of(Event)
  BY DEF PhaseInv, StoreInv
<1>1. CASE UNCHANGED <<at, app, next, events, del, raced>>
  BY <1>1 DEF DecidedInv
<1>2. ASSUME NEW n \in Nodes, ListenerStep(n) PROVE DecidedInv'
  <2>1. CASE StoreInsert(n)
    <3> DEFINE c == Current(n)
               decided == IF at[n] \in {"done", "committed"} THEN next.processed ELSE app.processed
    <3>1. /\ events' = [events EXCEPT ![n] = @ \cup {c}]
          /\ raced' = [raced EXCEPT ![n] = @ \cup ({c} \cap decided)]
          /\ UNCHANGED <<at, del, app, next>>
      BY <2>1, InsertIs DEF chainVars
    <3>2. /\ at[n] \in {"done", "committed"} => decided = next.processed
          /\ at[n] \notin {"done", "committed"} => decided = app.processed
      OBVIOUS
    <3> HIDE DEF c, decided
    <3>3. ASSUME NEW m \in Nodes, m # n PROVE events'[m] = events[m] /\ raced'[m] = raced[m]
      BY <3>1, <3>3, <1>T DEF Of
    <3>4. events'[n] = events[n] \cup {c} /\ raced'[n] = raced[n] \cup ({c} \cap decided)
      BY <3>1, <1>T DEF Of
    <3> QED BY <1>0, <3>1, <3>2, <3>3, <3>4 DEF DecidedInv
  <2>2. CASE ~StoreInsert(n)
    BY <1>1, <1>2, <2>2, ListenFrame DEF chainVars
  <2> QED BY <2>1, <2>2
<1>3. ASSUME NEW n \in Nodes, BlockStep(n) PROVE DecidedInv'
  <2>0. raced' = raced
    BY <1>3, BlockFrame
  <2>1. CASE ExecuteTxs(n)
    BY <2>0, <2>1, <1>T DEF DecidedInv, Of, ExecuteTxs, storeVars, chainVars
  <2>2. CASE UpdateStats(n) \/ NoVote(n) \/ MarkBroadcasted(n)
    <3>1. /\ del' = [del EXCEPT ![n] = @ \cup DeleteEvents(n)]
          /\ at' = [at EXCEPT ![n] = "done"] /\ at[n] # "committed"
          /\ UNCHANGED <<events, app, next>>
      BY <2>2 DEF UpdateStats, NoVote, MarkBroadcasted, FinalizeBlock, storeVars
    <3>2. /\ at'[n] = "done" /\ del'[n] = del[n] \cup (events[n] \cap (next.processed \ app.processed))
          /\ \A m \in Nodes : m # n => at'[m] = at[m] /\ del'[m] = del[m]
      BY <3>1, <1>T DEF Of, DeleteEvents
    <3>3. events[n] \cap app.processed \subseteq raced[n]
      BY <3>1 DEF DecidedInv
    <3> QED BY <2>0, <3>1, <3>2, <3>3 DEF DecidedInv
  <2>3. CASE BroadcastVoteIDTx(n)
    BY <2>0, <2>3, <1>T DEF DecidedInv, Of, BroadcastVoteIDTx, storeVars, chainVars
  <2>4. CASE CommitBlock(n)
    BY <2>0, <2>4, <1>T DEF DecidedInv, Of, CommitBlock
  <2>5. CASE Propose
    <3>1. /\ \/ (\A m \in Nodes : at[m] = "committed") /\ app' = next
             \/ at[Leader] = "lost" /\ app' = app
          /\ at' = [m \in Nodes |-> "behind"] /\ UNCHANGED events
      BY <2>5, ProposeIs DEF storeVars
    <3>2. \A m \in Nodes : events[m] \cap app'.processed \subseteq raced[m]
      BY <1>0, <3>1 DEF DecidedInv, PhaseInv
    <3> QED BY <2>0, <3>1, <3>2 DEF DecidedInv
  <2> QED BY <1>3, <2>1, <2>2, <2>3, <2>4, <2>5 DEF BlockStep
<1>4. ASSUME NEW n \in Nodes, Gossip(n) \/ ListenerFails(n) PROVE DecidedInv'
  BY <1>1, <1>4 DEF Gossip, ListenerFails, storeVars, history, chainVars
<1>5. ASSUME NEW n \in Nodes, WipeMempool(n) \/ Crash(n) PROVE DecidedInv'
  <2>1. /\ UNCHANGED <<app, next, events, raced>>
        /\ \E p \in {"behind", "lost", at[n]} :
             /\ at' = [at EXCEPT ![n] = p]
             /\ p = "committed" <=> at[n] = "committed"
             /\ p # "done"
    BY <1>5, <1>T DEF WipeMempool, Crash, storeVars, chainVars, history, Open
  <2>2. PICK p \in {"behind", "lost", at[n]} :
             /\ at' = [at EXCEPT ![n] = p]
             /\ p = "committed" <=> at[n] = "committed"
             /\ p # "done"
    BY <2>1
  <2>3. \A m \in Nodes : m # n => del'[m] = del[m]
    BY <1>5, <1>T DEF WipeMempool, Crash, Of
  <2> QED BY <2>1, <2>2, <2>3, <1>T DEF DecidedInv
<1> QED BY <1>1, <1>2, <1>3, <1>4, <1>5 DEF Next, vars, chainVars, storeVars, history

\* Fewer marks and no fewer votes on their way leave no more votes unsent.
LEMMA UnsentKept ==
  ASSUME NEW m \in Nodes, sent'[m] \subseteq sent[m], Committed(m)' = Committed(m),
         \A tx \in Pending(m) : tx.voter = m => tx \in Pending(m)'
  PROVE  Unsent(m)' \subseteq Unsent(m)
  BY DEF Unsent

\* Every step keeps ForgetInv.
LEMMA ForgetStep ==
  ASSUME PhaseInv, StoreInv, VoteInv, AppInv, KnownInv, ForgetInv, [Next]_vars
  PROVE  ForgetInv'
<1>0. Leader \in Nodes
  BY OracleAssumption
<1>T. /\ at \in [Nodes -> Phase] /\ sent \in Of(Event) /\ own \in Of(VoteTx) /\ ballot \in Of(Event)
  BY DEF PhaseInv, StoreInv, VoteInv
<1>S. \* nothing that a vote depends on gets worse
      ASSUME lost \subseteq lost', UNCHANGED <<app, next, blk>>, txs \subseteq txs',
             at'[Leader] = "lost" <=> at[Leader] = "lost",
             \A m \in Nodes : /\ sent'[m] \subseteq sent[m] /\ own[m] \subseteq own'[m]
                              /\ at'[m] = "committed" <=> at[m] = "committed"
                              /\ at'[m] = "mark" => [voter |-> m, ids |-> ballot'[m]] \in own'[m]
      PROVE  ForgetInv'
  <2> SUFFICES ASSUME NEW m \in Nodes PROVE Unsent(m)' \subseteq lost'
    BY <1>S DEF ForgetInv
  <2>1. Committed(m)' = Committed(m)
    BY <1>S DEF Committed
  <2>2. Pending(m) \subseteq Pending(m)'
    BY <1>S DEF Pending
  <2>3. Unsent(m)' \subseteq Unsent(m)
    BY <1>S, <2>1, <2>2, UnsentKept
  <2> QED BY <1>S, <2>3 DEF ForgetInv
<1>1. CASE UNCHANGED <<at, sent, own, ballot, lost, app, next, blk, txs>>
  BY <1>1, <1>S DEF ForgetInv
<1>2. ASSUME NEW n \in Nodes, ListenerStep(n) \/ ListenerFails(n) PROVE ForgetInv'
  <2>1. CASE ListenerStep(n)
    BY <2>1, <1>1, ListenFrame DEF chainVars
  <2>2. CASE ListenerFails(n)
    BY <2>2, <1>1 DEF ListenerFails, chainVars, storeVars, history
  <2> QED BY <1>2, <2>1, <2>2
<1>3. ASSUME NEW n \in Nodes, BlockStep(n) PROVE ForgetInv'
  <2>0. lost' = lost
    BY <1>3, BlockFrame
  <2>1. CASE ExecuteTxs(n)
    <3>1. /\ at' = [at EXCEPT ![n] = "executed"] /\ at[n] = "behind"
          /\ UNCHANGED <<app, next, blk, txs, sent, own, ballot>>
      BY <2>1 DEF ExecuteTxs, chainVars, storeVars
    <3> QED BY <1>S, <1>T, <2>0, <3>1 DEF ForgetInv
  <2>2. CASE UpdateStats(n) \/ NoVote(n)
    <3>1. /\ at' = [at EXCEPT ![n] = "done"] /\ at[n] = "executed"
          /\ ballot' = [ballot EXCEPT ![n] = {}]
          /\ UNCHANGED <<app, next, blk, txs, sent, own>>
      BY <2>2 DEF UpdateStats, NoVote, FinalizeBlock, storeVars
    <3> QED BY <1>S, <1>T, <2>0, <3>1 DEF ForgetInv, Of
  <2>3. CASE BroadcastVoteIDTx(n)
    <3> DEFINE v == [voter |-> n, ids |-> Unbroadcasted(n)]
    <3>1. /\ at' = [at EXCEPT ![n] = "mark"] /\ at[n] = "executed"
          /\ ballot' = [ballot EXCEPT ![n] = Unbroadcasted(n)]
          /\ own' = [own EXCEPT ![n] = @ \cup {v}]
          /\ UNCHANGED <<app, next, blk, txs, sent>>
      BY <2>3 DEF BroadcastVoteIDTx, chainVars, storeVars
    <3>2. /\ own'[n] = own[n] \cup {v} /\ ballot'[n] = Unbroadcasted(n) /\ at'[n] = "mark"
          /\ \A m \in Nodes : m # n => at'[m] = at[m] /\ own'[m] = own[m] /\ ballot'[m] = ballot[m]
      BY <1>T, <3>1 DEF Of
    <3>3. [voter |-> n, ids |-> ballot'[n]] \in own'[n]
      BY <3>2
    <3> HIDE DEF v
    <3>4. \A m \in Nodes : /\ sent'[m] \subseteq sent[m] /\ own[m] \subseteq own'[m]
                           /\ at'[m] = "committed" <=> at[m] = "committed"
                           /\ at'[m] = "mark" => [voter |-> m, ids |-> ballot'[m]] \in own'[m]
      BY <3>1, <3>2, <3>3 DEF ForgetInv
    <3>5. at'[Leader] = "lost" <=> at[Leader] = "lost"
      BY <1>0, <1>T, <3>1
    <3> QED BY <1>S, <2>0, <3>1, <3>4, <3>5
  <2>4. CASE MarkBroadcasted(n)
    <3> DEFINE v == [voter |-> n, ids |-> ballot[n]]
    <3>1. /\ at' = [at EXCEPT ![n] = "done"] /\ at[n] = "mark"
          /\ sent' = [sent EXCEPT ![n] = @ \cup (ballot[n] \cap events[n])]
          /\ ballot' = [ballot EXCEPT ![n] = {}]
          /\ UNCHANGED <<app, next, blk, txs, own>>
      BY <2>4 DEF MarkBroadcasted, FinalizeBlock
    <3>2. v \in own[n] /\ v.voter = n /\ v.ids = ballot[n]
      BY <3>1 DEF ForgetInv
    <3>3. ASSUME NEW m \in Nodes PROVE Unsent(m)' \subseteq lost'
      <4>1. Committed(m)' = Committed(m)
        BY <1>T, <3>1 DEF Committed
      <4>2. Pending(m)' = Pending(m)
        BY <1>0, <1>T, <3>1 DEF Pending
      <4>3. CASE m # n
        <5>1. sent'[m] = sent[m]
          BY <1>T, <3>1, <4>3 DEF Of
        <5> QED BY <2>0, <4>1, <4>2, <5>1, UnsentKept DEF ForgetInv
      <4>4. CASE m = n
        <5> SUFFICES ASSUME NEW e \in Unsent(n)' PROVE e \in Unsent(n)
          BY <2>0, <4>4 DEF ForgetInv
        <5>1. v \in Pending(n)'
          BY <3>1, <3>2 DEF Pending
        <5>2. e \notin ballot[n]
          BY <5>1, <3>2 DEF Unsent
        <5>3. e \in sent[n]
          BY <5>2, <3>1, <1>T DEF Unsent, Of
        <5> QED BY <5>3, <4>1, <4>2, <4>4 DEF Unsent
      <4> QED BY <4>3, <4>4
    <3>4. \A m \in Nodes : at'[m] = "mark" => [voter |-> m, ids |-> ballot'[m]] \in own'[m]
      BY <1>T, <3>1 DEF ForgetInv, Of
    <3> QED BY <3>3, <3>4 DEF ForgetInv
  <2>5. CASE CommitBlock(n)
    <3>1. /\ at[n] = "done" /\ (IF n = Leader THEN TRUE ELSE at[Leader] = "committed")
          /\ at' = [at EXCEPT ![n] = "committed"]
          /\ sent' = [sent EXCEPT ![n] = @ \ del[n]]
          /\ own' = [own EXCEPT ![n] = @ \ blk.votes]
          /\ txs' = IF n = Leader THEN txs \ blk.votes ELSE txs
          /\ UNCHANGED <<app, next, blk, ballot>>
      BY <2>5 DEF CommitBlock
    <3>2. /\ at'[n] = "committed" /\ sent'[n] = sent[n] \ del[n] /\ own'[n] = own[n] \ blk.votes
          /\ \A m \in Nodes : m # n => at'[m] = at[m] /\ sent'[m] = sent[m] /\ own'[m] = own[m]
      BY <1>T, <3>1 DEF Of
    <3>3. ASSUME NEW m \in Nodes PROVE Unsent(m)' \subseteq lost'
      <4>1. CASE m = Leader
        <5>1. sent'[m] = {}
          BY <4>1, <3>2 DEF VoteInv
        <5> QED BY <5>1 DEF Unsent
      <4>2. CASE m # Leader /\ m # n
        <5>1. at'[m] = at[m] /\ Committed(m)' = Committed(m)
          BY <3>1, <3>2, <4>2 DEF Committed
        <5>2. Pending(m) \subseteq Pending(m)'
          <6>1. CASE n = Leader
            <7>1. at[m] # "committed" /\ at'[Leader] = "committed"
              BY <3>1, <3>2, <6>1 DEF PhaseInv
            <7> QED BY <7>1, <3>1, <3>2, <4>2, <6>1 DEF Pending
          <6>2. CASE n # Leader
            BY <1>0, <3>1, <3>2, <4>2, <6>2 DEF Pending
          <6> QED BY <6>1, <6>2
        <5>3. sent'[m] \subseteq sent[m]
          BY <3>2, <4>2
        <5>4. Unsent(m)' \subseteq Unsent(m)
          BY <5>1, <5>2, <5>3, UnsentKept
        <5> QED BY <2>0, <5>4 DEF ForgetInv
      <4>3. CASE m # Leader /\ m = n
        <5> SUFFICES ASSUME NEW e \in Unsent(n)' PROVE e \in Unsent(n)
          BY <2>0, <4>3 DEF ForgetInv
        <5>1. Committed(n)' = next /\ Committed(n) = app /\ Pending(n)' = (own[n] \ blk.votes) \cup txs
          BY <3>1, <3>2, <4>3 DEF Committed, Pending
        <5>2. /\ e \in sent[n] /\ e \in DOMAIN next.res /\ n \notin next.res[e]
              /\ \A tx \in (own[n] \ blk.votes) \cup txs : tx.voter = n => e \notin tx.ids
          BY <5>1, <3>2 DEF Unsent
        <5>3. e \in DOMAIN app.res
          <6>1. e \in Known(app) /\ e \notin next.processed
            BY <5>2 DEF KnownInv, AppInv, AppOK
          <6> QED BY <6>1 DEF AppInv, Follows, Known
        <5>4. n \notin app.res[e]
          BY <5>2, <5>3 DEF AppInv, Follows
        <5>5. \A tx \in blk.votes : tx.voter = n => e \notin tx.ids
          BY <5>2 DEF AppInv, Follows
        <5>6. \A tx \in Pending(n) : tx.voter = n => e \notin tx.ids
          BY <5>2, <5>5 DEF Pending
        <5> QED BY <5>1, <5>2, <5>3, <5>4, <5>6 DEF Unsent
      <4> QED BY <4>1, <4>2, <4>3
    <3>4. \A m \in Nodes : at'[m] = "mark" => [voter |-> m, ids |-> ballot'[m]] \in own'[m]
      BY <3>1, <3>2 DEF ForgetInv
    <3> QED BY <3>3, <3>4 DEF ForgetInv
  <2>6. CASE Propose
    <3>1. /\ \/ (\A m \in Nodes : at[m] = "committed") /\ app' = next
             \/ at[Leader] = "lost" /\ app' = app
          /\ at' = [m \in Nodes |-> "behind"] /\ blk'.votes = txs /\ UNCHANGED <<sent, own, txs>>
      BY <2>6, ProposeIs DEF storeVars
    <3>2. ASSUME NEW m \in Nodes PROVE Unsent(m)' \subseteq Unsent(m)
      <4>1. Committed(m)' = Committed(m)
        BY <1>0, <3>1 DEF Committed, PhaseInv
      <4>2. Pending(m) \subseteq Pending(m)'
        BY <1>0, <3>1 DEF Pending
      <4> QED BY <3>1, <4>1, <4>2, UnsentKept
    <3> QED BY <2>0, <3>1, <3>2 DEF ForgetInv
  <2> QED BY <1>3, <2>1, <2>2, <2>3, <2>4, <2>5, <2>6 DEF BlockStep
<1>4. ASSUME NEW n \in Nodes, Gossip(n) PROVE ForgetInv'
  <2>1. txs \subseteq txs' /\ UNCHANGED <<app, next, blk, at, sent, ballot, own, lost>>
    BY <1>4 DEF Gossip, storeVars, history
  <2> QED BY <2>1, <1>S DEF ForgetInv
<1>5. ASSUME NEW n \in Nodes, WipeMempool(n) PROVE ForgetInv'
  <2> DEFINE ids == UNION {tx.ids : tx \in own[n]}
  <2>1. /\ at' = [at EXCEPT ![n] = IF @ \in Open THEN "behind" ELSE @] /\ n # Leader
        /\ sent' = [sent EXCEPT ![n] = @ \ ids]
        /\ own' = [own EXCEPT ![n] = {}] /\ ballot' = [ballot EXCEPT ![n] = {}]
        /\ UNCHANGED <<app, next, blk, txs, lost>>
    BY <1>5 DEF WipeMempool, chainVars, history
  <2>2. \A tx \in own[n] : tx.ids \subseteq ids
    OBVIOUS
  <2> HIDE DEF ids
  <2>3. /\ at'[n] \notin Open /\ (at'[n] = "committed" <=> at[n] = "committed")
        /\ sent'[n] = sent[n] \ ids /\ own'[n] = {}
        /\ \A m \in Nodes : m # n => at'[m] = at[m] /\ sent'[m] = sent[m] /\ own'[m] = own[m]
                                     /\ ballot'[m] = ballot[m]
    BY <1>T, <2>1 DEF Of, Open
  <2>4. ASSUME NEW m \in Nodes PROVE Unsent(m)' \subseteq Unsent(m)
    <3>1. Committed(m)' = Committed(m)
      BY <2>1, <2>3 DEF Committed
    <3>2. CASE m # n
      <4>1. Pending(m) \subseteq Pending(m)'
        BY <1>0, <2>1, <2>3, <3>2 DEF Pending
      <4>2. sent'[m] = sent[m]
        BY <2>3, <3>2
      <4> QED BY <3>1, <4>1, <4>2, UnsentKept
    <3>3. CASE m = n
      <4> SUFFICES ASSUME NEW e \in Unsent(n)' PROVE e \in Unsent(n)
        BY <3>3
      <4>1. e \in sent[n] /\ e \notin ids
        BY <2>3 DEF Unsent
      <4>2. \A tx \in Pending(n) : tx \in own[n] \/ tx \in Pending(n)'
        BY <1>0, <2>1, <2>3 DEF Pending
      <4> QED BY <3>1, <3>3, <4>1, <4>2, <2>2 DEF Unsent
    <3> QED BY <3>2, <3>3
  <2> QED BY <2>1, <2>3, <2>4 DEF ForgetInv, Open
<1>6. ASSUME NEW n \in Nodes, Crash(n) PROVE ForgetInv'
  <2>1. /\ lost' = lost \cup UNION {Unsent(m)' : m \in Nodes}
        /\ at' = [at EXCEPT ![n] = IF @ = "committed" THEN @
                                   ELSE IF n = Leader THEN "lost" ELSE "behind"]
        /\ ballot' = [ballot EXCEPT ![n] = {}] /\ own' = [own EXCEPT ![n] = {}]
    BY <1>6 DEF Crash
  <2>2. \A m \in Nodes : Unsent(m)' \subseteq lost'
    BY <2>1
  <2>3. /\ at'[n] # "mark"
        /\ \A m \in Nodes : m # n => at'[m] = at[m] /\ own'[m] = own[m] /\ ballot'[m] = ballot[m]
    BY <1>T, <2>1 DEF Of
  <2> QED BY <2>2, <2>3 DEF ForgetInv
<1> QED BY <1>1, <1>2, <1>3, <1>4, <1>5, <1>6 DEF Next, vars, chainVars, storeVars, history

\* Every step keeps FreshInv.
LEMMA FreshStep ==
  ASSUME StoreInv, ListenInv, FaultInv, FreshInv, [Next]_vars
  PROVE  FreshInv'
<1> SUFFICES ASSUME Quiet' PROVE \A m \in Nodes : Fresh(lst'[m], kv'[m], observed'[m])
  BY DEF FreshInv
<1>0. Quiet /\ \A m \in Nodes : Fresh(lst[m], kv[m], observed[m])
  BY QuietStep DEF FreshInv
<1>1. CASE UNCHANGED <<lst, kv, observed>>
  BY <1>0, <1>1
<1>2. ASSUME NEW n \in Nodes, BlockStep(n) \/ Gossip(n) PROVE UNCHANGED <<lst, kv, observed>>
  BY <1>2, BlockFrame
<1>3. ASSUME NEW n \in Nodes, ListenerStep(n)
      PROVE  \A m \in Nodes : Fresh(lst'[m], kv'[m], observed'[m])
  <2> DEFINE l == lst[n]
             k == kv[n]
             obs == observed[n]
  <2>1. /\ l \in Listener /\ k \in KV /\ ListenerOK(l, k) /\ obs \in SUBSET Event /\ Fresh(l, k, obs)
        /\ lst \in [Nodes -> Listener] /\ kv \in [Nodes -> KV] /\ observed \in [Nodes -> SUBSET Event]
    BY <1>0 DEF ListenInv, StoreInv, Of
  <2>K. ASSUME NEW a, NEW b, NEW c, Fresh(a, b, c), lst' = [lst EXCEPT ![n] = a],
               kv' = [kv EXCEPT ![n] = b], observed' = [observed EXCEPT ![n] = c]
        PROVE  \A m \in Nodes : Fresh(lst'[m], kv'[m], observed'[m])
    BY <1>0, <2>1, <2>K
  <2>S. kv = [kv EXCEPT ![n] = k] /\ observed = [observed EXCEPT ![n] = obs]
    BY <2>1
  <2>2. CASE Listen(n)
    <3>1. PICK height \in StartHeights[n] :
            lst' = [lst EXCEPT ![n] = [Off EXCEPT !.pc = "next", !.start = kv[n].lh, !.goal = height]]
      BY <2>2 DEF Listen
    <3> DEFINE m == [Off EXCEPT !.pc = "next", !.start = kv[n].lh, !.goal = height]
    <3>2. m.pc = "next" /\ l.pc = "off" /\ kv' = kv /\ observed' = observed
      BY <2>2 DEF Listen, Off, history
    <3>3. obs = {} /\ k.lwe <= k.lh
      BY <2>1, <3>2 DEF Fresh
    <3>4. lst' = [lst EXCEPT ![n] = m]
      BY <3>1
    <3> HIDE DEF m, k, obs, l
    <3>5. Fresh(m, k, obs)
      BY <3>2, <3>3 DEF Fresh
    <3> QED BY <2>S, <3>2, <3>4, <3>5, <2>K
  <2>3. CASE CatchUp(n) \/ NewHeight(n)
    <3>1. PICK from \in {l.start, l.start + 1}, to \in Height :
            l.pc = "next" /\ l.start < to /\ ProcessEvents(n, from, to)
      BY <2>3, RangeAhead
    <3> DEFINE found == LogBlocks \cap (from .. to)
    <3>2. CASE found = {}
      <4> DEFINE m == [l EXCEPT !.start = to]
                 q == [k EXCEPT !.lh = to]
      <4>1. Fresh(m, q, obs)
        BY <2>1, <3>1, NothingFoundFresh
      <4>2. lst' = [lst EXCEPT ![n] = m] /\ kv' = [kv EXCEPT ![n] = q] /\ observed' = observed
        BY <3>1, <3>2 DEF ProcessEvents, history
      <4> HIDE DEF m, q, obs
      <4> QED BY <2>S, <4>1, <4>2, <2>K
    <3>3. CASE found # {}
      <4> DEFINE m == [l EXCEPT !.pc = "store", !.to = to, !.todo = found, !.prev = k.lwe]
      <4>1. Fresh(m, k, obs)
        BY <2>1, <3>1, <3>3, FoundFresh
      <4>2. lst' = [lst EXCEPT ![n] = m] /\ kv' = kv /\ observed' = observed
        BY <3>1, <3>3 DEF ProcessEvents, history
      <4> HIDE DEF m, k, obs
      <4> QED BY <2>S, <4>1, <4>2, <2>K
    <3> QED BY <3>2, <3>3
  <2>4. CASE StoreCheck(n)
    <3>1. l.pc = "store" /\ kv' = kv /\ observed' = observed
      BY <2>4 DEF StoreCheck, history
    <3>2. CASE Current(n) \in Committed(n).processed
      <4>1. lst' = [lst EXCEPT ![n] = Stored(l)]
        BY <2>4, <3>2 DEF StoreCheck
      <4>2. Fresh(Stored(l), k, obs)
        BY <2>1, <3>1, StoredFresh
      <4> HIDE DEF l, k, obs
      <4> QED BY <2>S, <3>1, <4>1, <4>2, <2>K
    <3>3. CASE Current(n) \notin Committed(n).processed
      <4> DEFINE m == [l EXCEPT !.pc = "insert"]
      <4>1. lst' = [lst EXCEPT ![n] = m]
        BY <2>4, <3>3 DEF StoreCheck
      <4>2. m.pc = "insert" /\ m.todo = l.todo /\ m.to = l.to /\ m.prev = l.prev /\ m.start = l.start
        BY <2>1 DEF Listener
      <4> HIDE DEF m, l, k, obs
      <4>3. Fresh(m, k, obs)
        BY <2>1, <3>1, <4>2 DEF Fresh
      <4> QED BY <2>S, <3>1, <4>1, <4>3, <2>K
    <3> QED BY <3>2, <3>3
  <2>5. CASE StoreInsert(n)
    <3>1. l.pc = "insert" /\ kv' = kv /\ lst' = [lst EXCEPT ![n] = Stored(l)]
          /\ observed' = [observed EXCEPT ![n] = obs \cup {Due(l)}]
      BY <2>5 DEF StoreInsert, Current, Due
    <3>2. Fresh(Stored(l), k, obs \cup {Due(l)})
      BY <2>1, <3>1, StoredFresh
    <3> HIDE DEF l, k, obs
    <3> QED BY <2>S, <3>1, <3>2, <2>K
  <2>6. CASE SetLastHeightWithEvent(n)
    <3> DEFINE m == [l EXCEPT !.pc = "lh"]
               q == [k EXCEPT !.lwe = l.prev]
    <3>1. /\ l.pc = "lwe" /\ lst' = [lst EXCEPT ![n] = m] /\ kv' = [kv EXCEPT ![n] = q]
          /\ observed' = observed
      BY <2>6 DEF SetLastHeightWithEvent, history
    <3>2. m.pc = "lh" /\ m.to = l.to /\ m.prev = l.prev
      BY <2>1 DEF Listener
    <3> HIDE DEF m, q, l, k, obs
    <3>3. Fresh(m, q, obs)
      BY <2>1, <3>1, <3>2 DEF Fresh
    <3> QED BY <2>S, <3>1, <3>3, <2>K
  <2>7. CASE SetLastSeenHeight(n)
    <3> DEFINE m == [l EXCEPT !.pc = "next", !.start = l.to, !.to = 0, !.prev = 0]
               q == [k EXCEPT !.lh = l.to]
    <3>1. /\ l.pc = "lh" /\ lst' = [lst EXCEPT ![n] = m] /\ kv' = [kv EXCEPT ![n] = q]
          /\ observed' = observed
      BY <2>7 DEF SetLastSeenHeight, history
    <3>2. m.pc = "next" /\ m.start = l.to
      BY <2>1 DEF Listener
    <3>3. q.lwe = l.prev /\ q.lh = l.to
      BY <2>1, <3>1 DEF KV, ListenerOK
    <3> HIDE DEF m, q, l, k, obs
    <3>4. Fresh(m, q, obs)
      BY <2>1, <3>1, <3>2, <3>3 DEF Fresh
    <3> QED BY <2>S, <3>1, <3>4, <2>K
  <2> QED BY <1>3, <2>2, <2>3, <2>4, <2>5, <2>6, <2>7 DEF ListenerStep
<1>4. UNCHANGED vars => UNCHANGED <<lst, kv, observed>>
  BY DEF vars, listenVars, history
<1> QED BY <1>1, <1>2, <1>3, <1>4, QuietStep

\* Every step keeps OnceInv.
LEMMA OnceStep ==
  ASSUME PhaseInv, StoreInv, VoteInv, ListenInv, FaultInv, FreshInv, OnceInv, [Next]_vars
  PROVE  OnceInv'
<1> SUFFICES ASSUME Quiet' PROVE OnceInv'
  BY DEF OnceInv
<1>0. Leader \in Nodes
  BY OracleAssumption
<1>Q. Quiet
  BY QuietStep
<1>T. /\ at \in [Nodes -> Phase] /\ sent \in Of(Event) /\ own \in Of(VoteTx) /\ ballot \in Of(Event)
      /\ events \in Of(Event) /\ del \in Of(Event)
  BY DEF PhaseInv, StoreInv, VoteInv
<1>1. CASE UNCHANGED <<at, events, sent, del, ballot, own, txs, blk, app>>
  BY <1>1, <1>Q DEF OnceInv, Marked, VotedFor
<1>V. \* every vote of n is for something that n has observed
      ASSUME NEW n \in Nodes, NEW tx \in own[n] \cup txs \cup blk.votes, tx.voter = n
      PROVE  tx.ids \subseteq observed[n]
  BY <1>V DEF VoteInv, Sincere
<1>2. ASSUME NEW n \in Nodes, ListenerStep(n) PROVE OnceInv'
  <2>1. CASE StoreInsert(n)
    <3> DEFINE c == Current(n)
    <3>1. /\ events' = [events EXCEPT ![n] = @ \cup {c}] /\ c = Due(lst[n]) /\ lst[n].pc = "insert"
          /\ UNCHANGED <<at, sent, del, ballot, own, txs, blk, app>>
      BY <2>1, InsertIs DEF StoreInsert, chainVars
    <3>2. c \notin observed[n]
      <4>1. lst[n] \in Listener /\ kv[n] \in KV /\ ListenerOK(lst[n], kv[n])
            /\ Fresh(lst[n], kv[n], observed[n])
        BY <1>Q DEF ListenInv, FreshInv
      <4> QED BY <3>1, <4>1, DueIsFresh
    <3> HIDE DEF c
    <3>3. events'[n] = events[n] \cup {c} /\ \A m \in Nodes : m # n => events'[m] = events[m]
      BY <1>T, <3>1 DEF Of
    <3>4. ASSUME NEW m \in Nodes, NEW tx \in own[m] \cup txs \cup blk.votes, tx.voter = m
          PROVE  tx.ids \cap events'[m] = tx.ids \cap events[m]
      BY <1>V, <3>2, <3>3, <3>4
    <3>5. \A m \in Nodes : VotedFor(m)' = VotedFor(m) /\ Marked(m)' = Marked(m)
      BY <3>1 DEF VotedFor, Marked
    <3> QED BY <1>Q, <3>1, <3>4, <3>5 DEF OnceInv
  <2>2. CASE ~StoreInsert(n)
    BY <1>1, <1>2, <2>2, ListenFrame DEF chainVars
  <2> QED BY <2>1, <2>2
<1>3. ASSUME NEW n \in Nodes, BlockStep(n) PROVE OnceInv'
  <2>1. CASE ExecuteTxs(n)
    <3>1. /\ at' = [at EXCEPT ![n] = "executed"] /\ at[n] = "behind"
          /\ del' = [del EXCEPT ![n] = events[n] \cap VotedFor(n)]
          /\ UNCHANGED <<app, blk, txs, sent, events, own, ballot>>
      BY <2>1 DEF ExecuteTxs, chainVars, storeVars
    <3>2. /\ at'[n] = "executed" /\ del'[n] \subseteq VotedFor(n)
          /\ \A m \in Nodes : m # n => at'[m] = at[m] /\ del'[m] = del[m]
      BY <1>T, <3>1 DEF Of
    <3>3. \A m \in Nodes : VotedFor(m)' = VotedFor(m) /\ Marked(m)' = Marked(m)
      BY <3>1, <3>2 DEF VotedFor, Marked
    <3> QED BY <1>Q, <3>1, <3>2, <3>3 DEF OnceInv
  <2>2. CASE UpdateStats(n) \/ NoVote(n)
    <3>1. /\ at' = [at EXCEPT ![n] = "done"] /\ at[n] = "executed"
          /\ del' = [del EXCEPT ![n] = @ \cup DeleteEvents(n)]
          /\ ballot' = [ballot EXCEPT ![n] = {}]
          /\ UNCHANGED <<app, blk, txs, sent, events, own>>
      BY <2>2 DEF UpdateStats, NoVote, FinalizeBlock, storeVars
    <3>2. /\ at'[n] = "done"
          /\ \A m \in Nodes : m # n => at'[m] = at[m] /\ del'[m] = del[m] /\ ballot'[m] = ballot[m]
      BY <1>T, <3>1 DEF Of
    <3>3. \A m \in Nodes : VotedFor(m)' = VotedFor(m) /\ Marked(m)' = Marked(m)
      BY <3>1, <3>2 DEF VotedFor, Marked
    <3> QED BY <1>Q, <3>1, <3>2, <3>3 DEF OnceInv
  <2>3. CASE BroadcastVoteIDTx(n)
    <3> DEFINE ids == Unbroadcasted(n)
               v == [voter |-> n, ids |-> ids]
    <3>1. /\ at' = [at EXCEPT ![n] = "mark"] /\ at[n] = "executed"
          /\ ballot' = [ballot EXCEPT ![n] = ids]
          /\ own' = [own EXCEPT ![n] = @ \cup {v}]
          /\ UNCHANGED <<app, blk, txs, sent, events, del>>
      BY <2>3 DEF BroadcastVoteIDTx, chainVars, storeVars
    <3>2. /\ own'[n] = own[n] \cup {v} /\ ballot'[n] = ids /\ at'[n] = "mark"
          /\ \A m \in Nodes : m # n => at'[m] = at[m] /\ own'[m] = own[m] /\ ballot'[m] = ballot[m]
      BY <1>T, <3>1 DEF Of
    <3>3. v.ids = ids /\ ids \cap sent[n] = {}
      BY DEF Unbroadcasted
    <3> HIDE DEF v, ids
    <3>4. /\ Marked(n) = sent[n] /\ Marked(n)' = sent[n] \cup ids
          /\ \A m \in Nodes : m # n => Marked(m)' = Marked(m)
      BY <3>1, <3>2 DEF Marked
    <3>5. \A m \in Nodes : VotedFor(m)' = VotedFor(m)
      BY <3>1 DEF VotedFor
    <3>6. ASSUME NEW m \in Nodes, NEW tx \in own'[m] \cup txs, tx.voter = m
          PROVE  tx.ids \cap events[m] \subseteq Marked(m)'
      <4>1. CASE m = n /\ tx = v
        BY <4>1, <3>3, <3>4
      <4>2. CASE tx \in own[m] \cup txs
        <5>1. tx.ids \cap events[m] \subseteq Marked(m)
          BY <1>Q, <3>6, <4>2 DEF OnceInv
        <5> QED BY <5>1, <3>4
      <4> QED BY <3>2, <3>6, <4>1, <4>2
    <3> QED BY <1>Q, <3>1, <3>2, <3>3, <3>5, <3>6 DEF OnceInv
  <2>4. CASE MarkBroadcasted(n)
    <3>1. /\ at' = [at EXCEPT ![n] = "done"] /\ at[n] = "mark"
          /\ del' = [del EXCEPT ![n] = @ \cup DeleteEvents(n)]
          /\ sent' = [sent EXCEPT ![n] = @ \cup (ballot[n] \cap events[n])]
          /\ ballot' = [ballot EXCEPT ![n] = {}]
          /\ UNCHANGED <<app, blk, txs, events, own>>
      BY <2>4 DEF MarkBroadcasted, FinalizeBlock
    <3>2. /\ at'[n] = "done" /\ sent'[n] = sent[n] \cup (ballot[n] \cap events[n])
          /\ \A m \in Nodes : m # n => /\ at'[m] = at[m] /\ del'[m] = del[m] /\ ballot'[m] = ballot[m]
                                       /\ sent'[m] = sent[m]
      BY <1>T, <3>1 DEF Of
    <3>3. /\ Marked(n)' = sent'[n] /\ Marked(n) = sent[n] \cup ballot[n]
          /\ \A m \in Nodes : m # n => Marked(m)' = Marked(m)
      BY <3>1, <3>2 DEF Marked
    <3>4. \A m \in Nodes : VotedFor(m)' = VotedFor(m) /\ sent[m] \subseteq sent'[m]
      BY <3>1, <3>2 DEF VotedFor
    <3>5. ASSUME NEW m \in Nodes, NEW tx \in own[m] \cup txs, tx.voter = m
          PROVE  tx.ids \cap events[m] \subseteq Marked(m)'
      <4>1. tx.ids \cap events[m] \subseteq Marked(m)
        BY <1>Q, <3>5 DEF OnceInv
      <4> QED BY <4>1, <3>2, <3>3
    <3>6. ASSUME NEW m \in Nodes, at'[m] # "committed", NEW tx \in blk.votes, tx.voter = m
          PROVE  tx.ids \cap events[m] \subseteq sent'[m]
      <4>1. at[m] # "committed"
        BY <3>1, <3>2, <3>6
      <4>2. tx.ids \cap events[m] \subseteq sent[m]
        BY <1>Q, <3>6, <4>1 DEF OnceInv
      <4> QED BY <4>2, <3>4
    <3>7. at'[Leader] # "lost"
      BY <1>Q, <1>0, <3>1, <1>T DEF OnceInv
    <3>8. ASSUME NEW m \in Nodes
          PROVE  /\ at'[m] = "mark" => ballot'[m] \cap sent'[m] = {}
                 /\ at'[m] \in {"executed", "mark"} => del'[m] \subseteq VotedFor(m)'
      BY <1>Q, <3>2, <3>4 DEF OnceInv
    <3> QED BY <3>1, <3>5, <3>6, <3>7, <3>8 DEF OnceInv
  <2>5. CASE CommitBlock(n)
    <3>1. /\ at[n] = "done" /\ at' = [at EXCEPT ![n] = "committed"]
          /\ events' = [events EXCEPT ![n] = @ \ del[n]]
          /\ sent' = [sent EXCEPT ![n] = @ \ del[n]]
          /\ del' = [del EXCEPT ![n] = {}]
          /\ own' = [own EXCEPT ![n] = @ \ blk.votes]
          /\ txs' \subseteq txs
          /\ UNCHANGED <<app, blk, ballot>>
      BY <2>5 DEF CommitBlock
    <3>2. /\ at'[n] = "committed" /\ sent'[n] = sent[n] \ del[n] /\ own'[n] = own[n] \ blk.votes
          /\ events'[n] = events[n] \ del[n]
          /\ \A m \in Nodes : m # n => /\ at'[m] = at[m] /\ sent'[m] = sent[m] /\ own'[m] = own[m]
                                       /\ events'[m] = events[m] /\ del'[m] = del[m]
      BY <1>T, <3>1 DEF Of
    <3>3. /\ Marked(n)' = sent[n] \ del[n] /\ Marked(n) = sent[n]
          /\ \A m \in Nodes : m # n => Marked(m)' = Marked(m)
      BY <3>1, <3>2 DEF Marked
    <3>4. \A m \in Nodes : VotedFor(m)' = VotedFor(m)
      BY <3>1 DEF VotedFor
    <3>5. ASSUME NEW m \in Nodes, NEW tx \in own'[m] \cup txs', tx.voter = m
          PROVE  tx.ids \cap events'[m] \subseteq Marked(m)'
      <4>1. tx.ids \cap events[m] \subseteq Marked(m)
        BY <1>Q, <3>1, <3>2, <3>5 DEF OnceInv
      <4> QED BY <4>1, <3>2, <3>3
    <3>6. ASSUME NEW m \in Nodes, at'[m] # "committed"
          PROVE  m # n
      BY <3>2, <3>6
    <3>7. at'[Leader] # "lost"
      BY <1>Q, <1>0, <3>1, <1>T DEF OnceInv
    <3>8. ASSUME NEW m \in Nodes, m # n
          PROVE  /\ at'[m] # "committed" =>
                      \A tx \in blk.votes : tx.voter = m => tx.ids \cap events'[m] \subseteq sent'[m]
                 /\ at'[m] = "mark" => ballot'[m] \cap sent'[m] = {}
                 /\ at'[m] \in {"executed", "mark"} => del'[m] \subseteq VotedFor(m)'
      BY <1>Q, <3>1, <3>2, <3>4, <3>8 DEF OnceInv
    <3> QED BY <3>1, <3>2, <3>5, <3>6, <3>7, <3>8 DEF OnceInv
  <2>6. CASE Propose
    <3>1. /\ \A m \in Nodes : at[m] = "committed"
          /\ at' = [m \in Nodes |-> "behind"] /\ blk'.votes = txs
          /\ UNCHANGED <<sent, events, own, txs>>
      BY <1>Q, <2>6, ProposeIs DEF storeVars, OnceInv
    <3>2. \A m \in Nodes : Marked(m) = sent[m] /\ Marked(m)' = sent[m] /\ at'[m] = "behind"
      BY <3>1 DEF Marked
    <3>3. \A m \in Nodes : \A tx \in own[m] \cup txs :
             tx.voter = m => tx.ids \cap events[m] \subseteq sent[m]
      BY <1>Q, <3>2 DEF OnceInv
    <3> QED BY <1>0, <3>1, <3>2, <3>3 DEF OnceInv
  <2> QED BY <1>3, <2>1, <2>2, <2>3, <2>4, <2>5, <2>6 DEF BlockStep
<1>4. ASSUME NEW n \in Nodes, Gossip(n) PROVE OnceInv'
  <2>1. PICK v \in own[n] : txs' = txs \cup {v}
    BY <1>4 DEF Gossip
  <2>2. UNCHANGED <<app, blk, at, events, sent, del, ballot, own>>
    BY <1>4 DEF Gossip, storeVars
  <2>3. v.voter = n
    BY DEF VoteInv
  <2>4. \A m \in Nodes : VotedFor(m)' = VotedFor(m) /\ Marked(m)' = Marked(m)
    BY <2>2 DEF VotedFor, Marked
  <2>5. ASSUME NEW m \in Nodes, NEW tx \in own[m] \cup txs', tx.voter = m
        PROVE  tx.ids \cap events[m] \subseteq Marked(m)
    <3>1. tx \in own[m] \cup txs
      BY <2>1, <2>3, <2>5
    <3> QED BY <1>Q, <2>5, <3>1 DEF OnceInv
  <2> QED BY <1>Q, <2>2, <2>4, <2>5 DEF OnceInv
<1>5. UNCHANGED vars => UNCHANGED <<at, events, sent, del, ballot, own, txs, blk, app>>
  BY DEF vars, chainVars, storeVars
<1> QED BY <1>1, <1>2, <1>3, <1>4, <1>5, QuietStep

\* Every step keeps the invariant.
LEMMA StepInv ==
  ASSUME Inv, [Next]_vars
  PROVE  Inv'
<1> USE DEF Inv
<1>1. PhaseInv' /\ ListenInv'
  BY PhaseStep, ListenStep
<1>2. StoreInv' /\ VoteInv'
  BY StoreStep, VoteStep
<1>3. AppInv' /\ KnownInv'
  BY AppStep, KnownStep
<1>4. DecidedInv' /\ ForgetInv'
  BY DecidedStep, ForgetStep
<1>5. FaultInv' /\ FreshInv' /\ OnceInv'
  BY FaultStep, FreshStep, OnceStep
<1> QED BY <1>1, <1>2, <1>3, <1>4, <1>5

-----------------------------------------------------------------------------
(* Theorems.                                                               *)

\* The invariant holds in every reachable state, whatever listeners fail,
\* nodes crash, mempools are wiped and resolutions expire.
THEOREM OracleInvariant == Spec => []Inv
  BY InitInv, StepInv, PTL DEF Spec

\* The invariant gives the variables their shape.
LEMMA InvType ==
  ASSUME Inv
  PROVE  TypeOK
<1>1. ASSUME NEW a, AppOK(a, observed)
      PROVE  /\ DOMAIN a.res \subseteq Event /\ \A e \in DOMAIN a.res : a.res[e] \subseteq Nodes
             /\ a.processed \subseteq Event \ DOMAIN a.res
             /\ a.topic.pending \subseteq Event
             /\ \A p, q \in a.topic.pending : p.point = q.point => p = q
  BY <1>1 DEF AppOK, TopicOK, Observers
<1>2. blk.bodies \subseteq Event /\ blk.votes \subseteq VoteTx /\ blk.expired \subseteq Event
      /\ txs \subseteq VoteTx /\ lost \subseteq Event
  BY OracleAssumption DEF Inv, VoteInv, StoreInv, Of
<1>3. at \in [Nodes -> Open \cup {"behind", "lost", "committed"}]
  BY DEF Inv, PhaseInv, Phase
<1>4. ASSUME NEW n \in Nodes
      PROVE  /\ sent[n] \subseteq events[n] /\ del[n] \subseteq events[n]
             /\ events[n] \subseteq Event
             /\ own[n] \subseteq VoteTx /\ ballot[n] \subseteq Event
             /\ raced[n] \subseteq observed[n] /\ observed[n] \subseteq Event
  BY DEF Inv, StoreInv, VoteInv, Of
<1>5. ASSUME NEW n \in Nodes
      PROVE  lst[n] \in Listener /\ kv[n] \in [lh : 0 .. MaxTip, lwe : 0 .. MaxTip]
  BY DEF Inv, ListenInv, KV, Height
<1>6. AppOK(app, observed) /\ AppOK(next, observed) /\ faults \in Seq(FaultKinds)
  BY DEF Inv, AppInv, FaultInv
<1> QED BY <1>1, <1>2, <1>3, <1>4, <1>5, <1>6 DEF TypeOK

\* Every variable keeps its shape: a resolution is never open and processed at
\* once, a point has one row, marks and deletions are of rows that exist.
THEOREM OracleTypes == Spec => []TypeOK
  BY OracleInvariant, InvType, PTL

\* The callback of the ordered-sync topic sees the blocks with logs in order,
\* without a gap and each once (storeDataPoint, finalized.sql, resolve;
\* processEvents and the heights that the listener stores).
THEOREM LogsAreGivenInOrder == Spec => []GivenInOrder
<1>1. Inv => GivenInOrder
  BY DEF Inv, AppInv, AppOK, TopicOK, Ascending, GivenInOrder
<1> QED BY OracleInvariant, <1>1, PTL

\* Only what validators with half of the power have observed becomes a data
\* point (BroadcastVoteIDTx, approve, RequiredPower, processVotes).
THEOREM PointsHaveHalfThePower == Spec => []PointsWereObserved
<1>1. Inv => PointsWereObserved
  BY DEF Inv, AppInv, AppOK, Half, Observers, PointsWereObserved
<1> QED BY OracleInvariant, <1>1, PTL

\* A decided event does not stay in the event store, but for an insert that
\* lands after the deletion (deleteEvents, IsProcessed,
\* insertEventIdempotent).
THEOREM DecidedEventsAreDeleted == Spec => []NoDecidedEventKept
<1>1. Inv => NoDecidedEventKept
  BY DEF Inv, DecidedInv, NoDecidedEventKept, Committed
<1> QED BY OracleInvariant, <1>1, PTL

\* A vote that is marked as broadcasted is counted or on its way, unless a
\* crash took the mempool that had it (MarkBroadcasted, MarkRebroadcast, the
\* mempool).
THEOREM VotesAreNotForgotten == Spec => []NoVoteForgotten
<1>1. Inv => NoVoteForgotten
  BY DEF Inv, ForgetInv, NoVoteForgotten
<1> QED BY OracleInvariant, <1>1, PTL

\* The invariant excludes a hang without faults: a row deleted by the open
\* transaction was marked before, and the event that is due is new.
LEMMA NeverHung ==
  ASSUME PhaseInv, StoreInv, ListenInv, FreshInv, OnceInv
  PROVE  NoHangWithoutFaults
<1> SUFFICES ASSUME Quiet, NEW n \in Nodes PROVE ~Hung(n)
  BY DEF NoHangWithoutFaults, Quiet
<1>1. at[n] = "mark" => ballot[n] \cap del[n] = {}
  <2> SUFFICES ASSUME at[n] = "mark" PROVE del[n] \subseteq sent[n]
    BY DEF OnceInv
  <2>1. n # Leader /\ at[n] # "committed"
    BY DEF PhaseInv
  <2>2. del[n] \subseteq VotedFor(n) /\ del[n] \subseteq events[n]
    BY DEF OnceInv, StoreInv
  <2> SUFFICES ASSUME NEW e \in del[n] PROVE e \in sent[n]
    OBVIOUS
  <2>3. PICK tx \in blk.votes : tx.voter = n /\ e \in VotesCounted(app, tx.ids)
    BY <2>1, <2>2 DEF VotedFor
  <2>4. e \in tx.ids \cap events[n]
    BY <2>2, <2>3 DEF VotesCounted
  <2> QED BY <2>1, <2>3, <2>4 DEF OnceInv
<1>2. lst[n].pc = "insert" => Current(n) \notin del[n]
  <2> SUFFICES ASSUME lst[n].pc = "insert" PROVE Current(n) \notin del[n]
    OBVIOUS
  <2>1. lst[n] \in Listener /\ kv[n] \in KV /\ ListenerOK(lst[n], kv[n])
        /\ Fresh(lst[n], kv[n], observed[n])
    BY DEF ListenInv, FreshInv
  <2>2. Due(lst[n]) \notin observed[n]
    BY <2>1, DueIsFresh
  <2> QED BY <2>2 DEF Current, Due, StoreInv
<1> QED BY <1>1, <1>2 DEF Hung

\* The two connections to the event store do not wait for each other as long
\* as no listener starts over, no node crashes and no mempool is wiped (Store,
\* MarkBroadcasted, deleteEvents).
THEOREM EventStoreDoesNotHang == Spec => []NoHangWithoutFaults
<1>1. Inv => NoHangWithoutFaults
  BY NeverHung DEF Inv
<1> QED BY OracleInvariant, <1>1, PTL
=============================================================================
