-------------------------- MODULE PriorityLockProofs --------------------------
(***************************************************************************)
(* Theorems about PriorityLock for any set of callers.  MutualExclusion    *)
(* and NoLostHandover are inductive only together: that a waking caller    *)
(* is alone inside needs that the one who unlocks was alone, and that a    *)
(* caller who finds the lock free is alone needs that active is set as     *)
(* long as somebody is inside.                                             *)
(***************************************************************************)
EXTENDS PriorityLock, TLAPS

LockInv == LockTypeOK /\ MutualExclusion /\ NoLostHandover

\* The invariant holds before the first call.
LEMMA LockInitInv == LockInit => LockInv
<1> SUFFICES ASSUME LockInit PROVE LockInv
  OBVIOUS
<1>1. queue = <<>> /\ Len(queue) = 0 /\ active = FALSE /\ inside = {}
  BY DEF LockInit
<1>2. LockTypeOK
  <2>1. active \in BOOLEAN
    BY <1>1
  <2>2. queue \in Seq(Procs) /\ inside \subseteq Procs
    BY <1>1
  <2> QED BY <2>1, <2>2 DEF LockTypeOK
<1>3. MutualExclusion
  BY <1>1 DEF MutualExclusion
<1>4. Waiting \cap inside = {}
  BY <1>1
<1>5. NoLostHandover
  BY <1>1, <1>4 DEF NoLostHandover
<1> QED BY <1>2, <1>3, <1>5 DEF LockInv

\* A caller that is not in the queue waits in one place of it, at the back or
\* at the front.
LEMMA OnePlaceEach ==
  ASSUME NEW q \in Seq(Procs), NEW p \in Procs,
         \A i \in 1 .. Len(q) : q[i] # p,
         \A i, j \in 1 .. Len(q) : q[i] = q[j] => i = j,
         NEW r, r = Append(q, p) \/ r = <<p>> \o q
  PROVE  /\ r \in Seq(Procs)
         /\ \A i, j \in 1 .. Len(r) : r[i] = r[j] => i = j
         /\ \A i \in 1 .. Len(r) : r[i] = p \/ \E k \in 1 .. Len(q) : r[i] = q[k]
<1>1. CASE r = Append(q, p)
  <2>1. Len(r) = Len(q) + 1 /\ r[Len(q) + 1] = p /\ \A i \in 1 .. Len(q) : r[i] = q[i]
    BY <1>1
  <2>2. r \in Seq(Procs)
    BY <1>1
  <2>3. ASSUME NEW i \in 1 .. Len(r), NEW j \in 1 .. Len(r), r[i] = r[j]
        PROVE  i = j
    <3>1. CASE i \in 1 .. Len(q) /\ j \in 1 .. Len(q)
      BY <2>1, <2>3, <3>1
    <3>2. CASE i = Len(q) + 1 \/ j = Len(q) + 1
      BY <2>1, <2>3, <3>2
    <3> QED BY <2>1, <3>1, <3>2
  <2>4. ASSUME NEW i \in 1 .. Len(r)
        PROVE  r[i] = p \/ \E k \in 1 .. Len(q) : r[i] = q[k]
    BY <2>1
  <2> QED BY <2>2, <2>3, <2>4
<1>2. CASE r = <<p>> \o q
  <2>1. Len(r) = Len(q) + 1 /\ r[1] = p /\ \A i \in 2 .. Len(r) : r[i] = q[i - 1]
    BY <1>2
  <2>2. r \in Seq(Procs)
    BY <1>2
  <2>3. ASSUME NEW i \in 1 .. Len(r), NEW j \in 1 .. Len(r), r[i] = r[j]
        PROVE  i = j
    <3>1. CASE i = 1 \/ j = 1
      BY <2>1, <2>3, <3>1
    <3>2. CASE i # 1 /\ j # 1
      <4>1. i - 1 \in 1 .. Len(q) /\ j - 1 \in 1 .. Len(q)
        BY <2>1, <3>2
      <4>2. r[i] = q[i - 1] /\ r[j] = q[j - 1]
        BY <2>1, <3>2
      <4>3. i - 1 = j - 1
        BY <2>3, <4>1, <4>2
      <4> QED BY <4>3
    <3> QED BY <3>1, <3>2
  <2>4. ASSUME NEW i \in 1 .. Len(r)
        PROVE  r[i] = p \/ \E k \in 1 .. Len(q) : r[i] = q[k]
    <3>1. CASE i = 1
      BY <2>1, <3>1
    <3>2. CASE i # 1
      <4>1. i - 1 \in 1 .. Len(q) /\ r[i] = q[i - 1]
        BY <2>1, <3>2
      <4> QED BY <4>1
    <3> QED BY <3>1, <3>2
  <2> QED BY <2>2, <2>3, <2>4
<1> QED BY <1>1, <1>2

\* Lock and PriorityLock keep the invariant.
LEMMA AcquireInv ==
  ASSUME LockInv, NEW p \in Procs, NEW r, r = Append(queue, p) \/ r = <<p>> \o queue,
         Acquire(p, r)
  PROVE  LockInv'
<1>1. CASE ~active
  <2>1. inside = {} /\ queue = <<>>
    BY <1>1 DEF LockInv, NoLostHandover
  <2>2. active' = TRUE /\ inside' = {p} /\ queue' = <<>>
    BY <1>1, <2>1 DEF Acquire
  <2> QED BY <2>2 DEF LockInv, LockTypeOK, MutualExclusion, NoLostHandover, Waiting
<1>2. CASE active
  <2>1. queue' = r /\ active' = active /\ inside' = inside
    BY <1>2 DEF Acquire
  <2>2. \A i \in 1 .. Len(queue) : queue[i] # p
    BY DEF Acquire, Waiting
  <2>3. /\ queue \in Seq(Procs)
        /\ \A i, j \in 1 .. Len(queue) : queue[i] = queue[j] => i = j
    BY DEF LockInv, LockTypeOK, NoLostHandover
  <2>4. /\ r \in Seq(Procs)
        /\ \A i, j \in 1 .. Len(r) : r[i] = r[j] => i = j
        /\ \A i \in 1 .. Len(r) : r[i] = p \/ \E k \in 1 .. Len(queue) : r[i] = queue[k]
    BY <2>2, <2>3, OnePlaceEach
  <2>5. LockTypeOK' /\ MutualExclusion'
    BY <2>1, <2>4 DEF LockInv, LockTypeOK, MutualExclusion
  <2>6. Waiting' \cap inside' = {}
    <3>1. p \notin inside
      BY DEF Acquire
    <3>2. \A k \in 1 .. Len(queue) : queue[k] \notin inside
      BY DEF LockInv, NoLostHandover, Waiting
    <3> QED BY <2>1, <2>4, <3>1, <3>2 DEF Waiting
  <2>7. NoLostHandover'
    BY <1>2, <2>1, <2>4, <2>6 DEF LockInv, NoLostHandover
  <2> QED BY <2>5, <2>7 DEF LockInv
<1>3. active \in BOOLEAN
  BY DEF LockInv, LockTypeOK
<1> QED BY <1>1, <1>2, <1>3

\* Unlock keeps the invariant.
LEMMA UnlockInv ==
  ASSUME LockInv, NEW p \in Procs, Unlock(p)
  PROVE  LockInv'
<1>1. inside = {p} /\ active
  BY DEF Unlock, LockInv, LockTypeOK, MutualExclusion, NoLostHandover
<1>2. CASE queue = <<>>
  <2>1. active' = FALSE /\ inside' = {} /\ queue' = <<>>
    BY <1>1, <1>2 DEF Unlock
  <2>2. LockTypeOK' /\ MutualExclusion'
    <3>1. active' \in BOOLEAN
      BY <2>1
    <3>2. queue' \in Seq(Procs) /\ inside' \subseteq Procs
      BY <2>1
    <3> QED BY <2>1, <3>1, <3>2 DEF LockTypeOK, MutualExclusion
  <2>3. Len(queue') = 0 /\ Waiting' \cap inside' = {}
    BY <2>1
  <2>4. NoLostHandover'
    BY <2>1, <2>3 DEF NoLostHandover
  <2> QED BY <2>2, <2>4 DEF LockInv
<1>3. CASE queue # <<>>
  <2>1. inside' = {Head(queue)} /\ queue' = Tail(queue) /\ active' = active
    BY <1>1, <1>3 DEF Unlock
  <2>2. queue \in Seq(Procs) /\ Len(queue) > 0 /\ Head(queue) = queue[1] /\ queue[1] \in Procs
    BY <1>3 DEF LockInv, LockTypeOK
  <2>3. /\ Tail(queue) \in Seq(Procs)
        /\ Len(Tail(queue)) = Len(queue) - 1
        /\ \A i \in 1 .. Len(queue) - 1 : Tail(queue)[i] = queue[i + 1]
    BY <2>2
  <2>4. LockTypeOK' /\ MutualExclusion'
    BY <2>1, <2>2, <2>3 DEF LockInv, LockTypeOK, MutualExclusion
  <2>5. \A i, j \in 1 .. Len(queue) : queue[i] = queue[j] => i = j
    BY DEF LockInv, NoLostHandover
  <2>6. ASSUME NEW i \in 1 .. Len(queue'), NEW j \in 1 .. Len(queue'), queue'[i] = queue'[j]
        PROVE  i = j
    <3>1. i + 1 \in 1 .. Len(queue) /\ j + 1 \in 1 .. Len(queue)
      BY <2>1, <2>2, <2>3
    <3>2. queue[i + 1] = queue[j + 1]
      BY <2>1, <2>2, <2>3, <2>6
    <3>3. i + 1 = j + 1
      BY <2>5, <3>1, <3>2
    <3> QED BY <2>1, <2>2, <2>3, <3>3
  <2>7. ASSUME NEW i \in 1 .. Len(queue')
        PROVE  queue'[i] # Head(queue)
    <3>1. i + 1 \in 1 .. Len(queue) /\ 1 \in 1 .. Len(queue) /\ i + 1 # 1
      BY <2>1, <2>2, <2>3
    <3>2. queue'[i] = queue[i + 1]
      BY <2>1, <2>2, <2>3
    <3> QED BY <2>2, <2>5, <3>1, <3>2
  <2>8. Waiting' \cap inside' = {}
    BY <2>1, <2>7 DEF Waiting
  <2>9. NoLostHandover'
    BY <1>1, <2>1, <2>6, <2>8 DEF NoLostHandover
  <2> QED BY <2>4, <2>9 DEF LockInv
<1> QED BY <1>2, <1>3

\* The invariant holds in every state of the lock.
THEOREM LockInvariant == LockSpec => []LockInv
<1>1. LockInv /\ [LockNext]_lockVars => LockInv'
  <2> SUFFICES ASSUME LockInv, [LockNext]_lockVars PROVE LockInv'
    OBVIOUS
  <2>1. CASE UNCHANGED lockVars
    BY <2>1 DEF lockVars, LockInv, LockTypeOK, MutualExclusion, NoLostHandover, Waiting
  <2>2. CASE LockNext
    <3>1. PICK p \in Procs : Lock(p) \/ Priority(p) \/ Unlock(p)
      BY <2>2 DEF LockNext
    <3>2. CASE Lock(p)
      BY <3>2, AcquireInv DEF Lock
    <3>3. CASE Priority(p)
      BY <3>3, AcquireInv DEF Priority
    <3>4. CASE Unlock(p)
      BY <3>4, UnlockInv
    <3> QED BY <3>1, <3>2, <3>3, <3>4
  <2> QED BY <2>1, <2>2
<1> QED BY <1>1, LockInitInv, PTL DEF LockSpec

\* At most one of the admissions, proposals and commits is between Lock or
\* PriorityLock and Unlock, for any number of callers.
THEOREM LockExcludes == LockSpec => []MutualExclusion
<1>1. LockInv => MutualExclusion
  BY DEF LockInv
<1> QED BY <1>1, LockInvariant, PTL

\* Unlock never drops a waiting caller nor leaves the lock taken by nobody,
\* for any number of callers and any mixture of the two ways to wait.
THEOREM LockHandsOver == LockSpec => []NoLostHandover
<1>1. LockInv => NoLostHandover
  BY DEF LockInv
<1> QED BY <1>1, LockInvariant, PTL
=============================================================================
