---------------------------- MODULE TxPoolProofs ----------------------------
(***************************************************************************)
(* Proofs about TxPool, for any transactions, accounts, admitting          *)
(* goroutines and bounds:                                                  *)
(*   - admissions, proposals, commits and rechecks use the lock as         *)
(*     PriorityLock allows, and the event loop never waits behind an       *)
(*     admission that has not begun;                                       *)
(*   - the cache answers with committed rows, every charge takes the next  *)
(*     nonce, no block makes tokens, and the pool continues the committed  *)
(*     nonces.                                                             *)
(* The second part rests on one inductive invariant (Inv below).  Before   *)
(* it come lemmas on the operators of the model: the account store, the    *)
(* mempool check, the proposal, and the count of a sender's transactions.  *)
(***************************************************************************)
EXTENDS TxPool, PriorityLockProofs, Sums

----------------------------------------------------------------------------
(* The lock.                                                               *)

\* What a step of the node does to the lock.  Only the event loop goes to the
\* front of the line.
LockStep ==
  \/ UNCHANGED lockVars
  \/ \E q \in Admitters : Lock(q) \/ Unlock(q)
  \/ Priority(Loop) \/ Unlock(Loop)

\* Every handler takes or leaves the lock at most once in a step.
LEMMA StepsUseLock == [Next]_vars => LockStep
<1> SUFFICES ASSUME [Next]_vars PROVE LockStep
  OBVIOUS
<1>1. CASE UNCHANGED vars
  BY <1>1 DEF vars, LockStep
<1>2. ASSUME NEW q \in Admitters, AdmissionStep(q)
      PROVE  LockStep
  <2>1. CASE StoreTx(q) \/ CheckTx(q) \/ SignalReady(q) \/ SendReady(q)
    BY <2>1 DEF StoreTx, CheckTx, SignalReady, SendReady, LockStep
  <2>2. CASE LeaveQueueTx(q)
    BY <2>2 DEF LeaveQueueTx, LockStep
  <2> QED BY <1>2, <2>1, <2>2 DEF AdmissionStep
<1>3. CASE LoopStep
  <2>1. CASE NewBlockRound \/ WakeUp \/ ExecuteTx \/ FinishExecution
    BY <2>1 DEF NewBlockRound, WakeUp, ExecuteTx, FinishExecution, LockStep
  <2>2. CASE ProposeBlock \/ BeginCommit \/ BeginRecheck
    BY <2>2 DEF ProposeBlock, BeginCommit, BeginRecheck, LockStep
  <2>3. CASE CommitDB \/ CommitTxApp
    BY <2>3 DEF CommitDB, CommitTxApp, LockStep
  <2>4. CASE CreateBlockProposal \/ FinishCommit \/ FinishRecheck
    BY <2>4 DEF CreateBlockProposal, FinishCommit, FinishRecheck, LockStep
  <2> QED BY <1>3, <2>1, <2>2, <2>3, <2>4 DEF LoopStep
<1>4. CASE Environment
  <2>1. ASSUME NEW q \in Admitters, NEW t \in Txs, QueueTx(q, t)
        PROVE  LockStep
    BY <2>1 DEF QueueTx, LockStep
  <2>2. ASSUME NEW a \in Accts, AccountInfo(a) \/ EvictRecord(a)
        PROVE  LockStep
    BY <2>2 DEF AccountInfo, EvictRecord, LockStep
  <2>3. CASE ReceiveBlock \/ RollbackState \/ CatchupRecheck
    BY <2>3 DEF ReceiveBlock, RollbackState, CatchupRecheck, LockStep
  <2>4. ASSUME NEW T, CancelBlockExecution(T) \/ ResetBlockProp(T)
        PROVE  LockStep
    BY <2>4 DEF CancelBlockExecution, ResetBlockProp, LockStep
  <2> QED BY <1>4, <2>1, <2>2, <2>3, <2>4 DEF Environment
<1> QED BY <1>1, <1>2, <1>3, <1>4 DEF Next

\* Admissions, proposals, commits and rechecks implement the lock: each of
\* their steps is a step of the lock or leaves it alone.
THEOREM ImplementsLock == Spec => LockSpec
<1>1. Init => LockInit
  BY DEF Init
<1>2. [Next]_vars => [LockNext]_lockVars
  <2> SUFFICES ASSUME [Next]_vars PROVE [LockNext]_lockVars
    OBVIOUS
  <2>1. Admitters \subseteq Procs /\ Loop \in Procs
    BY TxAssumption
  <2> QED BY <2>1, StepsUseLock DEF LockStep, LockNext
<1> QED BY <1>1, <1>2, PTL DEF Spec, LockSpec

\* No two of them are ever inside together.
THEOREM PoolExclusion == Spec => []MutualExclusion
BY ImplementsLock, LockExcludes, PTL

\* No caller that waits is forgotten.
THEOREM PoolHandover == Spec => []NoLostHandover
BY ImplementsLock, LockHandsOver, PTL

\* A commit, a proposal or a recheck that waits is at the head of the queue:
\* at most the admission that is inside goes before it.
THEOREM CommitFirst == Spec => []CommitGoesFirst
<1>1. Init => CommitGoesFirst
  <2> SUFFICES ASSUME Init PROVE Loop \notin Waiting
    BY DEF CommitGoesFirst
  <2>1. queue = <<>> /\ Len(queue) = 0
    BY DEF Init, LockInit
  <2> QED BY <2>1 DEF Waiting
<1>2. LockInv /\ CommitGoesFirst /\ [Next]_vars => CommitGoesFirst'
  <2> SUFFICES ASSUME LockInv, CommitGoesFirst, [Next]_vars, Loop \in Waiting'
               PROVE  Head(queue') = Loop
    BY DEF CommitGoesFirst
  <2>1. LockStep
    BY StepsUseLock
  <2>2. /\ queue \in Seq(Procs)
        /\ \A i, j \in 1 .. Len(queue) : queue[i] = queue[j] => i = j
    BY DEF LockInv, LockTypeOK, NoLostHandover
  <2>3. PICK k \in 1 .. Len(queue') : queue'[k] = Loop
    BY DEF Waiting
  <2>4. CASE queue' = queue
    <3>1. Loop \in Waiting
      BY <2>3, <2>4 DEF Waiting
    <3> QED BY <2>4, <3>1 DEF CommitGoesFirst
  <2>5. ASSUME NEW q \in Admitters, queue' = Append(queue, q)
        PROVE  Head(queue') = Loop
    <3>1. q \in Procs /\ q # Loop
      BY TxAssumption
    <3>2. /\ Len(queue') = Len(queue) + 1 /\ queue'[Len(queue) + 1] = q
          /\ \A i \in 1 .. Len(queue) : queue'[i] = queue[i]
      BY <2>2, <2>5, <3>1
    <3>3. k \in 1 .. Len(queue) /\ queue[k] = Loop
      BY <2>2, <2>3, <3>1, <3>2
    <3>4. Loop \in Waiting
      BY <3>3 DEF Waiting
    <3>5. Head(queue) = Loop /\ queue[1] = Loop /\ 1 \in 1 .. Len(queue)
      BY <2>2, <3>3, <3>4 DEF CommitGoesFirst
    <3> QED BY <2>2, <2>5, <3>1, <3>2, <3>5
  <2>6. CASE queue' = <<Loop>> \o queue
    <3>1. Loop \in Procs
      BY TxAssumption
    <3> QED BY <2>2, <2>6, <3>1
  <2>7. CASE queue # <<>> /\ queue' = Tail(queue)
    <3>1. /\ Len(queue) > 0 /\ Head(queue) = queue[1]
          /\ Len(queue') = Len(queue) - 1
          /\ \A i \in 1 .. Len(queue) - 1 : queue'[i] = queue[i + 1]
      BY <2>2, <2>7
    <3>2. k + 1 \in 1 .. Len(queue) /\ queue[k + 1] = Loop
      BY <2>2, <2>3, <3>1
    <3>3. Loop \in Waiting
      BY <3>2 DEF Waiting
    <3>4. queue[1] = Loop /\ 1 \in 1 .. Len(queue)
      BY <2>2, <3>1, <3>3 DEF CommitGoesFirst
    <3>5. k + 1 = 1
      BY <2>2, <3>2, <3>4
    <3> QED BY <2>2, <2>3, <3>1, <3>5
  <2>8. \/ queue' = queue
        \/ \E q \in Admitters : queue' = Append(queue, q)
        \/ queue' = <<Loop>> \o queue
        \/ queue # <<>> /\ queue' = Tail(queue)
    BY <2>1 DEF LockStep, Lock, Priority, Acquire, Unlock, lockVars
  <2> QED BY <2>4, <2>5, <2>6, <2>7, <2>8
<1>3. Spec => []LockInv
  BY ImplementsLock, LockInvariant, PTL
<1> QED BY <1>1, <1>2, <1>3, PTL DEF Spec

----------------------------------------------------------------------------
(* The account store.                                                      *)

\* A row is not the value that stands for a missing one.
LEMMA RowFacts ==
  /\ NoRow \notin Row
  /\ \A r \in Row \cup {NoRow} : OrEmpty(r) \in Row
<1>1. Row \subseteq [bal : Int, nonce : Int]
  BY DEF Row
<1>2. NoRow \notin Row
  BY <1>1, NoRowAssumption
<1>3. ASSUME NEW r \in Row \cup {NoRow} PROVE OrEmpty(r) \in Row
  BY DEF OrEmpty, Row
<1> QED BY <1>2, <1>3

\* Every map of a store gives a row or none for each account.
LEMMA StoreMaps ==
  ASSUME NEW s \in Store
  PROVE  /\ s.db \in Rows /\ s.work \in Rows /\ s.records \in Rows /\ s.updates \in Rows
         /\ \A a \in Accts : /\ s.db[a] \in Row \cup {NoRow}
                             /\ s.work[a] \in Row \cup {NoRow}
                             /\ s.records[a] \in Row \cup {NoRow}
                             /\ s.updates[a] \in Row \cup {NoRow}
<1>1. s.db \in Rows /\ s.work \in Rows /\ s.records \in Rows /\ s.updates \in Rows
  BY DEF Store
<1> QED BY <1>1 DEF Rows

\* getAccount returns a row or nothing.
LEMMA LookupType ==
  ASSUME NEW s \in Store, NEW a \in Accts, NEW u \in BOOLEAN, NEW rows \in Rows
  PROVE  Lookup(s, a, u, rows) \in Row \cup {NoRow}
<1>1. rows[a] \in Row \cup {NoRow}
  BY DEF Rows
<1> QED BY <1>1, StoreMaps DEF Lookup

\* getAccount changes the record of one account at most.
LEMMA CachedFacts ==
  ASSUME NEW s \in Store, NEW a \in Accts, NEW u \in BOOLEAN, NEW rows \in Rows
  PROVE  LET c == Cached(s, a, u, rows)
         IN  /\ c \in Store
             /\ c.db = s.db /\ c.work = s.work /\ c.updates = s.updates
             /\ \A x \in Accts \ {a} : c.records[x] = s.records[x]
             /\ c.records[a] = IF (u /\ s.updates[a] # NoRow) \/ s.records[a] # NoRow
                               THEN s.records[a] ELSE rows[a]
<1> DEFINE c == Cached(s, a, u, rows)
           hit == (u /\ s.updates[a] # NoRow) \/ s.records[a] # NoRow
<1>1. CASE hit
  BY <1>1 DEF Cached
<1>2. CASE ~hit
  <2>1. c = [s EXCEPT !.records[a] = rows[a]]
    BY <1>2 DEF Cached
  <2> DEFINE recs == [s.records EXCEPT ![a] = rows[a]]
  <2>2. recs \in Rows /\ recs[a] = rows[a] /\ \A x \in Accts \ {a} : recs[x] = s.records[x]
    <3>1. s.records \in Rows BY StoreMaps
    <3> QED BY <3>1 DEF Rows
  <2>3. c = [db |-> s.db, work |-> s.work, records |-> recs, updates |-> s.updates]
    BY <2>1 DEF Store
  <2> HIDE DEF recs, c, hit
  <2>4. c \in Store
    BY <2>2, <2>3, StoreMaps DEF Store
  <2>5. c.db = s.db /\ c.work = s.work /\ c.updates = s.updates /\ c.records = recs
    BY <2>3
  <2> QED BY <1>2, <2>2, <2>4, <2>5 DEF c, hit
<1> QED BY <1>1, <1>2

\* c is s with one account written in the table and noted in updates.
Writes(c, s, a, new, row) ==
  c = [[s EXCEPT !.work[a] = new] EXCEPT !.updates[a] = row]

\* Such a write leaves the committed rows, the cache and the other accounts.
LEMMA WritesFacts ==
  ASSUME NEW s \in Store, NEW a \in Accts, NEW new \in Row \cup {NoRow},
         NEW row \in Row, NEW c, Writes(c, s, a, new, row)
  PROVE  /\ c \in Store /\ c.db = s.db /\ c.records = s.records
         /\ c.work[a] = new /\ c.updates[a] = row
         /\ \A x \in Accts \ {a} : c.work[x] = s.work[x] /\ c.updates[x] = s.updates[x]
<1> DEFINE m == [s EXCEPT !.work[a] = new]
           w == [s.work EXCEPT ![a] = new]
           up == [s.updates EXCEPT ![a] = row]
<1>1. m = [db |-> s.db, work |-> w, records |-> s.records, updates |-> s.updates]
  BY DEF Store
<1>2. c = [m EXCEPT !.updates[a] = row]
  BY DEF Writes
<1>3. w \in Rows /\ w[a] = new /\ \A x \in Accts \ {a} : w[x] = s.work[x]
  BY StoreMaps DEF Rows
<1>4. up \in Rows /\ up[a] = row /\ \A x \in Accts \ {a} : up[x] = s.updates[x]
  BY StoreMaps DEF Rows
<1> HIDE DEF m, w
<1>5. m \in Store
  BY <1>1, <1>3, StoreMaps DEF Store
<1>6. c = [db |-> m.db, work |-> m.work, records |-> m.records,
           updates |-> [m.updates EXCEPT ![a] = row]]
  BY <1>2, <1>5 DEF Store
<1>7. m.db = s.db /\ m.work = w /\ m.records = s.records /\ m.updates = s.updates
  BY <1>1
<1>8. c = [db |-> s.db, work |-> w, records |-> s.records, updates |-> up]
  BY <1>6, <1>7
<1> HIDE DEF up
<1>9. c \in Store
  BY <1>3, <1>4, <1>8, StoreMaps DEF Store
<1>10. c.db = s.db /\ c.records = s.records /\ c.work = w /\ c.updates = up
  BY <1>8
<1> QED BY <1>3, <1>4, <1>9, <1>10

\* createAccount writes its row; updateAccount only over another one.
LEMMA AccountWrites ==
  ASSUME NEW s \in Store, NEW a \in Accts, NEW row \in Row
  PROVE  /\ Writes(CreateAccount(s, a, row), s, a, row, row)
         /\ Writes(UpdateAccount(s, a, row), s, a,
                   IF s.work[a] = NoRow THEN NoRow ELSE row, row)
<1>1. Writes(CreateAccount(s, a, row), s, a, row, row)
  BY DEF CreateAccount, Writes
<1>2. Writes(UpdateAccount(s, a, row), s, a,
             IF s.work[a] = NoRow THEN NoRow ELSE row, row)
  BY DEF UpdateAccount, Writes
<1> QED BY <1>1, <1>2

\* The block's own view of an account: its writes if it has any, otherwise the
\* committed row, and then the cache has that row or none.  What the cache has of
\* an account that the block wrote is not looked at before the commit.
Fresh(s, a) ==
  /\ s.updates[a] = NoRow => s.work[a] = s.db[a] /\ s.records[a] \in {NoRow, s.db[a]}
  /\ s.updates[a] # NoRow => s.work[a] = s.updates[a]

\* Spend and Transfer read what the block sees; the reads of checkAndSpend
\* through the cache keep it so.
LEMMA FreshReads ==
  ASSUME NEW s \in Store, NEW a \in Accts, Fresh(s, a)
  PROVE  /\ Lookup(s, a, TRUE, s.work) = s.work[a]
         /\ \A u \in BOOLEAN : Fresh(Cached(s, a, u, s.work), a)
<1>1. Lookup(s, a, TRUE, s.work) = s.work[a]
  BY DEF Fresh, Lookup
<1>2. ASSUME NEW u \in BOOLEAN PROVE Fresh(Cached(s, a, u, s.work), a)
  <2>1. s.work \in Rows BY StoreMaps
  <2> DEFINE c == Cached(s, a, u, s.work)
  <2>2. /\ c.db = s.db /\ c.work = s.work /\ c.updates = s.updates
        /\ c.records[a] = IF (u /\ s.updates[a] # NoRow) \/ s.records[a] # NoRow
                          THEN s.records[a] ELSE s.work[a]
    BY <2>1, CachedFacts
  <2> HIDE DEF c
  <2>3. Fresh(c, a)
    BY <2>2 DEF Fresh
  <2> QED BY <2>3 DEF c
<1> QED BY <1>1, <1>2

\* Fresh looks at one account only.
LEMMA FreshSame ==
  ASSUME NEW s, NEW c, NEW a, Fresh(s, a), c.db = s.db, c.work[a] = s.work[a],
         c.records[a] = s.records[a], c.updates[a] = s.updates[a]
  PROVE  Fresh(c, a)
  BY DEF Fresh

\* getAccount as Spend and Transfer call it changes no row.
LEMMA ReadFacts ==
  ASSUME NEW s \in Store, NEW a \in Accts, NEW u \in BOOLEAN
  PROVE  LET c == Cached(s, a, u, s.work)
         IN  /\ c \in Store /\ c.db = s.db /\ c.work = s.work
             /\ \A x \in Accts : Fresh(s, x) => Fresh(c, x)
<1> DEFINE c == Cached(s, a, u, s.work)
<1>1. s.work \in Rows BY StoreMaps
<1>2. /\ c \in Store
      /\ c.db = s.db /\ c.work = s.work /\ c.updates = s.updates
      /\ \A x \in Accts \ {a} : c.records[x] = s.records[x]
      /\ c.records[a] = IF (u /\ s.updates[a] # NoRow) \/ s.records[a] # NoRow
                        THEN s.records[a] ELSE s.work[a]
  BY <1>1, CachedFacts
<1>3. Fresh(s, a) => Fresh(c, a)
  BY FreshReads
<1> HIDE DEF c
<1>4. ASSUME NEW x \in Accts \ {a}, Fresh(s, x) PROVE Fresh(c, x)
  BY <1>2, <1>4, FreshSame
<1>5. \A x \in Accts : Fresh(s, x) => Fresh(c, x)
  BY <1>3, <1>4
<1> QED BY <1>2, <1>5 DEF c

\* A row is written where the block has one, or creates it.
LEMMA FreshWrites ==
  ASSUME NEW s \in Store, NEW a \in Accts, NEW row \in Row, NEW new \in Row \cup {NoRow},
         NEW c, Writes(c, s, a, new, row)
  PROVE  /\ \A x \in Accts \ {a} : Fresh(s, x) => Fresh(c, x)
         /\ new = row => Fresh(c, a)
<1>1. /\ c.db = s.db /\ c.records = s.records
      /\ c.work[a] = new /\ c.updates[a] = row
      /\ \A x \in Accts \ {a} : c.work[x] = s.work[x] /\ c.updates[x] = s.updates[x]
  BY WritesFacts
<1>2. ASSUME NEW x \in Accts \ {a}, Fresh(s, x) PROVE Fresh(c, x)
  BY <1>1, <1>2, FreshSame
<1>3. row # NoRow
  BY RowFacts
<1>4. new = row => Fresh(c, a)
  BY <1>1, <1>3 DEF Fresh
<1> QED BY <1>2, <1>4

\* Spend takes from one account, which then has the next nonce; what fails
\* changes no row.
LEMMA SpendFacts ==
  ASSUME NEW s \in Store, NEW a \in Accts, NEW amount \in Nat, NEW nonce \in Nat
  PROVE  LET r == Spend(s, a, amount, nonce)
         IN  /\ r.s \in Store /\ r.s.db = s.db
             /\ \A x \in Accts : Fresh(s, x) => Fresh(r.s, x)
             /\ \A x \in Accts \ {a} : r.s.work[x] = s.work[x]
             /\ r.err # "ok" => r.s.work = s.work
             /\ r.err = "ok" /\ Fresh(s, a) =>
                  /\ r.s.work[a] \in Row
                  /\ r.s.work[a].nonce = OrEmpty(s.work[a]).nonce + 1
                  /\ r.s.work[a].nonce = nonce
                  /\ r.s.work[a].bal <= OrEmpty(s.work[a]).bal
<1> DEFINE row == Lookup(s, a, TRUE, s.work)
           c == Cached(s, a, TRUE, s.work)
           first == amount = 0 /\ nonce = 1
           r == Spend(s, a, amount, nonce)
           one == [bal |-> 0, nonce |-> 1]
           less == [bal |-> row.bal - amount, nonce |-> nonce]
           Goal == /\ r.s \in Store /\ r.s.db = s.db
                   /\ \A x \in Accts : Fresh(s, x) => Fresh(r.s, x)
                   /\ \A x \in Accts \ {a} : r.s.work[x] = s.work[x]
                   /\ r.err # "ok" => r.s.work = s.work
                   /\ r.err = "ok" /\ Fresh(s, a) =>
                        /\ r.s.work[a] \in Row
                        /\ r.s.work[a].nonce = OrEmpty(s.work[a]).nonce + 1
                        /\ r.s.work[a].nonce = nonce
                        /\ r.s.work[a].bal <= OrEmpty(s.work[a]).bal
<1>1. s.work \in Rows /\ TRUE \in BOOLEAN
  BY StoreMaps
<1>2. row \in Row \cup {NoRow} /\ NoRow \notin Row
  BY <1>1, LookupType, RowFacts
<1>3. /\ c \in Store /\ c.db = s.db /\ c.work = s.work
      /\ \A x \in Accts : Fresh(s, x) => Fresh(c, x)
  BY <1>1, ReadFacts
<1>4. Fresh(s, a) => row = s.work[a]
  BY FreshReads
<1>5. r = CASE row = NoRow /\ first -> Returns(CreateAccount(c, a, one), "ok")
            [] row = NoRow /\ ~first -> Returns(c, "not found")
            [] row # NoRow /\ row.nonce + 1 # nonce -> Returns(c, "nonce")
            [] row # NoRow /\ row.nonce + 1 = nonce /\ row.bal < amount ->
                 Returns(c, "funds")
            [] OTHER -> Returns(UpdateAccount(c, a, less), "ok")
  BY DEF Spend
<1> SUFFICES Goal
  OBVIOUS
<1> HIDE DEF row, c, r
<1>6. ASSUME NEW e, e # "ok", r = Returns(c, e)
      PROVE  Goal
  <2>1. r.s = c /\ r.err = e
    BY <1>6 DEF Returns
  <2> QED BY <1>3, <1>6, <2>1
<1>7. CASE row = NoRow /\ first
  <2> DEFINE d == CreateAccount(c, a, one)
  <2>1. one \in Row
    BY DEF Row
  <2>2. r.s = d /\ r.err = "ok"
    BY <1>5, <1>7 DEF Returns
  <2>3. Writes(d, c, a, one, one)
    BY <1>3, <2>1, AccountWrites
  <2> HIDE DEF d, one
  <2>4. /\ d \in Store /\ d.db = s.db /\ d.work[a] = one
        /\ \A x \in Accts \ {a} : d.work[x] = s.work[x]
    BY <1>3, <2>1, <2>3, WritesFacts
  <2>5. \A x \in Accts : Fresh(c, x) /\ x # a => Fresh(d, x)
    BY <1>3, <2>1, <2>3, FreshWrites
  <2>6. Fresh(d, a)
    BY <1>3, <2>1, <2>3, FreshWrites
  <2>7. Fresh(s, a) => /\ one \in Row /\ one.nonce = OrEmpty(s.work[a]).nonce + 1
                       /\ one.nonce = nonce /\ one.bal <= OrEmpty(s.work[a]).bal
    BY <1>4, <1>7 DEF one, OrEmpty, Row
  <2> QED BY <1>3, <2>2, <2>4, <2>5, <2>6, <2>7
<1>8. CASE row # NoRow /\ row.nonce + 1 = nonce /\ ~(row.bal < amount)
  <2> DEFINE d == UpdateAccount(c, a, less)
             new == IF c.work[a] = NoRow THEN NoRow ELSE less
  <2>1. less \in Row
    BY <1>2, <1>8 DEF Row
  <2>2. r.s = d /\ r.err = "ok"
    BY <1>5, <1>8 DEF Returns
  <2>3. Writes(d, c, a, new, less) /\ new \in Row \cup {NoRow}
    BY <1>3, <2>1, AccountWrites
  <2>4. Fresh(s, a) => new = less
    BY <1>3, <1>4, <1>8
  <2>5. less.nonce = nonce /\ less.bal = row.bal - amount
    OBVIOUS
  <2> HIDE DEF d, less, new
  <2>6. /\ d \in Store /\ d.db = s.db /\ d.work[a] = new
        /\ \A x \in Accts \ {a} : d.work[x] = s.work[x]
    BY <1>3, <2>1, <2>3, WritesFacts
  <2>7. \A x \in Accts : Fresh(c, x) /\ x # a => Fresh(d, x)
    BY <1>3, <2>1, <2>3, FreshWrites
  <2>8. Fresh(s, a) => Fresh(d, a)
    BY <1>3, <2>1, <2>3, <2>4, FreshWrites
  <2>9. Fresh(s, a) => /\ less \in Row /\ less.nonce = OrEmpty(s.work[a]).nonce + 1
                       /\ less.nonce = nonce /\ less.bal <= OrEmpty(s.work[a]).bal
    BY <1>2, <1>4, <1>8, <2>1, <2>5 DEF OrEmpty, Row
  <2> QED BY <1>3, <2>2, <2>4, <2>6, <2>7, <2>8, <2>9
<1>9. CASE row = NoRow /\ ~first
  <2>1. r = Returns(c, "not found")
    BY <1>5, <1>9
  <2> HIDE DEF Goal
  <2> QED BY <1>6, <2>1
<1>10. CASE row # NoRow /\ row.nonce + 1 # nonce
  <2>1. r = Returns(c, "nonce")
    BY <1>5, <1>10
  <2> HIDE DEF Goal
  <2> QED BY <1>6, <2>1
<1>11. CASE row # NoRow /\ row.nonce + 1 = nonce /\ row.bal < amount
  <2>1. r = Returns(c, "funds")
    BY <1>5, <1>11
  <2> HIDE DEF Goal
  <2> QED BY <1>6, <2>1
<1> HIDE DEF Goal, first
<1> QED BY <1>7, <1>8, <1>9, <1>10, <1>11

\* Transfer writes the receiver: an existing row or a new one.
Credited(s, a, row, amt) ==
  IF row = NoRow THEN CreateAccount(s, a, [bal |-> amt, nonce |-> 0])
  ELSE UpdateAccount(s, a, [row EXCEPT !.bal = @ + amt])

\* Transfer then writes the sender.
Debited(s, a, row, amt) == UpdateAccount(s, a, [row EXCEPT !.bal = @ - amt])

\* The receiver has the amount more.
LEMMA CreditFacts ==
  ASSUME NEW s \in Store, NEW a \in Accts, NEW amt \in Nat, NEW row \in Row \cup {NoRow}
  PROVE  LET c == Credited(s, a, row, amt)
         IN  /\ c \in Store /\ c.db = s.db /\ c.records = s.records
             /\ \A x \in Accts \ {a} : Fresh(s, x) => Fresh(c, x)
             /\ \A x \in Accts \ {a} : c.work[x] = s.work[x]
             /\ row = s.work[a] =>
                  /\ Fresh(c, a) /\ c.work[a] \in Row
                  /\ c.work[a].nonce = OrEmpty(s.work[a]).nonce
                  /\ c.work[a].bal = OrEmpty(s.work[a]).bal + amt
<1> DEFINE c == Credited(s, a, row, amt)
           next == IF row = NoRow THEN [bal |-> amt, nonce |-> 0]
                   ELSE [row EXCEPT !.bal = @ + amt]
           new == IF row = NoRow \/ s.work[a] # NoRow THEN next ELSE NoRow
<1>1. NoRow \notin Row
  BY RowFacts
<1>2. /\ next \in Row
      /\ next.nonce = OrEmpty(row).nonce /\ next.bal = OrEmpty(row).bal + amt
  BY <1>1 DEF Row, OrEmpty
<1>3. Writes(c, s, a, new, next) /\ new \in Row \cup {NoRow}
  <2>1. CASE row = NoRow
    BY <1>2, <2>1, AccountWrites DEF Credited
  <2>2. CASE row # NoRow
    <3> DEFINE more == [row EXCEPT !.bal = @ + amt]
    <3>1. c = UpdateAccount(s, a, more) /\ next = more
      BY <2>2 DEF Credited
    <3>2. more \in Row
      BY <1>2, <3>1
    <3> HIDE DEF more, next, c
    <3>3. Writes(c, s, a, IF s.work[a] = NoRow THEN NoRow ELSE next, next)
      BY <3>1, <3>2, AccountWrites
    <3>4. new = IF s.work[a] = NoRow THEN NoRow ELSE next
      BY <2>2
    <3> QED BY <1>2, <3>3, <3>4
  <2> QED BY <2>1, <2>2
<1>4. row = s.work[a] => new = next
  OBVIOUS
<1> HIDE DEF c, next, new
<1>5. /\ c \in Store /\ c.db = s.db /\ c.records = s.records
      /\ c.work[a] = new
      /\ \A x \in Accts \ {a} : c.work[x] = s.work[x]
  BY <1>2, <1>3, WritesFacts
<1>6. \A x \in Accts \ {a} : Fresh(s, x) => Fresh(c, x)
  BY <1>2, <1>3, FreshWrites
<1>7. row = s.work[a] => Fresh(c, a)
  BY <1>2, <1>3, <1>4, FreshWrites
<1> QED BY <1>2, <1>4, <1>5, <1>6, <1>7 DEF c

\* The sender has the amount less than what Transfer read.
LEMMA DebitFacts ==
  ASSUME NEW s \in Store, NEW a \in Accts, NEW amt \in Nat, NEW row \in Row, amt <= row.bal
  PROVE  LET c == Debited(s, a, row, amt)
         IN  /\ c \in Store /\ c.db = s.db
             /\ \A x \in Accts \ {a} : Fresh(s, x) => Fresh(c, x)
             /\ \A x \in Accts \ {a} : c.work[x] = s.work[x]
             /\ s.work[a] # NoRow =>
                  /\ Fresh(c, a) /\ c.work[a] \in Row
                  /\ c.work[a].nonce = row.nonce
                  /\ c.work[a].bal = row.bal - amt
<1> DEFINE next == [row EXCEPT !.bal = @ - amt]
           c == Debited(s, a, row, amt)
           new == IF s.work[a] = NoRow THEN NoRow ELSE next
<1>1. NoRow \notin Row
  BY RowFacts
<1>2. next \in Row /\ next.nonce = row.nonce /\ next.bal = row.bal - amt
  BY DEF Row
<1>2a. c = UpdateAccount(s, a, next)
  BY DEF Debited
<1> HIDE DEF next, c
<1>3. Writes(c, s, a, new, next) /\ new \in Row \cup {NoRow}
  BY <1>2, <1>2a, AccountWrites
<1>4. s.work[a] # NoRow => new = next
  OBVIOUS
<1> HIDE DEF new
<1>5. /\ c \in Store /\ c.db = s.db
      /\ c.work[a] = new
      /\ \A x \in Accts \ {a} : c.work[x] = s.work[x]
  <2>1. next \in Row /\ Writes(c, s, a, new, next) /\ new \in Row \cup {NoRow}
    BY <1>2, <1>3
  <2>2. /\ c \in Store /\ c.db = s.db /\ c.records = s.records
        /\ c.work[a] = new /\ c.updates[a] = next
        /\ \A x \in Accts \ {a} : c.work[x] = s.work[x] /\ c.updates[x] = s.updates[x]
    BY <2>1, WritesFacts
  <2> QED BY <2>2
<1>6. \A x \in Accts \ {a} : Fresh(s, x) => Fresh(c, x)
  BY <1>2, <1>3, FreshWrites
<1>7. s.work[a] # NoRow => Fresh(c, a)
  BY <1>2, <1>3, <1>4, FreshWrites
<1> QED BY <1>2, <1>4, <1>5, <1>6, <1>7 DEF c

\* The sum of the balances is an integer.
LEMMA TotalFacts ==
  ASSUME NEW rows \in Rows
  PROVE  Total(rows) \in Int
<1> DEFINE f == [a \in Accts |-> OrEmpty(rows[a]).bal]
<1>1. \A a \in Accts : f[a] \in Int
  <2>1. \A a \in Accts : rows[a] \in Row \cup {NoRow}
    BY DEF Rows
  <2>2. \A a \in Accts : OrEmpty(rows[a]) \in Row
    BY <2>1, RowFacts
  <2>3. \A r \in Row : r.bal \in Int
    BY DEF Row
  <2> QED BY <2>2, <2>3
<1>2. IsFiniteSet(Accts) BY TxAssumption
<1>3. Total(rows) = SumFunctionOnSet(f, Accts)
  BY DEF Total, SumFunction
<1> HIDE DEF f
<1> QED BY <1>1, <1>2, <1>3, SumType

\* A row that changes its balance changes the sum by as much.
LEMMA TotalChanged ==
  ASSUME NEW rows \in Rows, NEW next \in Rows, NEW a \in Accts,
         \A x \in Accts \ {a} : next[x] = rows[x]
  PROVE  Total(next) = Total(rows) - OrEmpty(rows[a]).bal + OrEmpty(next[a]).bal
<1> DEFINE f == [x \in Accts |-> OrEmpty(rows[x]).bal]
           g == [x \in Accts |-> OrEmpty(next[x]).bal]
<1>1. \A x \in Accts : f[x] \in Int /\ g[x] \in Int
  <2>1. \A x \in Accts : rows[x] \in Row \cup {NoRow} /\ next[x] \in Row \cup {NoRow}
    BY DEF Rows
  <2>2. \A x \in Accts : OrEmpty(rows[x]) \in Row /\ OrEmpty(next[x]) \in Row
    BY <2>1, RowFacts
  <2>3. \A r \in Row : r.bal \in Int
    BY DEF Row
  <2> QED BY <2>2, <2>3
<1>2. \A x \in Accts : x # a => g[x] = f[x]
  OBVIOUS
<1>3. IsFiniteSet(Accts) BY TxAssumption
<1>4. Total(rows) = SumFunctionOnSet(f, Accts) /\ Total(next) = SumFunctionOnSet(g, Accts)
  BY DEF Total, SumFunction
<1>5. f[a] = OrEmpty(rows[a]).bal /\ g[a] = OrEmpty(next[a]).bal
  OBVIOUS
<1> HIDE DEF f, g
<1> QED BY <1>1, <1>2, <1>3, <1>4, <1>5, SumChanged

\* Transfer keeps the nonces, and the tokens as long as it reads true rows.
LEMMA TransferFacts ==
  ASSUME NEW s \in Store, NEW from \in Accts, NEW to \in Accts, NEW amt \in Nat
  PROVE  LET r == Transfer(s, from, to, amt)
         IN  /\ r.s \in Store /\ r.s.db = s.db
             /\ \A x \in Accts : Fresh(s, x) => Fresh(r.s, x)
             /\ \A x \in Accts : Fresh(s, x) =>
                  OrEmpty(r.s.work[x]).nonce = OrEmpty(s.work[x]).nonce
             /\ (\A x \in Accts : Fresh(s, x)) => Total(r.s.work) <= Total(s.work)
<1> DEFINE sender == Lookup(s, from, TRUE, s.work)
           s1 == Cached(s, from, TRUE, s.work)
           receiver == Lookup(s1, to, TRUE, s1.work)
           s2 == Cached(s1, to, TRUE, s1.work)
           s3 == Credited(s2, to, receiver, amt)
           s4 == Debited(s3, from, sender, amt)
           r == Transfer(s, from, to, amt)
           Goal == /\ r.s \in Store /\ r.s.db = s.db
                   /\ \A x \in Accts : Fresh(s, x) => Fresh(r.s, x)
                   /\ \A x \in Accts : Fresh(s, x) =>
                        OrEmpty(r.s.work[x]).nonce = OrEmpty(s.work[x]).nonce
                   /\ (\A x \in Accts : Fresh(s, x)) => Total(r.s.work) <= Total(s.work)
<1>1. s.work \in Rows /\ TRUE \in BOOLEAN
  BY StoreMaps
<1>2. sender \in Row \cup {NoRow} /\ NoRow \notin Row
  BY <1>1, LookupType, RowFacts
<1>3. Fresh(s, from) => sender = s.work[from]
  BY FreshReads
<1>4. /\ s1 \in Store /\ s1.db = s.db /\ s1.work = s.work
      /\ \A x \in Accts : Fresh(s, x) => Fresh(s1, x)
  BY ReadFacts
<1>5. r = CASE sender = NoRow -> Returns(s1, "not found")
            [] sender # NoRow /\ sender.bal < amt -> Returns(s1, "funds")
            [] OTHER -> Returns(s4, "ok")
  BY DEF Transfer, Credited, Debited
<1> SUFFICES Goal
  OBVIOUS
<1> HIDE DEF sender, s1, r
<1>6. ASSUME NEW e, r = Returns(s1, e) PROVE Goal
  <2>1. r.s = s1
    BY <1>6 DEF Returns
  <2>2. Total(s1.work) \in Int
    BY <1>1, <1>4, TotalFacts
  <2> QED BY <1>4, <2>1, <2>2
<1>7. CASE sender # NoRow /\ ~(sender.bal < amt)
  <2>1. r.s = s4
    BY <1>5, <1>7 DEF Returns
  <2>2. sender \in Row /\ amt <= sender.bal
    BY <1>2, <1>7 DEF Row
  <2>3. receiver \in Row \cup {NoRow}
    BY <1>1, <1>4, LookupType
  <2>4. Fresh(s1, to) => receiver = s1.work[to]
    BY <1>4, FreshReads
  <2>5. /\ s2 \in Store /\ s2.db = s1.db /\ s2.work = s1.work
        /\ \A x \in Accts : Fresh(s1, x) => Fresh(s2, x)
    BY <1>4, ReadFacts
  <2> HIDE DEF receiver, s2
  <2>6. /\ s3 \in Store /\ s3.db = s2.db /\ s3.records = s2.records
        /\ \A x \in Accts \ {to} : Fresh(s2, x) => Fresh(s3, x)
        /\ \A x \in Accts \ {to} : s3.work[x] = s2.work[x]
        /\ receiver = s2.work[to] =>
             /\ Fresh(s3, to) /\ s3.work[to] \in Row
             /\ s3.work[to].nonce = OrEmpty(s2.work[to]).nonce
             /\ s3.work[to].bal = OrEmpty(s2.work[to]).bal + amt
    BY <2>3, <2>5, CreditFacts
  <2> HIDE DEF s3
  <2>7. /\ s4 \in Store /\ s4.db = s3.db
        /\ \A x \in Accts \ {from} : Fresh(s3, x) => Fresh(s4, x)
        /\ \A x \in Accts \ {from} : s4.work[x] = s3.work[x]
        /\ s3.work[from] # NoRow =>
             /\ Fresh(s4, from) /\ s4.work[from] \in Row
             /\ s4.work[from].nonce = sender.nonce
             /\ s4.work[from].bal = sender.bal - amt
    BY <2>2, <2>6, DebitFacts
  <2> HIDE DEF s4
  <2>8. ASSUME Fresh(s, to)
        PROVE  /\ Fresh(s3, to) /\ s3.work[to] \in Row
               /\ s3.work[to].nonce = OrEmpty(s.work[to]).nonce
               /\ s3.work[to].bal = OrEmpty(s.work[to]).bal + amt
    BY <1>4, <2>4, <2>5, <2>6, <2>8
  <2>9. ASSUME Fresh(s, from)
        PROVE  /\ Fresh(s4, from) /\ s4.work[from] \in Row
               /\ s4.work[from].nonce = OrEmpty(s.work[from]).nonce
               /\ s4.work[from].bal = OrEmpty(s.work[from]).bal - amt
    <3>1. sender = s.work[from] /\ OrEmpty(s.work[from]) = sender
      BY <1>3, <1>7, <2>9 DEF OrEmpty
    <3>2. s3.work[from] # NoRow
      <4>1. CASE from = to
        BY <1>2, <2>8, <2>9, <4>1
      <4>2. CASE from # to
        BY <1>4, <1>7, <2>5, <2>6, <3>1, <4>2
      <4> QED BY <4>1, <4>2
    <3> QED BY <2>7, <3>1, <3>2
  <2>10. \A x \in Accts : Fresh(s, x) => Fresh(s4, x)
    <3> SUFFICES ASSUME NEW x \in Accts, Fresh(s, x) PROVE Fresh(s4, x)
      OBVIOUS
    <3>1. CASE x = from
      BY <2>9, <3>1
    <3>2. CASE x # from /\ x = to
      BY <2>7, <2>8, <3>2
    <3>3. CASE x # from /\ x # to
      BY <1>4, <2>5, <2>6, <2>7, <3>3
    <3> QED BY <3>1, <3>2, <3>3
  <2>11. \A x \in Accts : Fresh(s, x) =>
           OrEmpty(s4.work[x]).nonce = OrEmpty(s.work[x]).nonce
    <3> SUFFICES ASSUME NEW x \in Accts, Fresh(s, x)
                 PROVE  OrEmpty(s4.work[x]).nonce = OrEmpty(s.work[x]).nonce
      OBVIOUS
    <3>0. \A w \in Row : OrEmpty(w) = w
      BY <1>2 DEF OrEmpty
    <3>1. CASE x = from
      BY <2>9, <3>0, <3>1
    <3>2. CASE x # from /\ x = to
      BY <2>7, <2>8, <3>0, <3>2
    <3>3. CASE x # from /\ x # to
      BY <1>4, <2>5, <2>6, <2>7, <3>3
    <3> QED BY <3>1, <3>2, <3>3
  <2>12. ASSUME \A x \in Accts : Fresh(s, x)
         PROVE  Total(s4.work) <= Total(s.work)
    <3>0. \A w \in Row : OrEmpty(w) = w /\ w.bal \in Nat
      BY <1>2 DEF OrEmpty, Row
    <3>1. s3.work \in Rows /\ s4.work \in Rows
      BY <2>6, <2>7, StoreMaps
    <3>2. /\ Total(s3.work) = Total(s.work) - OrEmpty(s.work[to]).bal + OrEmpty(s3.work[to]).bal
          /\ Total(s4.work) = Total(s3.work) - OrEmpty(s3.work[from]).bal + OrEmpty(s4.work[from]).bal
      <4>1. \A x \in Accts \ {to} : s3.work[x] = s.work[x]
        BY <1>4, <2>5, <2>6
      <4> QED BY <1>1, <2>7, <3>1, <4>1, TotalChanged
    <3>3. Total(s.work) \in Int /\ OrEmpty(s.work[to]).bal \in Nat /\ OrEmpty(s.work[from]).bal \in Nat
      <4>1. OrEmpty(s.work[to]) \in Row /\ OrEmpty(s.work[from]) \in Row
        BY StoreMaps, RowFacts
      <4> QED BY <1>1, <4>1, TotalFacts DEF Row
    <3>4. /\ OrEmpty(s3.work[to]).bal = OrEmpty(s.work[to]).bal + amt
          /\ OrEmpty(s4.work[from]).bal = OrEmpty(s.work[from]).bal - amt
      BY <2>8, <2>9, <2>12, <3>0
    <3>5. OrEmpty(s3.work[from]).bal >= OrEmpty(s.work[from]).bal
      <4>1. CASE from = to
        BY <3>3, <3>4, <4>1
      <4>2. CASE from # to
        BY <1>4, <2>5, <2>6, <3>3, <4>2
      <4> QED BY <4>1, <4>2
    <3>6. OrEmpty(s3.work[from]).bal \in Nat
      <4>1. OrEmpty(s3.work[from]) \in Row
        BY <2>6, StoreMaps, RowFacts
      <4> QED BY <4>1 DEF Row
    <3> QED BY <3>2, <3>3, <3>4, <3>5, <3>6
  <2> QED BY <1>4, <2>1, <2>5, <2>6, <2>7, <2>10, <2>11, <2>12
<1>8. CASE sender = NoRow
  BY <1>5, <1>6, <1>8
<1>9. CASE sender # NoRow /\ sender.bal < amt
  BY <1>5, <1>6, <1>9
<1> HIDE DEF Goal
<1> QED BY <1>7, <1>8, <1>9

\* c is s after the sender a was charged, or with its rows as before.
Charges(c, s, a, nonce, paid) ==
  /\ c \in Store /\ c.db = s.db
  /\ \A x \in Accts : Fresh(s, x) => Fresh(c, x)
  /\ \A x \in Accts \ {a} : c.work[x] = s.work[x]
  /\ ~paid => c.work = s.work
  /\ paid /\ Fresh(s, a) =>
       /\ c.work[a] \in Row
       /\ c.work[a].nonce = OrEmpty(s.work[a]).nonce + 1
       /\ c.work[a].nonce = nonce
       /\ c.work[a].bal <= OrEmpty(s.work[a]).bal

\* The fields of a transaction have their types.
LEMMA TxFields ==
  ASSUME NEW t \in Txs
  PROVE  /\ t.from \in Accts /\ t.to \in Accts /\ t.nonce \in Nat /\ t.fee \in Nat
         /\ t.price \in Nat /\ t.amt \in Nat /\ t.size \in Nat
  BY TxAssumption

\* checkAndSpend charges the sender once, or not at all.
LEMMA CheckAndSpendFacts ==
  ASSUME NEW s \in Store, NEW t \in Txs
  PROVE  LET c == CheckAndSpend(s, t)
         IN  c.charged \in BOOLEAN /\ Charges(c.s, s, t.from, t.nonce, c.charged)
<1> DEFINE a == t.from
           s0 == Cached(s, a, FALSE, s.work)
           price == IF GasEnabled THEN t.price ELSE 0
           amount == IF t.fee < price THEN t.fee ELSE price
           first == Spend(s0, a, amount, t.nonce)
           rest == OrEmpty(Lookup(first.s, a, FALSE, first.s.work)).bal
           second == Spend(first.s, a, rest, t.nonce)
           c == CheckAndSpend(s, t)
<1>1. a \in Accts /\ t.nonce \in Nat /\ amount \in Nat
  BY TxFields
<1>2. c = CASE first.err = "ok" -> [s |-> first.s, charged |-> TRUE, go |-> t.fee >= price]
            [] first.err = "funds" -> [s |-> second.s, charged |-> second.err = "ok", go |-> FALSE]
            [] OTHER -> [s |-> first.s, charged |-> FALSE, go |-> FALSE]
  BY DEF CheckAndSpend
<1>3. /\ s0 \in Store /\ s0.db = s.db /\ s0.work = s.work
      /\ \A x \in Accts : Fresh(s, x) => Fresh(s0, x)
  BY <1>1, ReadFacts
<1> HIDE DEF a, s0, amount, price, c
<1>4. /\ first.s \in Store /\ first.s.db = s0.db
      /\ \A x \in Accts : Fresh(s0, x) => Fresh(first.s, x)
      /\ \A x \in Accts \ {a} : first.s.work[x] = s0.work[x]
      /\ first.err # "ok" => first.s.work = s0.work
      /\ first.err = "ok" /\ Fresh(s0, a) =>
           /\ first.s.work[a] \in Row
           /\ first.s.work[a].nonce = OrEmpty(s0.work[a]).nonce + 1
           /\ first.s.work[a].nonce = t.nonce
           /\ first.s.work[a].bal <= OrEmpty(s0.work[a]).bal
  BY <1>1, <1>3, SpendFacts
<1> HIDE DEF first
<1>5. rest \in Nat
  <2>1. first.s.work \in Rows /\ FALSE \in BOOLEAN
    BY <1>4, StoreMaps
  <2>2. OrEmpty(Lookup(first.s, a, FALSE, first.s.work)) \in Row
    BY <1>1, <1>4, <2>1, LookupType, RowFacts
  <2> QED BY <2>2 DEF Row
<1> HIDE DEF rest
<1>6. /\ second.s \in Store /\ second.s.db = first.s.db
      /\ \A x \in Accts : Fresh(first.s, x) => Fresh(second.s, x)
      /\ \A x \in Accts \ {a} : second.s.work[x] = first.s.work[x]
      /\ second.err # "ok" => second.s.work = first.s.work
      /\ second.err = "ok" /\ Fresh(first.s, a) =>
           /\ second.s.work[a] \in Row
           /\ second.s.work[a].nonce = OrEmpty(first.s.work[a]).nonce + 1
           /\ second.s.work[a].nonce = t.nonce
           /\ second.s.work[a].bal <= OrEmpty(first.s.work[a]).bal
  BY <1>1, <1>4, <1>5, SpendFacts
<1> HIDE DEF second
<1>7. Charges(first.s, s, a, t.nonce, first.err = "ok")
  BY <1>1, <1>3, <1>4 DEF Charges
<1>8. first.err # "ok" => Charges(second.s, s, a, t.nonce, second.err = "ok")
  <2> SUFFICES ASSUME first.err # "ok"
               PROVE  Charges(second.s, s, a, t.nonce, second.err = "ok")
    OBVIOUS
  <2>1. first.s.work = s.work /\ first.s.db = s.db
        /\ \A x \in Accts : Fresh(s, x) => Fresh(first.s, x)
    BY <1>3, <1>4
  <2> QED BY <1>1, <1>6, <2>1 DEF Charges
<1>9. CASE first.err = "ok"
  <2>1. c.s = first.s /\ c.charged = TRUE
    BY <1>2, <1>9
  <2>2. (first.err = "ok") = TRUE
    BY <1>9
  <2>3. Charges(first.s, s, a, t.nonce, TRUE)
    BY <1>7, <2>2
  <2> QED BY <2>1, <2>3 DEF a, c
<1>10. CASE first.err = "funds"
  <2>1. c.s = second.s /\ c.charged = (second.err = "ok")
    BY <1>2, <1>10
  <2>2. Charges(second.s, s, a, t.nonce, second.err = "ok")
    BY <1>8, <1>10
  <2> QED BY <2>1, <2>2 DEF a, c
<1>11. CASE first.err # "ok" /\ first.err # "funds"
  <2>1. c.s = first.s /\ c.charged = FALSE
    BY <1>2, <1>11
  <2>2. (first.err = "ok") = FALSE
    BY <1>11
  <2>3. Charges(first.s, s, a, t.nonce, FALSE)
    BY <1>7, <2>2
  <2> QED BY <2>1, <2>3 DEF a, c
<1> QED BY <1>9, <1>10, <1>11

\* Executing a transaction counts the charge in the sender's nonce, moves no
\* other nonce, and makes no tokens as long as every row it reads is true.
LEMMA ExecuteFacts ==
  ASSUME NEW s \in Store, NEW t \in Txs
  PROVE  LET r == ExecuteRoute(s, t)
         IN  /\ r.s \in Store /\ r.s.db = s.db /\ r.charged \in BOOLEAN
             /\ \A x \in Accts : Fresh(s, x) => Fresh(r.s, x)
             /\ \A x \in Accts : Fresh(s, x) =>
                  OrEmpty(r.s.work[x]).nonce
                    = OrEmpty(s.work[x]).nonce + IF r.charged /\ x = t.from THEN 1 ELSE 0
             /\ r.charged /\ Fresh(s, t.from) =>
                  t.nonce = OrEmpty(s.work[t.from]).nonce + 1
             /\ (\A x \in Accts : Fresh(s, x)) => Total(r.s.work) <= Total(s.work)
<1> DEFINE c == CheckAndSpend(s, t)
           a == t.from
           d == Transfer(c.s, a, t.to, t.amt)
           r == ExecuteRoute(s, t)
<1>1. a \in Accts /\ t.to \in Accts /\ t.nonce \in Nat /\ t.amt \in Nat
  BY TxFields
<1>2. c.charged \in BOOLEAN /\ Charges(c.s, s, a, t.nonce, c.charged)
  BY CheckAndSpendFacts
<1>3. r.charged = c.charged /\ (r.s = c.s \/ r.s = d.s)
  BY DEF ExecuteRoute
<1> HIDE DEF c, r
<1>4. c.s \in Store
  BY <1>2 DEF Charges
<1>5. /\ d.s \in Store /\ d.s.db = c.s.db
      /\ \A x \in Accts : Fresh(c.s, x) => Fresh(d.s, x)
      /\ \A x \in Accts : Fresh(c.s, x) =>
           OrEmpty(d.s.work[x]).nonce = OrEmpty(c.s.work[x]).nonce
      /\ (\A x \in Accts : Fresh(c.s, x)) => Total(d.s.work) <= Total(c.s.work)
  BY <1>1, <1>4, TransferFacts
<1> HIDE DEF d
<1>6. NoRow \notin Row
  BY RowFacts
<1>7. \A x \in Accts : OrEmpty(s.work[x]).nonce \in Nat /\ OrEmpty(s.work[x]).bal \in Nat
  <2>1. \A x \in Accts : OrEmpty(s.work[x]) \in Row
    BY StoreMaps, RowFacts
  <2> QED BY <2>1 DEF Row
<1>8. /\ c.s.db = s.db /\ \A x \in Accts : Fresh(s, x) => Fresh(c.s, x)
      /\ \A x \in Accts \ {a} : c.s.work[x] = s.work[x]
      /\ ~c.charged => c.s.work = s.work
  BY <1>2 DEF Charges
<1>9. c.charged /\ Fresh(s, a) =>
           /\ OrEmpty(c.s.work[a]) = c.s.work[a]
           /\ c.s.work[a].nonce = OrEmpty(s.work[a]).nonce + 1
           /\ c.s.work[a].nonce = t.nonce
           /\ c.s.work[a].bal <= OrEmpty(s.work[a]).bal
           /\ c.s.work[a].bal \in Nat
  BY <1>2, <1>6 DEF Charges, OrEmpty, Row
<1>10. ASSUME NEW x \in Accts, Fresh(s, x)
       PROVE  OrEmpty(c.s.work[x]).nonce
                = OrEmpty(s.work[x]).nonce + IF c.charged /\ x = a THEN 1 ELSE 0
  BY <1>7, <1>8, <1>9, <1>10
<1>11. ASSUME \A x \in Accts : Fresh(s, x)
       PROVE  Total(c.s.work) <= Total(s.work)
  <2>1. s.work \in Rows /\ c.s.work \in Rows
    BY <1>4, StoreMaps
  <2>2. Total(c.s.work) = Total(s.work) - OrEmpty(s.work[a]).bal + OrEmpty(c.s.work[a]).bal
    BY <1>1, <1>8, <2>1, TotalChanged
  <2>3. Total(s.work) \in Int
    BY <2>1, TotalFacts
  <2>4. OrEmpty(c.s.work[a]).bal <= OrEmpty(s.work[a]).bal /\ OrEmpty(c.s.work[a]).bal \in Nat
    BY <1>1, <1>7, <1>8, <1>9, <1>11
  <2> QED BY <1>1, <1>7, <2>2, <2>3, <2>4
<1>12. /\ r.s \in Store /\ r.s.db = s.db
       /\ \A x \in Accts : Fresh(s, x) => Fresh(r.s, x)
  BY <1>3, <1>4, <1>5, <1>8
<1>13. \A x \in Accts : Fresh(s, x) =>
         OrEmpty(r.s.work[x]).nonce
           = OrEmpty(s.work[x]).nonce + IF r.charged /\ x = a THEN 1 ELSE 0
  BY <1>3, <1>5, <1>8, <1>10
<1>14. r.charged /\ Fresh(s, a) => t.nonce = OrEmpty(s.work[a]).nonce + 1
  BY <1>3, <1>9
<1>15. (\A x \in Accts : Fresh(s, x)) => Total(r.s.work) <= Total(s.work)
  <2>1. Total(s.work) \in Int /\ Total(c.s.work) \in Int /\ Total(d.s.work) \in Int
    BY <1>4, <1>5, StoreMaps, TotalFacts
  <2> QED BY <1>3, <1>5, <1>8, <1>11, <2>1
<1> QED BY <1>2, <1>3, <1>12, <1>13, <1>14, <1>15 DEF r

----------------------------------------------------------------------------
(* The folds over the transactions of a list.  Each of them is shown to    *)
(* pass through the values its prefixes give, from left to right.          *)

\* One transaction of Without
DropStep(r, t, T) == IF t \in T THEN r ELSE Append(r, t)

\* One transaction of SizeOf
SizeStep(r, t) == r + t.size

\* Without(s, T) drops the members of T one by one.
LEMMA WithoutSteps ==
  ASSUME NEW T, NEW X, NEW s \in Seq(X)
  PROVE  \E g \in [0 .. Len(s) -> Seq(X)] :
           /\ g[0] = <<>> /\ Without(s, T) = g[Len(s)]
           /\ \A k \in 1 .. Len(s) : g[k] = DropStep(g[k - 1], s[k], T)
<1> DEFINE n == Len(s)
           V == Seq(X)
           base == <<>>
           H == [k \in 1 .. n |-> [r \in V |-> DropStep(r, s[k], T)]]
           body(f) == [x \in SUBSET (1 .. n) |->
                         IF x = {} THEN base ELSE DropStep(f[x \ {Max(x)}], s[Max(x)], T)]
           F == CHOOSE f : f = body(f)
<1>1. n \in Nat /\ DOMAIN s = 1 .. n /\ \A k \in 1 .. n : s[k] \in X
  OBVIOUS
<1>2. Without(s, T) = F[1 .. n]
  BY <1>1 DEF Without, FoldLeft, MapThenFoldSet, DropStep
<1>3. base \in V /\ \A r \in V, t \in X : DropStep(r, t, T) \in V
  BY DEF DropStep
<1>4. H \in [1 .. n -> [V -> V]]
  <2> HIDE DEF n, V
  <2> QED BY <1>1, <1>3
<1>5. \A k \in 1 .. n, r \in V : H[k][r] = DropStep(r, s[k], T)
  OBVIOUS
<1> HIDE DEF n, V, H, base
<1>6. PICK h \in [SUBSET (1 .. n) -> V] : FoldsTo(h, n, base, H)
  BY <1>1, <1>3, <1>4, FoldExists
<1>7. ASSUME NEW x \in SUBSET (1 .. n), x # {}
      PROVE  Max(x) \in 1 .. n /\ x \ {Max(x)} \in SUBSET (1 .. n)
  BY <1>1, <1>7, MaxInterval
<1>8. h = body(h)
  <2>1. ASSUME NEW x \in SUBSET (1 .. n)
        PROVE  h[x] = IF x = {} THEN base
                      ELSE DropStep(h[x \ {Max(x)}], s[Max(x)], T)
    <3>1. CASE x = {}
      BY <1>6, <3>1 DEF FoldsTo
    <3>2. CASE x # {}
      <4>1. h[x] = H[Max(x)][h[x \ {Max(x)}]]
        BY <1>6, <3>2 DEF FoldsTo
      <4> QED BY <1>5, <1>7, <3>2, <4>1
    <3> QED BY <3>1, <3>2
  <2> QED BY <2>1
<1>9. F = body(F)
  <2> HIDE DEF body
  <2> QED BY <1>8
<1>10. Takes(F, n, V, base, H)
  <2> HIDE DEF F
  <2>1. F[{}] = base
    BY <1>9
  <2>2. ASSUME NEW x \in SUBSET (1 .. n), x # {}, F[x \ {Max(x)}] \in V
        PROVE  F[x] = H[Max(x)][F[x \ {Max(x)}]]
    BY <1>5, <1>7, <1>9, <2>2
  <2> QED BY <2>1, <2>2 DEF Takes
<1> HIDE DEF F
<1>11. PICK g \in [0 .. n -> V] : Stepwise(g, n, base, H, F[1 .. n])
  BY <1>1, <1>3, <1>4, <1>10, FoldPrefixes
<1>12. \A k \in 1 .. n : g[k] = DropStep(g[k - 1], s[k], T)
  BY <1>1, <1>5, <1>11 DEF Stepwise
<1>13. g[0] = base /\ Without(s, T) = g[n]
  BY <1>2, <1>11 DEF Stepwise
<1> QED BY <1>12, <1>13 DEF n, V, base

\* The size of a list adds up.
LEMMA SizeOfSteps ==
  ASSUME NEW s \in Seq(Txs)
  PROVE  \E g \in [0 .. Len(s) -> Nat] :
           /\ g[0] = 0 /\ SizeOf(s) = g[Len(s)]
           /\ \A k \in 1 .. Len(s) : g[k] = SizeStep(g[k - 1], s[k])
<1> DEFINE n == Len(s)
           V == Nat
           base == 0
           H == [k \in 1 .. n |-> [r \in V |-> SizeStep(r, s[k])]]
           body(f) == [x \in SUBSET (1 .. n) |->
                         IF x = {} THEN base ELSE SizeStep(f[x \ {Max(x)}], s[Max(x)])]
           F == CHOOSE f : f = body(f)
<1>1. n \in Nat /\ DOMAIN s = 1 .. n /\ \A k \in 1 .. n : s[k] \in Txs
  OBVIOUS
<1>2. SizeOf(s) = F[1 .. n]
  BY <1>1 DEF SizeOf, FoldLeft, MapThenFoldSet, SizeStep
<1>3. base \in V /\ \A r \in V, t \in Txs : SizeStep(r, t) \in V
  BY TxFields DEF SizeStep
<1>4. H \in [1 .. n -> [V -> V]]
  <2> HIDE DEF n, V
  <2> QED BY <1>1, <1>3
<1>5. \A k \in 1 .. n, r \in V : H[k][r] = SizeStep(r, s[k])
  OBVIOUS
<1> HIDE DEF n, V, H, base
<1>6. PICK h \in [SUBSET (1 .. n) -> V] : FoldsTo(h, n, base, H)
  BY <1>1, <1>3, <1>4, FoldExists
<1>7. ASSUME NEW x \in SUBSET (1 .. n), x # {}
      PROVE  Max(x) \in 1 .. n /\ x \ {Max(x)} \in SUBSET (1 .. n)
  BY <1>1, <1>7, MaxInterval
<1>8. h = body(h)
  <2>1. ASSUME NEW x \in SUBSET (1 .. n)
        PROVE  h[x] = IF x = {} THEN base
                      ELSE SizeStep(h[x \ {Max(x)}], s[Max(x)])
    <3>1. CASE x = {}
      BY <1>6, <3>1 DEF FoldsTo
    <3>2. CASE x # {}
      <4>1. h[x] = H[Max(x)][h[x \ {Max(x)}]]
        BY <1>6, <3>2 DEF FoldsTo
      <4> QED BY <1>5, <1>7, <3>2, <4>1
    <3> QED BY <3>1, <3>2
  <2> QED BY <2>1
<1>9. F = body(F)
  <2> HIDE DEF body
  <2> QED BY <1>8
<1>10. Takes(F, n, V, base, H)
  <2> HIDE DEF F
  <2>1. F[{}] = base
    BY <1>9
  <2>2. ASSUME NEW x \in SUBSET (1 .. n), x # {}, F[x \ {Max(x)}] \in V
        PROVE  F[x] = H[Max(x)][F[x \ {Max(x)}]]
    BY <1>5, <1>7, <1>9, <2>2
  <2> QED BY <2>1, <2>2 DEF Takes
<1> HIDE DEF F
<1>11. PICK g \in [0 .. n -> V] : Stepwise(g, n, base, H, F[1 .. n])
  BY <1>1, <1>3, <1>4, <1>10, FoldPrefixes
<1>12. \A k \in 1 .. n : g[k] = SizeStep(g[k - 1], s[k])
  BY <1>1, <1>5, <1>11 DEF Stepwise
<1>13. g[0] = base /\ SizeOf(s) = g[n]
  BY <1>2, <1>11 DEF Stepwise
<1> QED BY <1>12, <1>13 DEF n, V, base

----------------------------------------------------------------------------
(* The mempool check.                                                      *)

\* A state of the mempool: the unconfirmed accounts and the store.
MState == [unconf : Rows, acc : Store]

\* c is s after reads of committed rows through the cache, and evictions.
Reads(s, c) ==
  /\ c \in Store /\ c.db = s.db /\ c.work = s.work /\ c.updates = s.updates
  /\ \A x \in Accts : c.records[x] \in {s.records[x], s.db[x], NoRow}

\* Reads after reads are reads.
LEMMA ReadsTwice ==
  ASSUME NEW s, NEW c, NEW d, Reads(s, c), Reads(c, d)
  PROVE  Reads(s, d)
  BY DEF Reads

\* No read at all is a special case.
LEMMA ReadsNothing ==
  ASSUME NEW s \in Store
  PROVE  Reads(s, s)
  BY DEF Reads

\* The account the check sees: unconfirmed, or from the store.
Seen(m, a) ==
  IF m.unconf[a] # NoRow THEN m.unconf[a] ELSE OrEmpty(Lookup(m.acc, a, FALSE, m.acc.db))

\* The check always sees a row, if an empty one.
LEMMA MStateMaps ==
  ASSUME NEW m \in MState
  PROVE  /\ m.unconf \in Rows /\ m.acc \in Store
         /\ \A a \in Accts : m.unconf[a] \in Row \cup {NoRow} /\ Seen(m, a) \in Row
<1>1. m.unconf \in Rows /\ m.acc \in Store
  BY DEF MState
<1>2. \A a \in Accts : m.unconf[a] \in Row \cup {NoRow}
  BY <1>1 DEF Rows
<1>3. ASSUME NEW a \in Accts PROVE Seen(m, a) \in Row
  <2>1. m.acc.db \in Rows /\ FALSE \in BOOLEAN
    BY <1>1, StoreMaps
  <2>2. OrEmpty(Lookup(m.acc, a, FALSE, m.acc.db)) \in Row
    BY <1>1, <2>1, LookupType, RowFacts
  <2> QED BY <1>2, <2>2 DEF Seen
<1> QED BY <1>1, <1>2, <1>3

\* accountInfo leaves what it saw in the unconfirmed accounts.
LEMMA WithAccountFacts ==
  ASSUME NEW m \in MState, NEW a \in Accts
  PROVE  LET c == WithAccount(m, a)
         IN  /\ c \in MState /\ Reads(m.acc, c.acc)
             /\ c.unconf = [m.unconf EXCEPT ![a] = Seen(m, a)]
<1> DEFINE c == WithAccount(m, a)
<1>1. m.unconf \in Rows /\ m.acc \in Store /\ Seen(m, a) \in Row
  BY MStateMaps
<1>2. CASE m.unconf[a] # NoRow
  <2>1. c = m /\ Seen(m, a) = m.unconf[a]
    BY <1>2 DEF WithAccount, Seen
  <2>2. m.unconf = [m.unconf EXCEPT ![a] = m.unconf[a]]
    BY <1>1 DEF Rows
  <2> HIDE DEF c
  <2> QED BY <1>1, <2>1, <2>2, ReadsNothing DEF c
<1>3. CASE m.unconf[a] = NoRow
  <2> DEFINE u == [m.unconf EXCEPT ![a] = Seen(m, a)]
             d == Cached(m.acc, a, FALSE, m.acc.db)
  <2>1. c = [unconf |-> u, acc |-> d]
    BY <1>3 DEF WithAccount, Seen
  <2>2. u \in Rows
    BY <1>1 DEF Rows
  <2>3. Reads(m.acc, d)
    <3>1. m.acc.db \in Rows /\ FALSE \in BOOLEAN
      BY <1>1, StoreMaps
    <3>2. /\ d \in Store
          /\ d.db = m.acc.db /\ d.work = m.acc.work /\ d.updates = m.acc.updates
          /\ \A x \in Accts \ {a} : d.records[x] = m.acc.records[x]
          /\ d.records[a] = IF (FALSE /\ m.acc.updates[a] # NoRow) \/ m.acc.records[a] # NoRow
                            THEN m.acc.records[a] ELSE m.acc.db[a]
      BY <1>1, <3>1, CachedFacts
    <3> HIDE DEF d
    <3> QED BY <3>2 DEF Reads
  <2> HIDE DEF u, d, c
  <2>4. c.unconf = u /\ c.acc = d
    BY <2>1
  <2>5. c \in MState
    BY <2>1, <2>2, <2>3 DEF MState, Reads
  <2> QED BY <2>3, <2>4, <2>5 DEF u, c
<1> QED BY <1>2, <1>3

\* The check of a transaction looks at its sender: the sender that passes has
\* the transaction's nonce, the one that does not stays as it was seen.
LEMMA ApplyFacts ==
  ASSUME NEW m \in MState, NEW t \in Txs
  PROVE  LET c == ApplyTransaction(m, t)
             row == Seen(m, t.from)
         IN  /\ c.m \in MState /\ Reads(m.acc, c.m.acc)
             /\ c.m.unconf = [m.unconf EXCEPT ![t.from] =
                                IF Admissible(row, t) THEN AfterSpend(row, t) ELSE row]
             /\ c.err = IF Admissible(row, t) THEN "ok" ELSE "rejected"
             /\ AfterSpend(row, t) \in Row
<1> DEFINE a == t.from
           w == WithAccount(m, a)
           row == Seen(m, a)
           rest == AfterSpend(row, t)
           c == ApplyTransaction(m, t)
<1>1. a \in Accts /\ t.nonce \in Nat /\ t.fee \in Nat /\ t.amt \in Nat
  BY TxFields
<1>2. w \in MState /\ Reads(m.acc, w.acc) /\ w.unconf = [m.unconf EXCEPT ![a] = row]
  BY <1>1, WithAccountFacts
<1>3. row \in Row /\ m.unconf \in Rows
  BY <1>1, MStateMaps
<1>4. w.unconf[a] = row
  BY <1>1, <1>2, <1>3 DEF Rows
<1>5. c = IF Admissible(row, t)
          THEN [m |-> [w EXCEPT !.unconf[a] = rest], err |-> "ok"]
          ELSE [m |-> w, err |-> "rejected"]
  BY <1>4 DEF ApplyTransaction
<1>6. rest \in Row
  <2> HIDE DEF row, a
  <2> QED BY <1>1, <1>3 DEF AfterSpend, Row
<1> HIDE DEF w, row, rest, c
<1>7. CASE Admissible(row, t)
  <2>1. c.m = [w EXCEPT !.unconf[a] = rest] /\ c.err = "ok"
    BY <1>5, <1>7
  <2> DEFINE u == [w.unconf EXCEPT ![a] = rest]
  <2>2. c.m = [unconf |-> u, acc |-> w.acc]
    BY <1>2, <2>1 DEF MState
  <2>3. u = [m.unconf EXCEPT ![a] = rest] /\ u \in Rows
    BY <1>1, <1>2, <1>3, <1>6 DEF Rows
  <2>4. w.acc \in Store
    BY <1>2 DEF MState
  <2> HIDE DEF u
  <2>5. c.m \in MState /\ c.m.acc = w.acc /\ c.m.unconf = u
    BY <2>2, <2>3, <2>4 DEF MState
  <2> QED BY <1>2, <1>6, <1>7, <2>1, <2>3, <2>5 DEF c, row, rest
<1>8. CASE ~Admissible(row, t)
  <2>1. c.m = w /\ c.err = "rejected"
    BY <1>5, <1>8
  <2> QED BY <1>2, <1>6, <1>8, <2>1 DEF c, row, rest
<1> QED BY <1>7, <1>8

\* One transaction of Recheck
RecheckStep(r, t) ==
  LET c == ApplyTransaction(r.m, t)
  IN  [m |-> c.m, keep |-> IF c.err = "ok" THEN Append(r.keep, t) ELSE r.keep]

\* RecheckTxs checks one transaction after another.
LEMMA RecheckSteps ==
  ASSUME NEW m \in MState, NEW s \in Seq(Txs)
  PROVE  \E g \in [0 .. Len(s) -> [m : MState, keep : Seq(Txs)]] :
           /\ g[0] = [m |-> m, keep |-> <<>>] /\ Recheck(m, s) = g[Len(s)]
           /\ \A k \in 1 .. Len(s) : g[k] = RecheckStep(g[k - 1], s[k])
<1> DEFINE n == Len(s)
           V == [m : MState, keep : Seq(Txs)]
           base == [m |-> m, keep |-> <<>>]
           H == [k \in 1 .. n |-> [r \in V |-> RecheckStep(r, s[k])]]
           body(f) == [x \in SUBSET (1 .. n) |->
                         IF x = {} THEN base ELSE RecheckStep(f[x \ {Max(x)}], s[Max(x)])]
           F == CHOOSE f : f = body(f)
<1>1. n \in Nat /\ DOMAIN s = 1 .. n /\ \A k \in 1 .. n : s[k] \in Txs
  OBVIOUS
<1>2. Recheck(m, s) = F[1 .. n]
  BY <1>1 DEF Recheck, FoldLeft, MapThenFoldSet, RecheckStep
<1>3. base \in V /\ \A r \in V, t \in Txs : RecheckStep(r, t) \in V
  <2>1. base \in V
    OBVIOUS
  <2>2. ASSUME NEW r \in V, NEW t \in Txs PROVE RecheckStep(r, t) \in V
    <3> DEFINE c == ApplyTransaction(r.m, t)
               keep == IF c.err = "ok" THEN Append(r.keep, t) ELSE r.keep
    <3>1. r.m \in MState /\ r.keep \in Seq(Txs)
      OBVIOUS
    <3>2. c.m \in MState
      BY <3>1, ApplyFacts
    <3>3. keep \in Seq(Txs)
      BY <3>1
    <3>4. RecheckStep(r, t) = [m |-> c.m, keep |-> keep]
      BY DEF RecheckStep
    <3> HIDE DEF c, keep
    <3> QED BY <3>2, <3>3, <3>4
  <2> QED BY <2>1, <2>2
<1>4. H \in [1 .. n -> [V -> V]]
  <2> HIDE DEF n, V
  <2> QED BY <1>1, <1>3
<1>5. \A k \in 1 .. n, r \in V : H[k][r] = RecheckStep(r, s[k])
  OBVIOUS
<1> HIDE DEF n, V, H, base
<1>6. PICK h \in [SUBSET (1 .. n) -> V] : FoldsTo(h, n, base, H)
  BY <1>1, <1>3, <1>4, FoldExists
<1>7. ASSUME NEW x \in SUBSET (1 .. n), x # {}
      PROVE  Max(x) \in 1 .. n /\ x \ {Max(x)} \in SUBSET (1 .. n)
  BY <1>1, <1>7, MaxInterval
<1>8. h = body(h)
  <2>1. ASSUME NEW x \in SUBSET (1 .. n)
        PROVE  h[x] = IF x = {} THEN base
                      ELSE RecheckStep(h[x \ {Max(x)}], s[Max(x)])
    <3>1. CASE x = {}
      BY <1>6, <3>1 DEF FoldsTo
    <3>2. CASE x # {}
      <4>1. h[x] = H[Max(x)][h[x \ {Max(x)}]]
        BY <1>6, <3>2 DEF FoldsTo
      <4> QED BY <1>5, <1>7, <3>2, <4>1
    <3> QED BY <3>1, <3>2
  <2> QED BY <2>1
<1>9. F = body(F)
  <2> HIDE DEF body
  <2> QED BY <1>8
<1>10. Takes(F, n, V, base, H)
  <2> HIDE DEF F
  <2>1. F[{}] = base
    BY <1>9
  <2>2. ASSUME NEW x \in SUBSET (1 .. n), x # {}, F[x \ {Max(x)}] \in V
        PROVE  F[x] = H[Max(x)][F[x \ {Max(x)}]]
    BY <1>5, <1>7, <1>9, <2>2
  <2> QED BY <2>1, <2>2 DEF Takes
<1> HIDE DEF F
<1>11. PICK g \in [0 .. n -> V] : Stepwise(g, n, base, H, F[1 .. n])
  BY <1>1, <1>3, <1>4, <1>10, FoldPrefixes
<1>12. \A k \in 1 .. n : g[k] = RecheckStep(g[k - 1], s[k])
  BY <1>1, <1>5, <1>11 DEF Stepwise
<1>13. g[0] = base /\ Recheck(m, s) = g[n]
  BY <1>2, <1>11 DEF Stepwise
<1> QED BY <1>12, <1>13 DEF n, V, base

----------------------------------------------------------------------------
(* The proposal.                                                           *)

\* One transaction of Screened
ScreenStep(r, t) ==
  IF t.nonce = r.last[t.from] \/ Unfunded(OrEmpty(Lookup(acc, t.from, FALSE, acc.db)))
  THEN [r EXCEPT !.invalid = @ \cup {t}]
  ELSE [r EXCEPT !.keep = Append(@, t), !.last[t.from] = t.nonce]

\* The values Screened passes through
ScreenState == [keep : Seq(Txs), invalid : SUBSET Txs, last : [Accts -> Int]]

\* Screening notes the transaction as invalid, or its nonce as the sender's last.
LEMMA ScreenStepFacts ==
  ASSUME NEW r \in ScreenState, NEW t \in Txs
  PROVE  LET c == ScreenStep(r, t)
             bad == t.nonce = r.last[t.from]
                    \/ Unfunded(OrEmpty(Lookup(acc, t.from, FALSE, acc.db)))
         IN  /\ c \in ScreenState
             /\ c.invalid = IF bad THEN r.invalid \cup {t} ELSE r.invalid
             /\ c.last = IF bad THEN r.last ELSE [r.last EXCEPT ![t.from] = t.nonce]
<1> DEFINE bad == t.nonce = r.last[t.from]
                  \/ Unfunded(OrEmpty(Lookup(acc, t.from, FALSE, acc.db)))
           c == ScreenStep(r, t)
<1>1. r.keep \in Seq(Txs) /\ r.invalid \in SUBSET Txs /\ r.last \in [Accts -> Int]
  BY DEF ScreenState
<1>2. t.from \in Accts /\ t.nonce \in Nat
  BY TxFields
<1>3. CASE bad
  <2>1. c = [r EXCEPT !.invalid = @ \cup {t}]
    BY <1>3 DEF ScreenStep
  <2>2. c = [keep |-> r.keep, invalid |-> r.invalid \cup {t}, last |-> r.last]
    BY <2>1 DEF ScreenState
  <2>3. r.invalid \cup {t} \in SUBSET Txs
    BY <1>1
  <2> HIDE DEF c
  <2>4. c \in ScreenState
    BY <1>1, <2>2, <2>3 DEF ScreenState
  <2>5. c.invalid = r.invalid \cup {t} /\ c.last = r.last
    BY <2>2
  <2> QED BY <1>3, <2>4, <2>5 DEF c
<1>4. CASE ~bad
  <2> DEFINE l == [r.last EXCEPT ![t.from] = t.nonce]
             k == Append(r.keep, t)
             d == [r EXCEPT !.keep = k]
  <2>1. c = [[r EXCEPT !.keep = Append(@, t)] EXCEPT !.last[t.from] = t.nonce]
    BY <1>4 DEF ScreenStep
  <2>3. c = [d EXCEPT !.last[t.from] = t.nonce]
    BY <2>1
  <2>2. d = [keep |-> k, invalid |-> r.invalid, last |-> r.last]
    <3> HIDE DEF k, c
    <3> QED BY DEF ScreenState
  <2>4. k \in Seq(Txs) /\ l \in [Accts -> Int]
    BY <1>1, <1>2
  <2> HIDE DEF d, k
  <2>5. d \in ScreenState
    BY <1>1, <2>2, <2>4 DEF ScreenState
  <2>6. c = [keep |-> d.keep, invalid |-> d.invalid, last |-> [d.last EXCEPT ![t.from] = t.nonce]]
    BY <2>3, <2>5 DEF ScreenState
  <2>7. c = [keep |-> k, invalid |-> r.invalid, last |-> l]
    BY <2>2, <2>6
  <2> HIDE DEF c, l
  <2>8. c \in ScreenState
    BY <1>1, <2>4, <2>7 DEF ScreenState
  <2>9. c.invalid = r.invalid /\ c.last = l
    BY <2>7
  <2> QED BY <1>4, <2>8, <2>9 DEF c, l
<1> QED BY <1>3, <1>4

\* The transactions are screened one after another.
LEMMA ScreenSteps ==
  ASSUME NEW s \in Seq(Txs)
  PROVE  \E g \in [0 .. Len(s) -> ScreenState] :
           /\ g[0] = [keep |-> <<>>, invalid |-> {}, last |-> [a \in Accts |-> -1]] /\ Screened(s) = g[Len(s)]
           /\ \A k \in 1 .. Len(s) : g[k] = ScreenStep(g[k - 1], s[k])
<1> DEFINE n == Len(s)
           V == ScreenState
           base == [keep |-> <<>>, invalid |-> {}, last |-> [a \in Accts |-> -1]]
           H == [k \in 1 .. n |-> [r \in V |-> ScreenStep(r, s[k])]]
           body(f) == [x \in SUBSET (1 .. n) |->
                         IF x = {} THEN base ELSE ScreenStep(f[x \ {Max(x)}], s[Max(x)])]
           F == CHOOSE f : f = body(f)
<1>1. n \in Nat /\ DOMAIN s = 1 .. n /\ \A k \in 1 .. n : s[k] \in Txs
  OBVIOUS
<1>2. Screened(s) = F[1 .. n]
  BY <1>1 DEF Screened, FoldLeft, MapThenFoldSet, ScreenStep
<1>3. base \in V /\ \A r \in V, t \in Txs : ScreenStep(r, t) \in V
  <2>1. base \in V
    BY DEF ScreenState
  <2>2. ASSUME NEW r \in V, NEW t \in Txs PROVE ScreenStep(r, t) \in V
    BY ScreenStepFacts
  <2> HIDE DEF base, V
  <2> QED BY <2>1, <2>2
<1>4. H \in [1 .. n -> [V -> V]]
  <2> HIDE DEF n, V
  <2> QED BY <1>1, <1>3
<1>5. \A k \in 1 .. n, r \in V : H[k][r] = ScreenStep(r, s[k])
  OBVIOUS
<1> HIDE DEF n, V, H, base
<1>6. PICK h \in [SUBSET (1 .. n) -> V] : FoldsTo(h, n, base, H)
  BY <1>1, <1>3, <1>4, FoldExists
<1>7. ASSUME NEW x \in SUBSET (1 .. n), x # {}
      PROVE  Max(x) \in 1 .. n /\ x \ {Max(x)} \in SUBSET (1 .. n)
  BY <1>1, <1>7, MaxInterval
<1>8. h = body(h)
  <2>1. ASSUME NEW x \in SUBSET (1 .. n)
        PROVE  h[x] = IF x = {} THEN base
                      ELSE ScreenStep(h[x \ {Max(x)}], s[Max(x)])
    <3>1. CASE x = {}
      BY <1>6, <3>1 DEF FoldsTo
    <3>2. CASE x # {}
      <4>1. h[x] = H[Max(x)][h[x \ {Max(x)}]]
        BY <1>6, <3>2 DEF FoldsTo
      <4> QED BY <1>5, <1>7, <3>2, <4>1
    <3> QED BY <3>1, <3>2
  <2> QED BY <2>1
<1>9. F = body(F)
  <2> HIDE DEF body
  <2> QED BY <1>8
<1>10. Takes(F, n, V, base, H)
  <2> HIDE DEF F
  <2>1. F[{}] = base
    BY <1>9
  <2>2. ASSUME NEW x \in SUBSET (1 .. n), x # {}, F[x \ {Max(x)}] \in V
        PROVE  F[x] = H[Max(x)][F[x \ {Max(x)}]]
    BY <1>5, <1>7, <1>9, <2>2
  <2> QED BY <2>1, <2>2 DEF Takes
<1> HIDE DEF F
<1>11. PICK g \in [0 .. n -> V] : Stepwise(g, n, base, H, F[1 .. n])
  BY <1>1, <1>3, <1>4, <1>10, FoldPrefixes
<1>12. \A k \in 1 .. n : g[k] = ScreenStep(g[k - 1], s[k])
  BY <1>1, <1>5, <1>11 DEF Stepwise
<1>13. g[0] = base /\ Screened(s) = g[n]
  BY <1>2, <1>11 DEF Stepwise
<1> QED BY <1>12, <1>13 DEF n, V, base

\* One transaction of Fitted
FitStep(r, t) ==
  IF t.from \in r.skip THEN r
  ELSE IF r.left < t.size THEN [r EXCEPT !.skip = @ \cup {t.from}]
  ELSE [r EXCEPT !.txs = Append(@, t), !.left = @ - t.size]

\* The values Fitted passes through
FitState == [txs : Seq(Txs), left : Int, skip : SUBSET Accts]

\* The transactions that fit, in the order they are tried
FitAll(s) == FoldLeft(LAMBDA r, t : FitStep(r, t),
                      [txs |-> <<>>, left |-> MaxBlockSize, skip |-> {}], s)

\* The transactions are tried one after another.
LEMMA FitSteps ==
  ASSUME NEW s \in Seq(Txs)
  PROVE  \E g \in [0 .. Len(s) -> FitState] :
           /\ g[0] = [txs |-> <<>>, left |-> MaxBlockSize, skip |-> {}] /\ FitAll(s) = g[Len(s)]
           /\ \A k \in 1 .. Len(s) : g[k] = FitStep(g[k - 1], s[k])
<1> DEFINE n == Len(s)
           V == FitState
           base == [txs |-> <<>>, left |-> MaxBlockSize, skip |-> {}]
           H == [k \in 1 .. n |-> [r \in V |-> FitStep(r, s[k])]]
           body(f) == [x \in SUBSET (1 .. n) |->
                         IF x = {} THEN base ELSE FitStep(f[x \ {Max(x)}], s[Max(x)])]
           F == CHOOSE f : f = body(f)
<1>1. n \in Nat /\ DOMAIN s = 1 .. n /\ \A k \in 1 .. n : s[k] \in Txs
  OBVIOUS
<1>2. FitAll(s) = F[1 .. n]
  BY <1>1 DEF FitAll, FoldLeft, MapThenFoldSet, FitStep
<1>3. base \in V /\ \A r \in V, t \in Txs : FitStep(r, t) \in V
  <2>1. base \in V
    BY TxAssumption DEF FitState
  <2>2. ASSUME NEW r \in V, NEW t \in Txs PROVE FitStep(r, t) \in V
    <3>1. r.txs \in Seq(Txs) /\ r.left \in Int /\ r.skip \in SUBSET Accts
      BY DEF FitState
    <3>2. t.from \in Accts /\ t.size \in Nat
      BY TxFields
    <3>3. CASE t.from \in r.skip
      BY <3>3 DEF FitStep
    <3>4. CASE t.from \notin r.skip /\ r.left < t.size
      <4>1. FitStep(r, t) = [txs |-> r.txs, left |-> r.left, skip |-> r.skip \cup {t.from}]
        BY <3>4 DEF FitStep, FitState
      <4>2. r.skip \cup {t.from} \in SUBSET Accts
        BY <3>1, <3>2
      <4> HIDE DEF base
      <4> QED BY <3>1, <4>1, <4>2 DEF FitState
    <3>5. CASE t.from \notin r.skip /\ ~(r.left < t.size)
      <4>1. FitStep(r, t) = [txs |-> Append(r.txs, t), left |-> r.left - t.size, skip |-> r.skip]
        BY <3>5 DEF FitStep, FitState
      <4>2. Append(r.txs, t) \in Seq(Txs) /\ r.left - t.size \in Int
        BY <3>1, <3>2
      <4> HIDE DEF base
      <4> QED BY <3>1, <4>1, <4>2 DEF FitState
    <3> QED BY <3>3, <3>4, <3>5
  <2> HIDE DEF base, V
  <2> QED BY <2>1, <2>2
<1>4. H \in [1 .. n -> [V -> V]]
  <2> HIDE DEF n, V
  <2> QED BY <1>1, <1>3
<1>5. \A k \in 1 .. n, r \in V : H[k][r] = FitStep(r, s[k])
  OBVIOUS
<1> HIDE DEF n, V, H, base
<1>6. PICK h \in [SUBSET (1 .. n) -> V] : FoldsTo(h, n, base, H)
  BY <1>1, <1>3, <1>4, FoldExists
<1>7. ASSUME NEW x \in SUBSET (1 .. n), x # {}
      PROVE  Max(x) \in 1 .. n /\ x \ {Max(x)} \in SUBSET (1 .. n)
  BY <1>1, <1>7, MaxInterval
<1>8. h = body(h)
  <2>1. ASSUME NEW x \in SUBSET (1 .. n)
        PROVE  h[x] = IF x = {} THEN base
                      ELSE FitStep(h[x \ {Max(x)}], s[Max(x)])
    <3>1. CASE x = {}
      BY <1>6, <3>1 DEF FoldsTo
    <3>2. CASE x # {}
      <4>1. h[x] = H[Max(x)][h[x \ {Max(x)}]]
        BY <1>6, <3>2 DEF FoldsTo
      <4> QED BY <1>5, <1>7, <3>2, <4>1
    <3> QED BY <3>1, <3>2
  <2> QED BY <2>1
<1>9. F = body(F)
  <2> HIDE DEF body
  <2> QED BY <1>8
<1>10. Takes(F, n, V, base, H)
  <2> HIDE DEF F
  <2>1. F[{}] = base
    BY <1>9
  <2>2. ASSUME NEW x \in SUBSET (1 .. n), x # {}, F[x \ {Max(x)}] \in V
        PROVE  F[x] = H[Max(x)][F[x \ {Max(x)}]]
    BY <1>5, <1>7, <1>9, <2>2
  <2> QED BY <2>1, <2>2 DEF Takes
<1> HIDE DEF F
<1>11. PICK g \in [0 .. n -> V] : Stepwise(g, n, base, H, F[1 .. n])
  BY <1>1, <1>3, <1>4, <1>10, FoldPrefixes
<1>12. \A k \in 1 .. n : g[k] = FitStep(g[k - 1], s[k])
  BY <1>1, <1>5, <1>11 DEF Stepwise
<1>13. g[0] = base /\ FitAll(s) = g[n]
  BY <1>2, <1>11 DEF Stepwise
<1> QED BY <1>12, <1>13 DEF n, V, base

\* A proposal takes transactions of the list.
LEMMA FittedType ==
  ASSUME NEW s \in Seq(Txs)
  PROVE  Fitted(s) \in Seq(Txs)
<1> DEFINE own == {t \in Txs : t.from = Own}
           tried == Without(s, Txs \ own) \o Without(s, own)
<1>1. Fitted(s) = FitAll(tried).txs
  BY DEF Fitted, FitAll, FitStep
<1>2. tried \in Seq(Txs)
  <2>1. \A T : Without(s, T) \in Seq(Txs)
    <3> SUFFICES ASSUME NEW T PROVE Without(s, T) \in Seq(Txs)
      OBVIOUS
    <3>1. PICK g \in [0 .. Len(s) -> Seq(Txs)] : Without(s, T) = g[Len(s)]
      BY WithoutSteps
    <3>2. Len(s) \in 0 .. Len(s)
      OBVIOUS
    <3> QED BY <3>1, <3>2
  <2>2. Without(s, Txs \ own) \in Seq(Txs) /\ Without(s, own) \in Seq(Txs)
    BY <2>1
  <2> QED BY <2>2
<1> HIDE DEF tried
<1>3. PICK g \in [0 .. Len(tried) -> FitState] : FitAll(tried) = g[Len(tried)]
  BY <1>2, FitSteps
<1>4. Len(tried) \in 0 .. Len(tried)
  BY <1>2
<1> QED BY <1>1, <1>3, <1>4 DEF FitState

\* In a finite set with a strict total order, given by the members B[j] below
\* each j, the number of members below is different for each and takes every
\* value less than the size of the set.
LEMMA Ranks ==
  ASSUME NEW P, IsFiniteSet(P), NEW B \in [P -> SUBSET P],
         \A j \in P : j \notin B[j],
         \A i, j \in P : i # j => \/ B[i] \subseteq B[j] /\ i \in B[j]
                                  \/ B[j] \subseteq B[i] /\ j \in B[i]
  PROVE  /\ \A j \in P : Cardinality(B[j]) \in 0 .. Cardinality(P) - 1
         /\ \A i, j \in P : Cardinality(B[i]) = Cardinality(B[j]) => i = j
         /\ \A r \in 0 .. Cardinality(P) - 1 : \E j \in P : Cardinality(B[j]) = r
<1> DEFINE c == Cardinality(P)
           rank == [j \in P |-> Cardinality(B[j])]
           R == 0 .. c - 1
<1>1. c \in Nat
  BY FS_CardinalityType
<1>2. \A j \in P : IsFiniteSet(B[j]) /\ Cardinality(B[j]) \in Nat
  BY FS_Subset, FS_CardinalityType
<1>3. ASSUME NEW j \in P PROVE Cardinality(B[j]) \in R
  <2>1. B[j] \in SUBSET (P \ {j})
    OBVIOUS
  <2>2. IsFiniteSet(P \ {j}) /\ Cardinality(P \ {j}) = c - 1
    BY FS_RemoveElement
  <2>3. Cardinality(B[j]) <= Cardinality(P \ {j})
    BY <2>1, <2>2, FS_Subset
  <2> HIDE DEF c
  <2> QED BY <1>1, <1>2, <2>2, <2>3
<1>4. ASSUME NEW i \in P, NEW j \in P, B[i] \subseteq B[j], i \in B[j]
      PROVE  Cardinality(B[i]) < Cardinality(B[j])
  <2>1. B[i] \in SUBSET (B[j] \ {i})
    BY <1>4
  <2>2. IsFiniteSet(B[j] \ {i}) /\ Cardinality(B[j] \ {i}) = Cardinality(B[j]) - 1
    BY <1>2, <1>4, FS_RemoveElement
  <2>3. Cardinality(B[i]) <= Cardinality(B[j] \ {i})
    BY <2>1, <2>2, FS_Subset
  <2> QED BY <1>2, <2>2, <2>3
<1>5. ASSUME NEW i \in P, NEW j \in P, Cardinality(B[i]) = Cardinality(B[j])
      PROVE  i = j
  <2> SUFFICES ASSUME i # j PROVE FALSE
    OBVIOUS
  <2>1. CASE B[i] \subseteq B[j] /\ i \in B[j]
    BY <1>2, <1>4, <1>5, <2>1
  <2>2. CASE B[j] \subseteq B[i] /\ j \in B[i]
    BY <1>2, <1>4, <1>5, <2>2
  <2> QED BY <2>1, <2>2
<1>6. rank \in [P -> R] /\ \A i, j \in P : rank[i] = rank[j] => i = j
  BY <1>3, <1>5
<1>7. rank \in Injection(P, R)
  <2> HIDE DEF R, rank
  <2> QED BY <1>6 DEF Injection, IsInjective
<1>8. IsFiniteSet(R) /\ Cardinality(R) = c
  <2> HIDE DEF c
  <2>1. 0 \in Int /\ c - 1 \in Int
    BY <1>1
  <2>2. IsFiniteSet(0 .. c - 1) /\ Cardinality(0 .. c - 1) = IF 0 > c - 1 THEN 0 ELSE c - 1 - 0 + 1
    BY <2>1, FS_Interval
  <2> QED BY <1>1, <2>2
<1>9. rank \in Surjection(P, R)
  <2> HIDE DEF R, rank
  <2> QED BY <1>7, <1>8, FS_Injection
<1>10. \A r \in R : \E j \in P : rank[j] = r
  <2> HIDE DEF R, rank
  <2> QED BY <1>9 DEF Surjection
<1>11. \A j \in P : rank[j] = Cardinality(B[j])
  OBVIOUS
<1> HIDE DEF rank
<1> QED BY <1>3, <1>5, <1>10, <1>11

\* The sorted list is a rearrangement that leaves every sender its places.
LEMMA NonceOrderedFacts ==
  ASSUME NEW s \in Seq(Txs)
  PROVE  /\ NonceOrdered(s) \in Seq(Txs) /\ Len(NonceOrdered(s)) = Len(s)
         /\ \E p \in [1 .. Len(s) -> 1 .. Len(s)] :
              /\ \A i \in 1 .. Len(s) : NonceOrdered(s)[i] = s[p[i]] /\ s[p[i]].from = s[i].from
              /\ \A i, j \in 1 .. Len(s) : p[i] = p[j] => i = j
<1> DEFINE n == Len(s)
           places(i) == {k \in 1 .. n : s[k].from = s[i].from}
           before(k, j) == s[k].nonce < s[j].nonce \/ (s[k].nonce = s[j].nonce /\ k < j)
           rank(j) == Cardinality({k \in places(j) : before(k, j)})
           place(i) == Cardinality({k \in places(i) : k < i})
           p == [i \in 1 .. n |-> CHOOSE j \in places(i) : rank(j) = place(i)]
<1>1. NonceOrdered(s) = [i \in 1 .. n |-> s[p[i]]]
  BY DEF NonceOrdered
<1>2. n \in Nat /\ \A k \in 1 .. n : s[k] \in Txs /\ s[k].nonce \in Nat
  BY TxFields
<1> HIDE DEF n
<1>3. ASSUME NEW i \in 1 .. n
      PROVE  \E j \in places(i) : rank(j) = place(i)
  <2> DEFINE P == places(i)
             B == [j \in P |-> {k \in P : before(k, j)}]
             C == [j \in P |-> {k \in P : k < j}]
  <2>1. P \in SUBSET (1 .. n) /\ i \in P
    OBVIOUS
  <2>2. IsFiniteSet(P)
    <3>1. 1 \in Int /\ n \in Int
      BY <1>2
    <3>2. IsFiniteSet(1 .. n)
      BY <3>1, FS_Interval
    <3> QED BY <2>1, <3>2, FS_Subset
  <2>3. \A j \in P : places(j) = P
    OBVIOUS
  <2>4. \A j \in P : Cardinality(B[j]) = rank(j)
    BY <2>3
  <2>5. Cardinality(C[i]) = place(i)
    BY <2>1
  <2>6. \A j \in P : j \in 1 .. n /\ s[j].nonce \in Nat
    BY <1>2, <2>1
  <2> HIDE DEF P
  <2>7. \A r \in 0 .. Cardinality(P) - 1 : \E j \in P : Cardinality(B[j]) = r
    <3>1. B \in [P -> SUBSET P] /\ \A j \in P : j \notin B[j]
      BY <1>2, <2>6
    <3>2. \A k, j \in P : k # j => \/ B[k] \subseteq B[j] /\ k \in B[j]
                                   \/ B[j] \subseteq B[k] /\ j \in B[k]
      BY <1>2, <2>6
    <3> HIDE DEF B
    <3> QED BY <2>2, <3>1, <3>2, Ranks
  <2>8. \A j \in P : Cardinality(C[j]) \in 0 .. Cardinality(P) - 1
    <3>1. C \in [P -> SUBSET P] /\ \A j \in P : j \notin C[j]
      BY <1>2, <2>6
    <3>2. \A k, j \in P : k # j => \/ C[k] \subseteq C[j] /\ k \in C[j]
                                   \/ C[j] \subseteq C[k] /\ j \in C[k]
      BY <1>2, <2>6
    <3> HIDE DEF C
    <3> QED BY <2>2, <3>1, <3>2, Ranks
  <2>9. \E j \in P : Cardinality(B[j]) = place(i)
    <3> HIDE DEF B, C, place
    <3> QED BY <2>1, <2>5, <2>7, <2>8
  <2>10. \E j \in P : rank(j) = place(i)
    <3> HIDE DEF B, place, rank
    <3> QED BY <2>4, <2>9
  <2> QED BY <2>10 DEF P
<1>4. \A i \in 1 .. n : p[i] \in places(i) /\ rank(p[i]) = place(i)
  <2> HIDE DEF rank, place, places
  <2> QED BY <1>3
<1>5. ASSUME NEW i \in 1 .. n, NEW j \in 1 .. n, p[i] = p[j]
      PROVE  i = j
  <2> DEFINE P == places(i)
             C == [k \in P |-> {l \in P : l < k}]
  <2>1. P \in SUBSET (1 .. n) /\ i \in P
    OBVIOUS
  <2>2. IsFiniteSet(P)
    <3>1. 1 \in Int /\ n \in Int
      BY <1>2
    <3>2. IsFiniteSet(1 .. n)
      BY <3>1, FS_Interval
    <3> QED BY <2>1, <3>2, FS_Subset
  <2>3. j \in P /\ places(j) = P
    <3> HIDE DEF p
    <3> QED BY <1>4, <1>5
  <2>4. place(i) = place(j)
    <3> HIDE DEF p, place, rank, places
    <3> QED BY <1>4, <1>5
  <2>5. Cardinality(C[i]) = place(i) /\ Cardinality(C[j]) = place(j)
    BY <2>1, <2>3
  <2>6. \A k, l \in P : Cardinality(C[k]) = Cardinality(C[l]) => k = l
    <3> HIDE DEF P
    <3>0. \A k \in P : k \in 1 .. n
      BY <2>1
    <3>1. C \in [P -> SUBSET P] /\ \A k \in P : k \notin C[k]
      BY <1>2, <3>0
    <3>2. \A k, l \in P : k # l => \/ C[k] \subseteq C[l] /\ k \in C[l]
                                   \/ C[l] \subseteq C[k] /\ l \in C[k]
      BY <1>2, <3>0
    <3> HIDE DEF C
    <3> QED BY <2>2, <3>1, <3>2, Ranks
  <2> HIDE DEF P, C, place
  <2> QED BY <2>1, <2>3, <2>4, <2>5, <2>6
<1>6. \A i \in 1 .. n : p[i] \in 1 .. n /\ s[p[i]].from = s[i].from
  <2> HIDE DEF p, rank, place
  <2> QED BY <1>4
<1>7. p \in [1 .. n -> 1 .. n]
  BY <1>6
<1> HIDE DEF p
<1>8. NonceOrdered(s) \in Seq(Txs) /\ Len(NonceOrdered(s)) = n
  BY <1>1, <1>2, <1>6
<1>9. \A i \in 1 .. n : NonceOrdered(s)[i] = s[p[i]]
  BY <1>1
<1> QED BY <1>5, <1>6, <1>7, <1>8, <1>9 DEF n

\* A proposal looks at a prefix of the pool.
LEMMA PeekNFacts ==
  ASSUME NEW s \in Seq(Txs)
  PROVE  /\ PeekN(s) \in Seq(Txs) /\ Len(PeekN(s)) <= Len(s)
         /\ \A i \in 1 .. Len(PeekN(s)) : PeekN(s)[i] = s[i]
<1> DEFINE size(n) == SizeOf(SubSeq(s, 1, n))
           Fits(n) == size(n) <= MaxBlockSize /\ (n = Len(s) \/ size(n + 1) > MaxBlockSize)
           S == {n \in 0 .. Len(s) : size(n) <= MaxBlockSize}
<1>1. ASSUME NEW n \in 0 .. Len(s)
      PROVE  SubSeq(s, 1, n) \in Seq(Txs) /\ Len(SubSeq(s, 1, n)) = n
             /\ \A i \in 1 .. n : SubSeq(s, 1, n)[i] = s[i]
  OBVIOUS
<1>2. \A q \in Seq(Txs) : SizeOf(q) \in Nat /\ (Len(q) = 0 => SizeOf(q) = 0)
  <2> SUFFICES ASSUME NEW q \in Seq(Txs)
               PROVE  SizeOf(q) \in Nat /\ (Len(q) = 0 => SizeOf(q) = 0)
    OBVIOUS
  <2>1. PICK g \in [0 .. Len(q) -> Nat] : g[0] = 0 /\ SizeOf(q) = g[Len(q)]
    BY SizeOfSteps
  <2>2. Len(q) \in 0 .. Len(q)
    OBVIOUS
  <2> QED BY <2>1, <2>2
<1>3. \A n \in 0 .. Len(s) : size(n) \in Nat
  BY <1>1, <1>2
<1>4. \E n \in 0 .. Len(s) : Fits(n)
  <2> SUFFICES ASSUME \A n \in 0 .. Len(s) : ~Fits(n) PROVE FALSE
    OBVIOUS
  <2>0. Len(s) \in Nat /\ MaxBlockSize \in Nat
    BY TxAssumption
  <2>1. 0 \in S
    <3>1. 0 \in 0 .. Len(s) BY <2>0
    <3>2. size(0) = 0
      BY <1>1, <1>2, <3>1
    <3> HIDE DEF size
    <3> QED BY <2>0, <3>1, <3>2
  <2>2. ASSUME NEW k \in 1 .. Len(s), k - 1 \in S PROVE k \in S
    <3> HIDE DEF size
    <3> QED BY <1>3, <2>0, <2>2
  <2> HIDE DEF S
  <2>3. \A k \in 0 .. Len(s) : k \in S
    BY <2>0, <2>1, <2>2, UpTo
  <2>4. Len(s) \in S
    BY <2>0, <2>3
  <2> HIDE DEF size
  <2> QED BY <2>0, <2>4 DEF S
<1> DEFINE n == CHOOSE n \in 0 .. Len(s) : Fits(n)
<1>5. n \in 0 .. Len(s)
  <2> HIDE DEF Fits
  <2> QED BY <1>4
<1>6. PeekN(s) = SubSeq(s, 1, n)
  BY DEF PeekN
<1> HIDE DEF n
<1> QED BY <1>1, <1>5, <1>6

----------------------------------------------------------------------------
(* Counting the transactions of a sender.                                  *)

\* The count goes up by one at each transaction of the sender.
LEMMA SentFacts ==
  ASSUME NEW s, NEW n \in Nat, NEW a
  PROVE  /\ Sent(s, n, a) \in Nat /\ Sent(s, 0, a) = 0
         /\ Sent(s, n + 1, a) = Sent(s, n, a) + IF s[n + 1].from = a THEN 1 ELSE 0
         /\ \A r : (\A k \in 1 .. n : r[k].from = s[k].from) => Sent(r, n, a) = Sent(s, n, a)
         /\ Sent(s, n, a) = 0 => \A k \in 1 .. n : s[k].from # a
<1> DEFINE S == {k \in 1 .. n : s[k].from = a}
<1>1. IsFiniteSet(S) /\ Sent(s, n, a) = Cardinality(S)
  <2>1. 1 \in Int /\ n \in Int
    OBVIOUS
  <2>2. IsFiniteSet(1 .. n)
    BY <2>1, FS_Interval
  <2>3. S \in SUBSET (1 .. n)
    OBVIOUS
  <2> QED BY <2>2, <2>3, FS_Subset DEF Sent
<1>2. Sent(s, n, a) \in Nat
  BY <1>1, FS_CardinalityType
<1>3. Sent(s, 0, a) = 0
  <2>1. {k \in 1 .. 0 : s[k].from = a} = {}
    OBVIOUS
  <2> QED BY <2>1, FS_EmptySet DEF Sent
<1>4. Sent(s, n + 1, a) = Sent(s, n, a) + IF s[n + 1].from = a THEN 1 ELSE 0
  <2> DEFINE R == {k \in 1 .. n + 1 : s[k].from = a}
  <2>1. Sent(s, n + 1, a) = Cardinality(R)
    BY DEF Sent
  <2>2. CASE s[n + 1].from = a
    <3>1. R = S \cup {n + 1} /\ n + 1 \notin S
      BY <2>2
    <3>2. Cardinality(R) = Cardinality(S) + 1
      <4> HIDE DEF S, R
      <4> QED BY <1>1, <3>1, FS_AddElement
    <3> HIDE DEF S, R
    <3> QED BY <1>1, <2>1, <2>2, <3>2
  <2>3. CASE s[n + 1].from # a
    <3>1. R = S
      BY <2>3
    <3> HIDE DEF S, R
    <3> QED BY <1>1, <1>2, <2>1, <2>3, <3>1
  <2> QED BY <2>2, <2>3
<1>5. ASSUME NEW r, \A k \in 1 .. n : r[k].from = s[k].from
      PROVE  Sent(r, n, a) = Sent(s, n, a)
  <2>1. {k \in 1 .. n : r[k].from = a} = S
    BY <1>5
  <2> QED BY <2>1 DEF Sent
<1>6. Sent(s, n, a) = 0 => \A k \in 1 .. n : s[k].from # a
  <2>1. Cardinality(S) = 0 => S = {}
    <3> HIDE DEF S
    <3> QED BY <1>1, FS_EmptySet
  <2> QED BY <1>1, <2>1
<1> QED BY <1>2, <1>3, <1>4, <1>5, <1>6

\* The same, for the step to place k.
LEMMA SentAt ==
  ASSUME NEW s, NEW k \in Nat, k > 0, NEW a
  PROVE  /\ Sent(s, k, a) = Sent(s, k - 1, a) + IF s[k].from = a THEN 1 ELSE 0
         /\ Sent(s, k - 1, a) \in Nat /\ Sent(s, k, a) \in Nat
<1> DEFINE m == k - 1
<1>1. m \in Nat /\ m + 1 = k
  OBVIOUS
<1> HIDE DEF m
<1>2. Sent(s, m + 1, a) = Sent(s, m, a) + IF s[m + 1].from = a THEN 1 ELSE 0
  BY <1>1, SentFacts
<1>3. Sent(s, m, a) \in Nat /\ Sent(s, k, a) \in Nat
  BY <1>1, SentFacts
<1> QED BY <1>1, <1>2, <1>3 DEF m

\* The transactions of a in s continue the nonce d.
InOrder(s, a, d) ==
  \A j \in 1 .. Len(s) : s[j].from = a => s[j].nonce = d + Sent(s, j, a)

\* One more transaction counts for its sender, and continues the order if it has
\* the next nonce.
LEMMA AppendSent ==
  ASSUME NEW s \in Seq(Txs), NEW t \in Txs, NEW a, NEW d \in Nat
  PROVE  LET r == Append(s, t)
         IN  /\ Sent(r, Len(r), a) = Sent(s, Len(s), a) + IF t.from = a THEN 1 ELSE 0
             /\ InOrder(s, a, d) /\ (t.from = a => t.nonce = d + (Sent(s, Len(s), a) + 1))
                => InOrder(r, a, d)
             /\ InOrder(r, a, d) => InOrder(s, a, d)
<1> DEFINE r == Append(s, t)
           n == Len(s)
<1>1. /\ r \in Seq(Txs) /\ Len(r) = n + 1 /\ n \in Nat /\ r[n + 1] = t
      /\ \A k \in 1 .. n : r[k] = s[k]
  OBVIOUS
<1> HIDE DEF r, n
<1>2. ASSUME NEW m \in 0 .. n PROVE Sent(r, m, a) = Sent(s, m, a)
  <2>1. m \in Nat /\ \A k \in 1 .. m : r[k].from = s[k].from
    BY <1>1
  <2> QED BY <2>1, SentFacts
<1>3. Sent(r, n + 1, a) = Sent(s, n, a) + IF t.from = a THEN 1 ELSE 0
  <2>1. Sent(r, n + 1, a) = Sent(r, n, a) + IF r[n + 1].from = a THEN 1 ELSE 0
    BY <1>1, SentFacts
  <2>2. Sent(r, n, a) = Sent(s, n, a)
    BY <1>1, <1>2
  <2> QED BY <1>1, <2>1, <2>2
<1>4. ASSUME InOrder(s, a, d), t.from = a => t.nonce = d + (Sent(s, n, a) + 1)
      PROVE  InOrder(r, a, d)
  <2> SUFFICES ASSUME NEW j \in 1 .. n + 1, r[j].from = a
               PROVE  r[j].nonce = d + Sent(r, j, a)
    BY <1>1 DEF InOrder
  <2>1. CASE j = n + 1
    BY <1>1, <1>3, <1>4, <2>1
  <2>2. CASE j # n + 1
    <3>1. j \in 1 .. n /\ j \in 0 .. n
      BY <1>1, <2>2
    <3>2. s[j].nonce = d + Sent(s, j, a)
      BY <1>1, <1>4, <3>1 DEF InOrder, n
    <3> QED BY <1>1, <1>2, <3>1, <3>2
  <2> QED BY <2>1, <2>2
<1>5. ASSUME InOrder(r, a, d) PROVE InOrder(s, a, d)
  <2> SUFFICES ASSUME NEW j \in 1 .. n, s[j].from = a
               PROVE  s[j].nonce = d + Sent(s, j, a)
    BY DEF InOrder, n
  <2>1. j \in 1 .. Len(r) /\ j \in 0 .. n
    BY <1>1
  <2> QED BY <1>1, <1>2, <1>5, <2>1 DEF InOrder
<1> QED BY <1>1, <1>3, <1>4, <1>5 DEF r, n

\* g passes from the empty list to Without(s, T), one transaction at a time.
Drops(g, s, T) ==
  /\ g \in [0 .. Len(s) -> Seq(Txs)]
  /\ g[0] = <<>> /\ Without(s, T) = g[Len(s)]
  /\ \A k \in 1 .. Len(s) : g[k] = DropStep(g[k - 1], s[k], T)

\* A list without some transactions is a list of transactions.
LEMMA WithoutTxs ==
  ASSUME NEW s \in Seq(Txs), NEW T
  PROVE  Without(s, T) \in Seq(Txs) /\ \E g : Drops(g, s, T)
<1>1. PICK g \in [0 .. Len(s) -> Seq(Txs)] :
        /\ g[0] = <<>> /\ Without(s, T) = g[Len(s)]
        /\ \A k \in 1 .. Len(s) : g[k] = DropStep(g[k - 1], s[k], T)
  BY WithoutSteps
<1>2. Drops(g, s, T)
  BY <1>1 DEF Drops
<1>3. Len(s) \in 0 .. Len(s)
  OBVIOUS
<1>4. Without(s, T) \in Seq(Txs)
  BY <1>1, <1>3
<1> QED BY <1>2, <1>4

\* Dropping transactions of other senders leaves a sender's order.
LEMMA WithoutSent ==
  ASSUME NEW s \in Seq(Txs), NEW T, NEW a, NEW d \in Nat,
         \A k \in 1 .. Len(s) : s[k].from = a => s[k] \notin T,
         InOrder(s, a, d)
  PROVE  LET r == Without(s, T)
         IN  Sent(r, Len(r), a) = Sent(s, Len(s), a) /\ InOrder(r, a, d)
<1>1. PICK g \in [0 .. Len(s) -> Seq(Txs)] :
        /\ g[0] = <<>> /\ Without(s, T) = g[Len(s)]
        /\ \A k \in 1 .. Len(s) : g[k] = DropStep(g[k - 1], s[k], T)
  BY WithoutSteps
<1> DEFINE n == Len(s)
           S == {k \in 0 .. n : /\ Sent(g[k], Len(g[k]), a) = Sent(s, k, a)
                                /\ InOrder(g[k], a, d)}
<1>2. n \in Nat
  OBVIOUS
<1>3. 0 \in S
  <2>1. Len(g[0]) = 0 /\ 0 \in Nat /\ 0 \in 0 .. n
    BY <1>1
  <2>2. Sent(g[0], 0, a) = 0 /\ Sent(s, 0, a) = 0
    BY <2>1, SentFacts
  <2> QED BY <2>1, <2>2 DEF InOrder
<1>4. ASSUME NEW k \in 1 .. n, k - 1 \in S PROVE k \in S
  <2> DEFINE h == g[k - 1]
             t == s[k]
  <2>0. k \in Nat /\ k - 1 \in Nat /\ k - 1 \in 0 .. n /\ k \in 1 .. Len(s) /\ k \in 0 .. n
    BY <1>2, <1>4
  <2>1. h \in Seq(Txs) /\ t \in Txs /\ k \in Nat /\ k > 0
    BY <2>0
  <2>2. g[k] = IF t \in T THEN h ELSE Append(h, t)
    BY <1>1 DEF DropStep
  <2>3. Sent(h, Len(h), a) = Sent(s, k - 1, a) /\ InOrder(h, a, d)
    BY <1>4
  <2>4. Sent(s, k, a) = Sent(s, k - 1, a) + IF t.from = a THEN 1 ELSE 0
    BY <2>1, SentAt
  <2>5. Sent(s, k - 1, a) \in Nat
    BY <2>1, SentAt
  <2>6. t.from = a => t \notin T /\ t.nonce = d + Sent(s, k, a)
    BY DEF InOrder
  <2> HIDE DEF h, t
  <2>7. CASE t \in T
    BY <2>2, <2>3, <2>4, <2>5, <2>6, <2>7
  <2>8. CASE t \notin T
    <3> DEFINE r == Append(h, t)
    <3>1. g[k] = r
      BY <2>2, <2>8
    <3>2. /\ Sent(r, Len(r), a) = Sent(h, Len(h), a) + IF t.from = a THEN 1 ELSE 0
          /\ InOrder(h, a, d) /\ (t.from = a => t.nonce = d + (Sent(h, Len(h), a) + 1))
             => InOrder(r, a, d)
      BY <2>1, AppendSent
    <3> HIDE DEF r
    <3> QED BY <2>3, <2>4, <2>5, <2>6, <3>1, <3>2
  <2> QED BY <2>7, <2>8
<1> HIDE DEF S
<1>5. \A k \in 0 .. n : k \in S
  BY <1>2, <1>3, <1>4, UpTo
<1>6. n \in S
  BY <1>2, <1>5
<1> QED BY <1>1, <1>6 DEF S

\* Taking the last transaction out again gives the list before it (QueueTx
\* removes what CheckTx refuses).
LEMMA WithoutLast ==
  ASSUME NEW p \in Seq(Txs), NEW t \in Txs, \A k \in 1 .. Len(p) : p[k] # t
  PROVE  Without(Append(p, t), {t}) = p
<1> DEFINE s == Append(p, t)
           m == Len(p)
<1>1. /\ s \in Seq(Txs) /\ Len(s) = m + 1 /\ m \in Nat /\ s[m + 1] = t
      /\ \A k \in 1 .. m : s[k] = p[k]
  OBVIOUS
<1> HIDE DEF s
<1> DEFINE T == {t}
<1>0. \A x : x \in T <=> x = t
  OBVIOUS
<1> HIDE DEF T
<1>2. PICK g : Drops(g, s, T)
  BY <1>1, WithoutTxs
<1> DEFINE S == {k \in 0 .. m : Len(g[k]) = k /\ \A i \in 1 .. k : g[k][i] = p[i]}
<1>3. 0 \in S
  BY <1>1, <1>2 DEF Drops
<1>4. ASSUME NEW k \in 1 .. m, k - 1 \in S PROVE k \in S
  <2>1. g[k - 1] \in Seq(Txs) /\ k \in 1 .. Len(s) /\ p[k] \in Txs /\ p[k] # t
    <3>1. k - 1 \in 0 .. Len(s) /\ k \in 1 .. Len(s) /\ k \in 1 .. Len(p)
      BY <1>1
    <3>2. g[k - 1] \in Seq(Txs)
      BY <1>2, <3>1 DEF Drops
    <3> QED BY <3>1, <3>2
  <2>2. g[k] = Append(g[k - 1], p[k])
    BY <1>0, <1>1, <1>2, <2>1 DEF DropStep, Drops
  <2>3. Len(g[k - 1]) = k - 1 /\ \A i \in 1 .. k - 1 : g[k - 1][i] = p[i]
    BY <1>4
  <2> DEFINE h == g[k - 1]
             x == p[k]
  <2>4. h \in Seq(Txs) /\ x \in Txs /\ g[k] = Append(h, x) /\ Len(h) = k - 1
        /\ \A i \in 1 .. k - 1 : h[i] = p[i]
    BY <2>1, <2>2, <2>3
  <2>5. x = p[k] /\ k \in Nat /\ k \in 0 .. m
    BY <1>1
  <2> HIDE DEF h, x
  <2>6. Len(g[k]) = k /\ g[k][k] = x /\ \A i \in 1 .. k - 1 : g[k][i] = h[i]
    BY <2>4, <2>5
  <2>7. ASSUME NEW i \in 1 .. k PROVE g[k][i] = p[i]
    <3>1. CASE i = k
      BY <2>5, <2>6, <3>1
    <3>2. CASE i # k
      <4>1. i \in 1 .. k - 1
        BY <2>5, <3>2
      <4> QED BY <2>4, <2>6, <4>1
    <3> QED BY <3>1, <3>2
  <2> QED BY <2>5, <2>6, <2>7
<1> HIDE DEF S
<1>5. m \in S
  <2>1. \A k \in 0 .. m : k \in S
    BY <1>1, <1>3, <1>4, UpTo
  <2> QED BY <1>1, <2>1
<1>6. g[m + 1] = g[m]
  <2>1. m + 1 \in 1 .. Len(s) /\ (m + 1) - 1 = m
    BY <1>1
  <2> QED BY <1>0, <1>1, <1>2, <2>1 DEF DropStep, Drops
<1>7. g[m] = p
  <2>1. g[m] \in Seq(Txs) /\ Len(g[m]) = m /\ \A i \in 1 .. m : g[m][i] = p[i]
    BY <1>1, <1>2, <1>5 DEF S, Drops
  <2> QED BY <2>1
<1> QED BY <1>1, <1>2, <1>6, <1>7 DEF s, T, Drops

----------------------------------------------------------------------------
(* The pool and the unconfirmed accounts in step.                          *)

\* The transactions p and the unconfirmed account of a continue its row.
InStep(s, u, p, a) ==
  LET d == OrEmpty(s.db[a])
      n == Sent(p, Len(p), a)
  IN  /\ InOrder(p, a, d.nonce)
      /\ u[a] = NoRow => n = 0
      /\ u[a] # NoRow => u[a].nonce = d.nonce + n
      /\ n = 0 => u[a] \in {NoRow, d}
      /\ n # 0 => ~Unfunded(d)

\* InStep looks at one committed row and one unconfirmed account.
LEMMA InStepSame ==
  ASSUME NEW s, NEW u, NEW p, NEW a, InStep(s, u, p, a),
         NEW c, NEW v, c.db = s.db, v[a] = u[a]
  PROVE  InStep(c, v, p, a)
  BY DEF InStep

\* An account that the check reads from the store: its committed row.
LEMMA SeenRow ==
  ASSUME NEW m \in MState, NEW a \in Accts, m.unconf[a] = NoRow,
         m.acc.records[a] \in {NoRow, m.acc.db[a]}
  PROVE  Seen(m, a) = OrEmpty(m.acc.db[a])
  BY DEF Seen, Lookup

\* A transaction that passes the check keeps the pool in step when it joins,
\* one that does not pass when it stays out.
LEMMA ApplyInStep ==
  ASSUME NEW m \in MState, NEW t \in Txs, NEW p \in Seq(Txs), NEW a \in Accts,
         InStep(m.acc, m.unconf, p, a), m.acc.records[a] \in {NoRow, m.acc.db[a]}
  PROVE  LET c == ApplyTransaction(m, t)
         IN  InStep(c.m.acc, c.m.unconf, IF c.err = "ok" THEN Append(p, t) ELSE p, a)
<1> DEFINE c == ApplyTransaction(m, t)
           row == Seen(m, t.from)
           ok == Admissible(row, t)
           next == AfterSpend(row, t)
           d == OrEmpty(m.acc.db[a])
           n == Sent(p, Len(p), a)
           u == m.unconf
           v == c.m.unconf
           r == Append(p, t)
           k == Sent(r, Len(r), a)
<1>1. /\ v = [u EXCEPT ![t.from] = IF ok THEN next ELSE row]
      /\ c.err = IF ok THEN "ok" ELSE "rejected"
      /\ c.m.acc.db = m.acc.db /\ u \in Rows
  BY ApplyFacts, MStateMaps DEF Reads
<1>2. d \in Row /\ d.nonce \in Nat
  BY MStateMaps, StoreMaps, RowFacts DEF Row
<1>3. n \in Nat
  BY SentFacts
<1>4. /\ k = n + IF t.from = a THEN 1 ELSE 0
      /\ InOrder(p, a, d.nonce) /\ (t.from = a => t.nonce = d.nonce + (n + 1))
         => InOrder(r, a, d.nonce)
  BY <1>2, AppendSent
<1>5. /\ InOrder(p, a, d.nonce)
      /\ u[a] = NoRow => n = 0
      /\ u[a] # NoRow => u[a].nonce = d.nonce + n
      /\ n = 0 => u[a] \in {NoRow, d}
      /\ n # 0 => ~Unfunded(d)
  BY DEF InStep
<1>6. t.from \in Accts
  BY TxFields
<1>7. CASE t.from # a
  <2>1. v[a] = u[a]
    BY <1>1, <1>6, <1>7 DEF Rows
  <2>2. InStep(c.m.acc, v, p, a)
    BY <1>1, <2>1, InStepSame
  <2>3. InOrder(r, a, d.nonce) /\ k = n
    BY <1>3, <1>4, <1>5, <1>7
  <2> HIDE DEF r, c, d
  <2>4. InStep(c.m.acc, v, r, a)
    BY <1>1, <1>5, <2>1, <2>3 DEF InStep, d
  <2> QED BY <2>2, <2>4 DEF r, c
<1>8. CASE t.from = a
  <2>1. row \in Row /\ row.nonce = d.nonce + n /\ (n = 0 => row = d)
    <3>1. row \in Row
      BY <1>6, MStateMaps
    <3>2. CASE u[a] # NoRow
      <4>1. row = u[a]
        BY <1>8, <3>2 DEF Seen
      <4> QED BY <1>5, <3>1, <3>2, <4>1
    <3>3. CASE u[a] = NoRow
      <4>1. row = d
        BY <1>8, <3>3, SeenRow
      <4> QED BY <1>2, <1>5, <3>1, <3>3, <4>1
    <3> QED BY <3>2, <3>3
  <2>2. v[a] = IF ok THEN next ELSE row
    BY <1>1, <1>6, <1>8 DEF Rows
  <2>3. row # NoRow /\ next \in Row /\ next # NoRow
    BY <2>1, ApplyFacts, RowFacts
  <2>4. CASE ~ok
    <3>1. v[a] = row
      BY <2>2, <2>4
    <3> HIDE DEF c, row, d, n, v
    <3>2. InStep(c.m.acc, v, p, a)
      BY <1>1, <1>5, <2>1, <2>3, <3>1 DEF InStep, d, n
    <3>3. c.err # "ok"
      BY <1>1, <2>4
    <3> QED BY <3>2, <3>3 DEF c, v
  <2>5. CASE ok
    <3>1. v[a] = next /\ next.nonce = t.nonce
      BY <2>2, <2>5 DEF AfterSpend
    <3>2. t.nonce = row.nonce + 1 /\ ~Unfunded(row)
      BY <2>5 DEF Admissible
    <3>3. ~Unfunded(d)
      BY <1>5, <2>1, <3>2
    <3>4. InOrder(r, a, d.nonce) /\ k = n + 1 /\ t.nonce = d.nonce + (n + 1)
      BY <1>2, <1>3, <1>4, <1>5, <1>8, <2>1, <3>2
    <3>5. k # 0 /\ next.nonce = d.nonce + k
      BY <1>3, <3>1, <3>4
    <3> HIDE DEF c, row, d, n, v, r, next
    <3>6. InStep(c.m.acc, v, r, a)
      BY <1>1, <2>3, <3>1, <3>3, <3>4, <3>5 DEF InStep, d
    <3>7. c.err = "ok"
      BY <1>1, <2>5
    <3> QED BY <3>6, <3>7 DEF c, v, r
  <2> QED BY <2>4, <2>5
<1> QED BY <1>7, <1>8

\* The rows that are in step before the recheck of a list are so after it, with
\* what the recheck kept.
Rechecked(m, r) ==
  /\ r.m \in MState /\ r.keep \in Seq(Txs) /\ Reads(m.acc, r.m.acc)
  /\ \A a \in Accts : /\ InStep(m.acc, m.unconf, <<>>, a)
                      /\ m.acc.records[a] \in {NoRow, m.acc.db[a]}
                      => /\ InStep(r.m.acc, r.m.unconf, r.keep, a)
                         /\ r.m.acc.records[a] \in {NoRow, r.m.acc.db[a]}

\* The check of one more transaction keeps this.
LEMMA RecheckedStep ==
  ASSUME NEW m \in MState, NEW r \in [m : MState, keep : Seq(Txs)], Rechecked(m, r),
         NEW t \in Txs
  PROVE  Rechecked(m, RecheckStep(r, t))
<1> DEFINE c == ApplyTransaction(r.m, t)
           x == RecheckStep(r, t)
<1>0. r.m \in MState /\ r.keep \in Seq(Txs)
  OBVIOUS
<1>1. c.m \in MState /\ Reads(r.m.acc, c.m.acc)
  BY <1>0, ApplyFacts
<1>2. x.m = c.m /\ x.keep = IF c.err = "ok" THEN Append(r.keep, t) ELSE r.keep
  BY DEF RecheckStep
<1>3. x.keep \in Seq(Txs)
  BY <1>0, <1>2
<1>4. Reads(m.acc, c.m.acc)
  BY <1>1, ReadsTwice DEF Rechecked
<1>5. ASSUME NEW a \in Accts, InStep(m.acc, m.unconf, <<>>, a),
             m.acc.records[a] \in {NoRow, m.acc.db[a]}
      PROVE  /\ InStep(c.m.acc, c.m.unconf, x.keep, a)
             /\ c.m.acc.records[a] \in {NoRow, c.m.acc.db[a]}
  <2>1. /\ InStep(r.m.acc, r.m.unconf, r.keep, a)
        /\ r.m.acc.records[a] \in {NoRow, r.m.acc.db[a]}
    BY <1>5 DEF Rechecked
  <2>2. InStep(c.m.acc, c.m.unconf, IF c.err = "ok" THEN Append(r.keep, t) ELSE r.keep, a)
    BY <1>0, <2>1, ApplyInStep
  <2>3. c.m.acc.records[a] \in {NoRow, c.m.acc.db[a]}
    BY <1>1, <2>1 DEF Reads
  <2> QED BY <1>2, <2>2, <2>3
<1> HIDE DEF c, x
<1> QED BY <1>1, <1>2, <1>3, <1>4, <1>5 DEF Rechecked, x

\* RecheckTxs keeps the unconfirmed accounts in step with what it keeps.
LEMMA RecheckFacts ==
  ASSUME NEW m \in MState, NEW s \in Seq(Txs)
  PROVE  Rechecked(m, Recheck(m, s))
<1>1. PICK g \in [0 .. Len(s) -> [m : MState, keep : Seq(Txs)]] :
        /\ g[0] = [m |-> m, keep |-> <<>>] /\ Recheck(m, s) = g[Len(s)]
        /\ \A k \in 1 .. Len(s) : g[k] = RecheckStep(g[k - 1], s[k])
  BY RecheckSteps
<1> DEFINE n == Len(s)
           S == {k \in 0 .. n : Rechecked(m, g[k])}
<1>2. n \in Nat
  OBVIOUS
<1>3. 0 \in S
  <2>1. 0 \in 0 .. n /\ g[0].m = m /\ g[0].keep = <<>> /\ <<>> \in Seq(Txs)
    BY <1>1, <1>2
  <2>2. Reads(m.acc, m.acc)
    BY ReadsNothing, MStateMaps
  <2>3. Rechecked(m, g[0])
    BY <2>1, <2>2 DEF Rechecked
  <2> QED BY <2>1, <2>3
<1>4. ASSUME NEW k \in 1 .. n, k - 1 \in S PROVE k \in S
  <2>1. k \in 0 .. n /\ k - 1 \in 0 .. n /\ k \in 1 .. Len(s)
    BY <1>2
  <2>2. g[k - 1] \in [m : MState, keep : Seq(Txs)] /\ s[k] \in Txs
    BY <2>1
  <2>3. Rechecked(m, RecheckStep(g[k - 1], s[k]))
    BY <1>4, <2>2, RecheckedStep
  <2> QED BY <1>1, <2>1, <2>3
<1> HIDE DEF S
<1>5. \A k \in 0 .. n : k \in S
  BY <1>2, <1>3, <1>4, UpTo
<1>6. n \in S
  BY <1>2, <1>5
<1> QED BY <1>1, <1>6 DEF S

\* The count never goes down.
LEMMA SentGrows ==
  ASSUME NEW s, NEW i \in Nat, NEW j \in Nat, i <= j, NEW a
  PROVE  Sent(s, i, a) <= Sent(s, j, a)
<1> DEFINE I == {k \in 1 .. i : s[k].from = a}
           J == {k \in 1 .. j : s[k].from = a}
<1>1. IsFiniteSet(1 .. j)
  <2>1. 1 \in Int /\ j \in Int
    OBVIOUS
  <2> QED BY <2>1, FS_Interval
<1>2. J \in SUBSET (1 .. j) /\ I \in SUBSET J
  OBVIOUS
<1>3. Sent(s, i, a) = Cardinality(I) /\ Sent(s, j, a) = Cardinality(J)
  BY DEF Sent
<1> HIDE DEF I, J
<1>4. IsFiniteSet(J)
  BY <1>1, <1>2, FS_Subset
<1> QED BY <1>2, <1>3, <1>4, FS_Subset

----------------------------------------------------------------------------
(* What a proposal takes out of the pool.                                  *)

\* The screening of the proposal leaves the transactions of a sender whose
\* nonces follow one another, and whom it can see funded.
LEMMA ScreenedKeeps ==
  ASSUME acc \in Store, NEW p \in Seq(Txs), NEW a \in Accts,
         acc.records[a] \in {NoRow, acc.db[a]},
         InStep(acc, unconf, p, a)
  PROVE  \A t \in Screened(NonceOrdered(PeekN(p))).invalid : t \in Txs /\ t.from # a
<1> DEFINE x == PeekN(p)
           s == NonceOrdered(x)
           n == Len(s)
           d == OrEmpty(acc.db[a])
<1>1. x \in Seq(Txs) /\ Len(x) <= Len(p) /\ \A i \in 1 .. Len(x) : x[i] = p[i]
  BY PeekNFacts
<1> HIDE DEF x
<1>2. s \in Seq(Txs) /\ n = Len(x)
  BY <1>1, NonceOrderedFacts
<1>3. PICK f \in [1 .. Len(x) -> 1 .. Len(x)] :
        /\ \A i \in 1 .. Len(x) : s[i] = x[f[i]] /\ x[f[i]].from = x[i].from
        /\ \A i, j \in 1 .. Len(x) : f[i] = f[j] => i = j
  BY <1>1, NonceOrderedFacts
<1>4. d \in Row /\ d.nonce \in Nat
  BY StoreMaps, RowFacts DEF Row
<1>5. \A i \in 1 .. Len(p) : p[i].from = a => p[i].nonce = d.nonce + Sent(p, i, a)
  BY DEF InStep, InOrder
<1>6. ASSUME NEW i \in 1 .. Len(p), NEW j \in 1 .. Len(p), p[i].from = a, p[j].from = a, i < j
      PROVE  Sent(p, i, a) < Sent(p, j, a)
  <2>1. j \in Nat /\ j > 0 /\ j - 1 \in Nat /\ i \in Nat
    OBVIOUS
  <2>2. Sent(p, j, a) = Sent(p, j - 1, a) + 1
    BY <1>6, <2>1, SentAt
  <2>3. Sent(p, i, a) <= Sent(p, j - 1, a)
    BY <1>6, <2>1, SentGrows
  <2>4. Sent(p, i, a) \in Nat /\ Sent(p, j - 1, a) \in Nat
    BY <2>1, SentFacts
  <2> QED BY <2>2, <2>3, <2>4
<1>7. ASSUME NEW i \in 1 .. n
      PROVE  /\ f[i] \in 1 .. Len(p) /\ s[i] = p[f[i]]
             /\ s[i].from = a => s[i].nonce = d.nonce + Sent(p, f[i], a)
  <2>1. i \in 1 .. Len(x)
    BY <1>2
  <2>2. f[i] \in 1 .. Len(x)
    BY <1>3, <2>1
  <2>3. f[i] \in 1 .. Len(p) /\ s[i] = p[f[i]]
    BY <1>1, <1>3, <2>1, <2>2
  <2> QED BY <1>5, <2>3
<1>8. ASSUME NEW i \in 1 .. n, s[i].from = a
      PROVE  s[i].nonce # 0 /\ ~Unfunded(d)
  <2> DEFINE j == f[i]
  <2>1. j \in 1 .. Len(p) /\ p[j].from = a /\ s[i].nonce = d.nonce + Sent(p, j, a)
    BY <1>7, <1>8
  <2> HIDE DEF j
  <2>2. j \in Nat /\ j > 0 /\ Len(p) \in Nat /\ j <= Len(p)
    BY <2>1
  <2>3. Sent(p, j, a) = Sent(p, j - 1, a) + 1 /\ Sent(p, j - 1, a) \in Nat
    BY <2>1, <2>2, SentAt
  <2>4. Sent(p, j, a) <= Sent(p, Len(p), a) /\ Sent(p, Len(p), a) \in Nat
    BY <2>2, SentGrows, SentFacts
  <2>5. Sent(p, Len(p), a) # 0
    BY <2>3, <2>4
  <2> QED BY <1>4, <2>1, <2>3, <2>5 DEF InStep
<1>9. ASSUME NEW i \in 1 .. n, NEW j \in 1 .. n, i # j, s[i].from = a, s[j].from = a
      PROVE  s[i].nonce # s[j].nonce
  <2>1. f[i] # f[j]
    BY <1>2, <1>3, <1>9
  <2>2. /\ f[i] \in 1 .. Len(p) /\ p[f[i]].from = a /\ s[i].nonce = d.nonce + Sent(p, f[i], a)
        /\ f[j] \in 1 .. Len(p) /\ p[f[j]].from = a /\ s[j].nonce = d.nonce + Sent(p, f[j], a)
    BY <1>7, <1>9
  <2>3. f[i] < f[j] \/ f[j] < f[i]
    BY <2>1, <2>2
  <2>4. Sent(p, f[i], a) # Sent(p, f[j], a) /\ Sent(p, f[i], a) \in Nat /\ Sent(p, f[j], a) \in Nat
    <3>1. f[i] \in Nat /\ f[j] \in Nat
      BY <2>2
    <3>2. Sent(p, f[i], a) \in Nat /\ Sent(p, f[j], a) \in Nat
      BY <3>1, SentFacts
    <3> QED BY <1>6, <2>2, <2>3, <3>2
  <2> QED BY <1>4, <2>2, <2>4
<1> HIDE DEF s
<1>10. PICK g \in [0 .. Len(s) -> ScreenState] :
         /\ g[0] = [keep |-> <<>>, invalid |-> {}, last |-> [y \in Accts |-> -1]]
         /\ Screened(s) = g[Len(s)]
         /\ \A k \in 1 .. Len(s) : g[k] = ScreenStep(g[k - 1], s[k])
  BY <1>2, ScreenSteps
<1> DEFINE Known(k) == \/ g[k].last[a] = -1
                       \/ \E i \in 1 .. k : s[i].from = a /\ g[k].last[a] = s[i].nonce
           S == {k \in 0 .. n : Known(k) /\ \A t \in g[k].invalid : t.from # a}
<1>11. n \in Nat
  BY <1>2
<1>12. 0 \in S
  BY <1>10, <1>11
<1>13. ASSUME NEW k \in 1 .. n, k - 1 \in S PROVE k \in S
  <2> DEFINE r == g[k - 1]
             t == s[k]
             bad == t.nonce = r.last[t.from]
                    \/ Unfunded(OrEmpty(Lookup(acc, t.from, FALSE, acc.db)))
  <2>1. k \in 0 .. n /\ k - 1 \in 0 .. n /\ k \in 1 .. Len(s) /\ k \in Nat
    BY <1>11
  <2>2. r \in ScreenState /\ t \in Txs /\ r.last \in [Accts -> Int]
    <3>1. r \in ScreenState
      BY <1>10, <2>1
    <3>2. t \in Txs
      BY <1>2, <2>1
    <3> HIDE DEF r
    <3> QED BY <3>1, <3>2 DEF ScreenState
  <2>3. g[k] = ScreenStep(r, t)
    BY <1>10, <2>1
  <2>4. /\ g[k].invalid = IF bad THEN r.invalid \cup {t} ELSE r.invalid
        /\ g[k].last = IF bad THEN r.last ELSE [r.last EXCEPT ![t.from] = t.nonce]
    <3> HIDE DEF r, t
    <3> QED BY <2>2, <2>3, ScreenStepFacts
  <2>5. Known(k - 1) /\ \A y \in r.invalid : y.from # a
    BY <1>13
  <2>6. CASE t.from # a
    <3>1. g[k].last[a] = r.last[a]
      BY <2>2, <2>4, <2>6
    <3>2. Known(k)
      BY <2>1, <2>5, <3>1
    <3>3. \A y \in g[k].invalid : y.from # a
      BY <2>4, <2>5, <2>6
    <3> QED BY <2>1, <3>2, <3>3
  <2>7. CASE t.from = a
    <3>1. t.nonce # r.last[a]
      <4>1. t.nonce # -1
        BY <2>2, TxFields
      <4>2. ASSUME NEW i \in 1 .. k - 1, s[i].from = a PROVE s[i].nonce # t.nonce
        <5>1. i \in 1 .. n /\ i # k
          BY <1>11, <2>1
        <5> QED BY <1>9, <2>7, <4>2, <5>1
      <4> QED BY <2>5, <4>1, <4>2
    <3>2. ~Unfunded(OrEmpty(Lookup(acc, a, FALSE, acc.db)))
      <4>1. OrEmpty(Lookup(acc, a, FALSE, acc.db)) = d
        BY DEF Lookup
      <4> QED BY <1>8, <2>7, <4>1
    <3>3. ~bad
      BY <2>7, <3>1, <3>2
    <3>4. g[k].last[a] = t.nonce
      BY <2>2, <2>4, <2>7, <3>3
    <3>5. g[k].invalid = r.invalid
      BY <2>4, <3>3
    <3>6. Known(k)
      BY <2>1, <2>7, <3>4
    <3> QED BY <2>1, <2>5, <3>5, <3>6
  <2> QED BY <2>6, <2>7
<1> HIDE DEF S
<1>14. \A k \in 0 .. n : k \in S
  BY <1>11, <1>12, <1>13, UpTo
<1>15. n \in S /\ n \in 0 .. n
  BY <1>11, <1>14
<1>16. g[n].invalid \in SUBSET Txs
  BY <1>10, <1>15 DEF ScreenState
<1> QED BY <1>10, <1>15, <1>16 DEF S, s, x

\* The balance check of a proposal reads through the cache.
LEMMA ScreenReadsFacts ==
  ASSUME acc \in Store, NEW s
  PROVE  Reads(acc, ScreenReads(s))
<1> DEFINE c == ScreenReads(s)
           senders == {s[i].from : i \in 1 .. Len(s)}
           new == [a \in Accts |-> IF GasEnabled /\ a \in senders /\ acc.records[a] = NoRow
                                   THEN acc.db[a] ELSE acc.records[a]]
<1>1. c = [acc EXCEPT !.records = new]
  BY DEF ScreenReads
<1>2. acc.records \in Rows /\ acc.db \in Rows
  BY StoreMaps
<1>3. new \in Rows
  BY <1>2 DEF Rows
<1>4. \A x \in Accts : \/ new[x] = acc.records[x]
                       \/ acc.records[x] = NoRow /\ new[x] = acc.db[x]
  OBVIOUS
<1> HIDE DEF new, c
<1>5. c \in Store /\ c.records = new /\ c.db = acc.db /\ c.work = acc.work /\ c.updates = acc.updates
  BY <1>1, <1>3 DEF Store
<1> QED BY <1>4, <1>5 DEF Reads, c

----------------------------------------------------------------------------
(* The inductive invariant.                                                *)

\* Where an admission can be
Stages == {"out", "store", "check", "signal", "send", "leave"}

\* Where everybody is: an admission between its call of Store and its Unlock
\* has the lock, a commit too; a recheck is due only after a rollback or a
\* reset; no charge of a block is left when no block is executed.
Places ==
  /\ at \in [Admitters -> Stages] /\ item \in [Admitters -> Txs \cup {NoRow}]
  /\ \A q \in Admitters : at[q] # "out" => item[q] \in Txs
  /\ \A q \in Admitters : at[q] \in {"check", "signal", "send", "leave"} => q \in inside
  /\ pc \in {"applied", "cleaned"} => Loop \in inside
  /\ pc \in {"recheck", "rechecking", "recheck held", "rechecking held"} => stale
  /\ Committed => spent = <<>>

\* The account between the two commits of a block.
Applied(s, a) ==
  /\ s.work[a] = s.db[a]
  /\ s.updates[a] # NoRow => s.db[a] = s.updates[a]
  /\ s.updates[a] = NoRow => s.records[a] \in {NoRow, s.db[a]}

\* What the store has of each account: Fresh outside the two commits of a block,
\* and no more than committed unless the open block's row was read (early).
StoreInv ==
  \A a \in Accts :
    /\ a \notin phantom /\ pc # "applied" => Fresh(acc, a)
    /\ a \notin phantom \cup early /\ pc # "applied" => acc.records[a] \in {NoRow, acc.db[a]}
    /\ a \notin phantom /\ pc = "applied" => Applied(acc, a)
    /\ a \notin phantom /\ pc = "cleaned" => acc.work[a] = acc.db[a]

\* The charges that the block's transaction has counted.
Counted == IF pc \in {"applied", "cleaned"} THEN charged ELSE charged \o spent

\* The rows count the charges, in the block and in the committed state.
Counts(s, rows, a) ==
  LET g == OrEmpty(Genesis[a]).nonce
  IN  InOrder(s, a, g) /\ OrEmpty(rows[a]).nonce = g + Sent(s, Len(s), a)

\* Of every account that no rolled back block left in the cache.
ChargeInv ==
  \A a \in Accts \ phantom : Counts(Counted, acc.work, a) /\ Counts(charged, acc.db, a)

\* No row has tokens that genesis did not have.
TokenInv ==
  phantom = {} => Total(acc.work) <= Total(Genesis) /\ Total(acc.db) <= Total(Genesis)

\* p is the pool without the transaction that is being checked.
Settled(p) ==
  \/ p = pool /\ \A q \in Admitters : at[q] # "check"
  \/ \E q \in Admitters : /\ at[q] = "check" /\ pool = Append(p, item[q])
                          /\ \A k \in 1 .. Len(p) : p[k] # item[q]

\* The accounts whose record may be another row than the committed one
Excepted == early \cup phantom

\* After the unconfirmed accounts are dropped by a commit they are committed
\* rows; outside a commit the settled pool continues the committed nonces.
PoolInv ==
  /\ pc = "cleaned" =>
       \A a \in Accts \ Excepted : unconf[a] \in {NoRow, OrEmpty(acc.db[a])}
  /\ ~stale /\ pc \notin {"applied", "cleaned"} =>
       \E p \in Seq(Txs) :
         Settled(p) /\ \A a \in Accts \ Excepted : InStep(acc, unconf, p, a)

\* The inductive invariant
Inv == TypeOK /\ Places /\ StoreInv /\ ChargeInv /\ TokenInv /\ PoolInv

\* Reads keep what the store has of each account.
LEMMA ReadsKeep ==
  ASSUME NEW s, NEW c, Reads(s, c), NEW a \in Accts
  PROVE  /\ Fresh(s, a) => Fresh(c, a)
         /\ Applied(s, a) => Applied(c, a)
         /\ s.records[a] \in {NoRow, s.db[a]} => c.records[a] \in {NoRow, c.db[a]}
  BY DEF Reads, Fresh, Applied

\* An eviction is a special case of what Reads allows.
LEMMA EvictFacts ==
  ASSUME NEW s \in Store, NEW a \in Accts
  PROVE  Reads(s, Evict(s, a))
<1> DEFINE recs == [s.records EXCEPT ![a] = NoRow]
           c == Evict(s, a)
<1>1. recs \in Rows /\ \A x \in Accts : recs[x] \in {s.records[x], NoRow}
  BY StoreMaps DEF Rows
<1>2. c = [db |-> s.db, work |-> s.work, records |-> recs, updates |-> s.updates]
  BY DEF Evict, Store
<1> HIDE DEF recs, c
<1>3. c \in Store
  BY <1>1, <1>2, StoreMaps DEF Store
<1> QED BY <1>1, <1>2, <1>3 DEF Reads, c

----------------------------------------------------------------------------
(* What the steps of the node do to the account store.                     *)

\* The variables make a state of the mempool.
LEMMA MempoolState ==
  ASSUME acc \in Store, unconf \in Rows
  PROVE  LET m == [unconf |-> unconf, acc |-> acc]
         IN  m \in MState /\ m.unconf = unconf /\ m.acc = acc
  BY DEF MState

\* RecheckTxs as a step only reads the store, and keeps in step what was.
LEMMA RecheckPoolFacts ==
  ASSUME acc \in Store, unconf \in Rows, NEW s \in Seq(Txs), RecheckPool(acc, unconf, s)
  PROVE  /\ pool' \in Seq(Txs) /\ unconf' \in Rows /\ Reads(acc, acc')
         /\ \A a \in Accts : /\ InStep(acc, unconf, <<>>, a)
                             /\ acc.records[a] \in {NoRow, acc.db[a]}
                             => InStep(acc', unconf', pool', a)
<1> DEFINE m == [unconf |-> unconf, acc |-> acc]
           r == Recheck(m, s)
<1>1. m \in MState /\ m.unconf = unconf /\ m.acc = acc
  BY MempoolState
<1>2. pool' = r.keep /\ unconf' = r.m.unconf /\ acc' = r.m.acc
  BY DEF RecheckPool
<1> HIDE DEF m
<1>3. Rechecked(m, r)
  BY <1>1, RecheckFacts
<1>4. r.m \in MState /\ r.m.unconf \in Rows
  BY <1>3, MStateMaps DEF Rechecked
<1> HIDE DEF r
<1> QED BY <1>1, <1>2, <1>3, <1>4 DEF Rechecked

\* Between the two commits of a block and its recheck
Between == {"applied", "cleaned"}

\* The store is read at most, or a block begins; charges and rollbacks stay.
Quiet ==
  /\ Reads(acc, acc') /\ UNCHANGED <<charged, early, phantom, spent>>
  /\ pc' = pc \/ (pc \notin Between /\ pc' \notin Between)

\* A transaction of the block is executed.
Executes ==
  /\ pc = "exec" /\ UNCHANGED <<pc, charged, phantom>>
  /\ \E t \in Txs : LET r == ExecuteRoute(acc, t)
                    IN  acc' = r.s /\ spent' = IF r.charged THEN Append(spent, t) ELSE spent
  /\ early' = early \cup Ahead(acc')

\* The commit is over.
Ends ==
  /\ pc = "cleaned" /\ pc' \notin Between
  /\ Reads(acc, acc') /\ spent' = <<>> /\ UNCHANGED <<charged, early, phantom>>

\* The block is rolled back.
RollsBack == RollbackBlock /\ pc \notin Between /\ pc' \notin Between /\ UNCHANGED charged

\* What a step of the node may do to the store
StoreStep == Quiet \/ Executes \/ CommitDB \/ CommitTxApp \/ Ends \/ RollsBack

\* A round begins outside every commit.
LEMMA StartFacts == Start \in {"newRound", "idle"}
  BY DEF Start

\* Admissions and requests read accounts through the cache.
LEMMA AdmissionsRead ==
  ASSUME TypeOK, Places, NEW q \in Admitters, AdmissionStep(q)
  PROVE  Quiet
<1>1. acc \in Store /\ unconf \in Rows /\ Reads(acc, acc)
  BY ReadsNothing DEF TypeOK
<1>2. CASE CheckTx(q)
  <2> DEFINE m == [unconf |-> unconf, acc |-> acc]
             c == ApplyTransaction(m, item[q])
  <2>1. m \in MState /\ m.acc = acc
    BY <1>1, MempoolState
  <2>2. item[q] \in Txs
    BY <1>2 DEF CheckTx, Places
  <2>3. acc' = c.m.acc /\ UNCHANGED <<charged, early, phantom, spent, pc>>
    BY <1>2 DEF CheckTx, history, blockVars
  <2> HIDE DEF m
  <2>4. Reads(m.acc, c.m.acc)
    BY <2>1, <2>2, ApplyFacts
  <2> QED BY <2>1, <2>3, <2>4 DEF Quiet
<1>3. CASE StoreTx(q) \/ SignalReady(q) \/ SendReady(q) \/ LeaveQueueTx(q)
  <2>1. UNCHANGED <<acc, charged, early, phantom, spent, pc>>
    BY <1>3 DEF StoreTx, SignalReady, SendReady, LeaveQueueTx, history, blockVars
  <2> QED BY <1>1, <2>1 DEF Quiet
<1> QED BY <1>2, <1>3 DEF AdmissionStep

\* The event loop reads, executes, commits in two steps, and ends the commit.
LEMMA LoopStores ==
  ASSUME TypeOK, Places, LoopStep
  PROVE  StoreStep
<1>1. /\ acc \in Store /\ unconf \in Rows /\ Reads(acc, acc)
      /\ pool \in Seq(Txs) /\ blk \in Seq(Txs)
  BY ReadsNothing DEF TypeOK
<1>2. CASE NewBlockRound \/ WakeUp \/ ProposeBlock \/ FinishExecution \/ BeginCommit \/ BeginRecheck
  <2>1. UNCHANGED <<acc, charged, early, phantom, spent>> /\ pc \notin Between /\ pc' \notin Between
    BY <1>2 DEF NewBlockRound, WakeUp, ProposeBlock, FinishExecution, BeginCommit, BeginRecheck,
                history, blockVars, Between
  <2> QED BY <1>1, <2>1 DEF Quiet, StoreStep
<1>3. CASE CreateBlockProposal
  <2>1. /\ acc' = ScreenReads(NonceOrdered(PeekN(pool)))
        /\ UNCHANGED <<charged, early, phantom>> /\ spent' = <<>>
        /\ pc = "proposing" /\ pc' = "exec"
    BY <1>3 DEF CreateBlockProposal, history
  <2>2. spent = <<>>
    BY <2>1 DEF Places, Committed
  <2>3. Reads(acc, acc')
    BY <1>1, <2>1, ScreenReadsFacts
  <2> QED BY <2>1, <2>2, <2>3 DEF Quiet, StoreStep, Between
<1>4. CASE ExecuteTx
  <2>1. blk[done + 1] \in Txs
    BY <1>1, <1>4 DEF ExecuteTx, TypeOK
  <2>2. Executes
    BY <1>4, <2>1 DEF ExecuteTx, Executes, history
  <2> QED BY <2>2 DEF StoreStep
<1>5. CASE CommitDB \/ CommitTxApp
  BY <1>5 DEF StoreStep
<1>6. CASE FinishCommit
  <2>1. Without(pool, ToSet(blk)) \in Seq(Txs)
    BY <1>1, WithoutTxs
  <2>2. RecheckPool(acc, unconf, Without(pool, ToSet(blk)))
    BY <1>6 DEF FinishCommit
  <2>3. Reads(acc, acc')
    BY <1>1, <2>1, <2>2, RecheckPoolFacts
  <2>4. pc = "cleaned" /\ pc' = Start /\ spent' = <<>> /\ UNCHANGED <<charged, early, phantom>>
    BY <1>6 DEF FinishCommit
  <2> QED BY <2>3, <2>4, StartFacts DEF Ends, StoreStep, Between
<1>7. CASE FinishRecheck
  <2>1. RecheckPool(acc, unconf, pool)
    BY <1>7 DEF FinishRecheck
  <2>2. Reads(acc, acc')
    BY <1>1, <2>1, RecheckPoolFacts
  <2>3. pc \notin Between /\ pc' \notin Between /\ UNCHANGED <<charged, early, phantom, spent>>
    BY <1>7 DEF FinishRecheck, Between, history, blockVars
  <2> QED BY <2>2, <2>3 DEF Quiet, StoreStep
<1> QED BY <1>2, <1>3, <1>4, <1>5, <1>6, <1>7 DEF LoopStep

\* What comes from outside reads the store, or rolls the block back.
LEMMA EnvironmentStores ==
  ASSUME TypeOK, Places, Environment
  PROVE  StoreStep
<1>1. /\ acc \in Store /\ unconf \in Rows /\ Reads(acc, acc) /\ pool \in Seq(Txs)
  BY ReadsNothing DEF TypeOK
<1>2. ASSUME NEW q \in Admitters, NEW t \in Txs, QueueTx(q, t)
      PROVE  StoreStep
  <2>1. UNCHANGED <<acc, charged, early, phantom, spent, pc>>
    BY <1>2 DEF QueueTx, history, blockVars
  <2> QED BY <1>1, <2>1 DEF Quiet, StoreStep
<1>3. ASSUME NEW a \in Accts, AccountInfo(a)
      PROVE  StoreStep
  <2> DEFINE m == [unconf |-> unconf, acc |-> acc]
  <2>1. m \in MState /\ m.acc = acc
    BY <1>1, MempoolState
  <2>2. acc' = WithAccount(m, a).acc /\ UNCHANGED <<charged, early, phantom, spent, pc>>
    BY <1>3 DEF AccountInfo, history, blockVars
  <2> HIDE DEF m
  <2>3. Reads(m.acc, WithAccount(m, a).acc)
    BY <2>1, WithAccountFacts
  <2> QED BY <2>1, <2>2, <2>3 DEF Quiet, StoreStep
<1>3a. ASSUME NEW a \in Accts, EvictRecord(a)
       PROVE  StoreStep
  <2>1. acc' = Evict(acc, a) /\ UNCHANGED <<charged, early, phantom, spent, pc>>
    BY <1>3a DEF EvictRecord, history, blockVars
  <2>2. Reads(acc, acc')
    BY <1>1, <2>1, EvictFacts
  <2> QED BY <2>1, <2>2 DEF Quiet, StoreStep
<1>4. CASE ReceiveBlock
  <2>1. /\ UNCHANGED <<acc, charged, early, phantom>> /\ spent' = <<>>
        /\ pc = "idle" /\ pc' = "exec"
    BY <1>4 DEF ReceiveBlock, history
  <2>2. spent = <<>>
    BY <2>1 DEF Places, Committed
  <2> QED BY <1>1, <2>1, <2>2 DEF Quiet, StoreStep, Between
<1>5. ASSUME NEW T, CancelBlockExecution(T)
      PROVE  StoreStep
  <2>1. RollsBack
    BY <1>5 DEF CancelBlockExecution, RollsBack, Between
  <2> QED BY <2>1 DEF StoreStep
<1>6. ASSUME NEW T, ResetBlockProp(T)
      PROVE  StoreStep
  <2>1. CASE RollbackBlock /\ pc \in {"exec", "executed"} /\ pc' \in {"idle", "recheck"}
    <3>1. RollsBack
      BY <1>6, <2>1 DEF ResetBlockProp, RollsBack, Between
    <3> QED BY <3>1 DEF StoreStep
  <2>2. CASE /\ UNCHANGED <<acc, blockVars, early, phantom>> /\ pc \in {"idle", "executed"}
             /\ pc' \in {"recheck", "recheck held"}
    <3>1. UNCHANGED <<acc, charged, early, phantom, spent>>
      BY <1>6, <2>2 DEF ResetBlockProp, blockVars
    <3> QED BY <1>1, <2>2, <3>1 DEF Quiet, StoreStep, Between
  <2> QED BY <1>6, <2>1, <2>2 DEF ResetBlockProp
<1>7. CASE RollbackState
  <2>1. RollsBack
    BY <1>7, StartFacts DEF RollbackState, RollsBack, Between
  <2> QED BY <2>1 DEF StoreStep
<1>8. CASE CatchupRecheck
  <2>1. RecheckPool(acc, unconf, pool) /\ UNCHANGED <<charged, early, phantom, spent, pc>>
    BY <1>8 DEF CatchupRecheck, blockVars
  <2>2. Reads(acc, acc')
    BY <1>1, <2>1, RecheckPoolFacts
  <2> QED BY <2>1, <2>2 DEF Quiet, StoreStep
<1> QED BY <1>2, <1>3, <1>3a, <1>4, <1>5, <1>6, <1>7, <1>8 DEF Environment

\* Every step is one of these.
LEMMA StoreSteps ==
  ASSUME TypeOK, Places, [Next]_vars
  PROVE  StoreStep
<1>1. CASE UNCHANGED vars
  <2>1. UNCHANGED <<acc, charged, early, phantom, spent, pc>>
    BY <1>1 DEF vars, history, blockVars
  <2>2. Reads(acc, acc)
    BY ReadsNothing DEF TypeOK
  <2> QED BY <2>1, <2>2 DEF Quiet, StoreStep
<1> QED BY <1>1, AdmissionsRead, LoopStores, EnvironmentStores DEF Next, StoreStep

\* What the two commits and the rollback do to each map
LEMMA StoreUpdates ==
  ASSUME NEW s \in Store
  PROVE  /\ CommitRows(s) \in Store /\ CommitRows(s).db = s.work /\ CommitRows(s).work = s.work
         /\ CommitRows(s).records = s.records /\ CommitRows(s).updates = s.updates
         /\ CommitAccounts(s) \in Store /\ CommitAccounts(s).db = s.db
         /\ CommitAccounts(s).work = s.work
         /\ \A a \in Accts : /\ CommitAccounts(s).updates[a] = NoRow
                             /\ CommitAccounts(s).records[a] =
                                  IF s.updates[a] # NoRow THEN s.updates[a] ELSE s.records[a]
         /\ RollbackAccounts(s) \in Store /\ RollbackAccounts(s).db = s.db
         /\ RollbackAccounts(s).work = s.db /\ RollbackAccounts(s).records = s.records
         /\ \A a \in Accts : RollbackAccounts(s).updates[a] = NoRow
<1>1. /\ s.db \in Rows /\ s.work \in Rows /\ s.records \in Rows /\ s.updates \in Rows
      /\ NoRows \in Rows /\ \A a \in Accts : NoRows[a] = NoRow
  BY StoreMaps DEF Rows, NoRows
<1>2. /\ CommitRows(s) \in Store /\ CommitRows(s).db = s.work /\ CommitRows(s).work = s.work
      /\ CommitRows(s).records = s.records /\ CommitRows(s).updates = s.updates
  BY <1>1 DEF CommitRows, Store
<1>3. /\ CommitAccounts(s) \in Store /\ CommitAccounts(s).db = s.db
      /\ CommitAccounts(s).work = s.work
      /\ \A a \in Accts : /\ CommitAccounts(s).updates[a] = NoRow
                          /\ CommitAccounts(s).records[a] =
                               IF s.updates[a] # NoRow THEN s.updates[a] ELSE s.records[a]
  <2> DEFINE new == [a \in Accts |-> IF s.updates[a] # NoRow THEN s.updates[a] ELSE s.records[a]]
             c == [[s EXCEPT !.records = new] EXCEPT !.updates = NoRows]
  <2>1. CommitAccounts(s) = c
    BY DEF CommitAccounts, Store
  <2>2. new \in Rows
    BY <1>1 DEF Rows
  <2>3. \A a \in Accts : new[a] = IF s.updates[a] # NoRow THEN s.updates[a] ELSE s.records[a]
    OBVIOUS
  <2> HIDE DEF new
  <2>4. c \in Store /\ c.db = s.db /\ c.work = s.work /\ c.records = new /\ c.updates = NoRows
    BY <1>1, <2>2 DEF Store
  <2> QED BY <1>1, <2>1, <2>3, <2>4
<1>4. /\ RollbackAccounts(s) \in Store /\ RollbackAccounts(s).db = s.db
      /\ RollbackAccounts(s).work = s.db /\ RollbackAccounts(s).records = s.records
      /\ \A a \in Accts : RollbackAccounts(s).updates[a] = NoRow
  <2> DEFINE c == [[s EXCEPT !.work = s.db] EXCEPT !.updates = NoRows]
  <2>1. RollbackAccounts(s) = c
    BY DEF RollbackAccounts, Store
  <2>2. c \in Store /\ c.db = s.db /\ c.work = s.db /\ c.records = s.records /\ c.updates = NoRows
    BY <1>1 DEF Store
  <2> QED BY <1>1, <2>1, <2>2
<1> QED BY <1>2, <1>3, <1>4

\* What the store has of an account is kept.
LEMMA StoreKept ==
  ASSUME acc \in Store, StoreInv, StoreStep
  PROVE  StoreInv'
<1> SUFFICES ASSUME NEW a \in Accts, a \notin phantom'
             PROVE  /\ pc' # "applied" => Fresh(acc', a)
                    /\ a \notin early' /\ pc' # "applied" => acc'.records[a] \in {NoRow, acc'.db[a]}
                    /\ pc' = "applied" => Applied(acc', a)
                    /\ pc' = "cleaned" => acc'.work[a] = acc'.db[a]
  BY DEF StoreInv
<1>0. phantom \subseteq phantom'
  BY DEF StoreStep, Quiet, Executes, CommitDB, CommitTxApp, Ends, RollsBack, RollbackBlock
<1>1. /\ pc # "applied" => Fresh(acc, a)
      /\ a \notin early /\ pc # "applied" => acc.records[a] \in {NoRow, acc.db[a]}
      /\ pc = "applied" => Applied(acc, a)
      /\ pc = "cleaned" => acc.work[a] = acc.db[a]
  BY <1>0 DEF StoreInv
<1>2. CASE Quiet
  <2>1. /\ Fresh(acc, a) => Fresh(acc', a)
        /\ Applied(acc, a) => Applied(acc', a)
        /\ acc.records[a] \in {NoRow, acc.db[a]} => acc'.records[a] \in {NoRow, acc'.db[a]}
        /\ acc'.work = acc.work /\ acc'.db = acc.db
    BY <1>2, ReadsKeep DEF Quiet, Reads
  <2>2. early' = early /\ (pc' = pc \/ (pc \notin Between /\ pc' \notin Between))
    BY <1>2 DEF Quiet
  <2> QED BY <1>1, <2>1, <2>2 DEF Between
<1>3. CASE Executes
  <2>1. PICK t \in Txs : acc' = ExecuteRoute(acc, t).s
    BY <1>3 DEF Executes
  <2>2. Fresh(acc, a) => Fresh(acc', a)
    BY <2>1, ExecuteFacts
  <2>3. early' = early \cup Ahead(acc') /\ pc = "exec" /\ pc' = "exec"
    BY <1>3 DEF Executes
  <2>4. a \notin early' => acc'.records[a] \in {NoRow, acc'.db[a]}
    BY <2>3 DEF Ahead
  <2> QED BY <1>1, <2>2, <2>3, <2>4
<1>4. CASE CommitDB
  <2>1. acc' = CommitRows(acc) /\ pc = "committing" /\ pc' = "applied"
    BY <1>4 DEF CommitDB
  <2>2. /\ acc'.db = acc.work /\ acc'.work = acc.work
        /\ acc'.records = acc.records /\ acc'.updates = acc.updates
    BY <2>1, StoreUpdates
  <2> QED BY <1>1, <2>1, <2>2 DEF Fresh, Applied
<1>5. CASE CommitTxApp
  <2>1. acc' = CommitAccounts(acc) /\ pc = "applied" /\ pc' = "cleaned"
    BY <1>5 DEF CommitTxApp
  <2>2. /\ acc'.db = acc.db /\ acc'.work = acc.work /\ acc'.updates[a] = NoRow
        /\ acc'.records[a] = IF acc.updates[a] # NoRow THEN acc.updates[a] ELSE acc.records[a]
    BY <2>1, StoreUpdates
  <2> QED BY <1>1, <2>1, <2>2 DEF Fresh, Applied
<1>6. CASE Ends
  <2>1. /\ Fresh(acc, a) => Fresh(acc', a)
        /\ acc.records[a] \in {NoRow, acc.db[a]} => acc'.records[a] \in {NoRow, acc'.db[a]}
    BY <1>6, ReadsKeep DEF Ends
  <2>2. early' = early /\ pc = "cleaned" /\ pc' \notin Between
    BY <1>6 DEF Ends
  <2> QED BY <1>1, <2>1, <2>2 DEF Between
<1>7. CASE RollsBack
  <2>1. /\ acc' = RollbackAccounts(acc) /\ pc' \notin Between
        /\ phantom' = phantom \cup Ahead(acc)
    BY <1>7 DEF RollsBack, RollbackBlock
  <2>2. /\ acc'.db = acc.db /\ acc'.work = acc.db /\ acc'.updates[a] = NoRow
        /\ acc'.records = acc.records
    BY <2>1, StoreUpdates
  <2>3. acc.records[a] \in {NoRow, acc.db[a]}
    BY <2>1 DEF Ahead
  <2> QED BY <2>1, <2>2, <2>3 DEF Fresh, Between
<1> QED BY <1>2, <1>3, <1>4, <1>5, <1>6, <1>7 DEF StoreStep

\* No step makes tokens in the rows of the block or in the committed rows.
LEMMA TokensKept ==
  ASSUME acc \in Store, StoreInv, TokenInv, StoreStep, Genesis \in Rows
  PROVE  TokenInv'
<1> SUFFICES ASSUME phantom' = {}
             PROVE  Total(acc'.work) <= Total(Genesis) /\ Total(acc'.db) <= Total(Genesis)
  BY DEF TokenInv
<1> DEFINE G == Total(Genesis)
<1>1. phantom = {}
  BY DEF StoreStep, Quiet, Executes, CommitDB, CommitTxApp, Ends, RollsBack, RollbackBlock
<1>2. Total(acc.work) <= G /\ Total(acc.db) <= G
  BY <1>1 DEF TokenInv
<1>3. CASE Quiet \/ Ends
  <2>1. acc'.work = acc.work /\ acc'.db = acc.db
    BY <1>3 DEF Quiet, Ends, Reads
  <2> QED BY <1>2, <2>1
<1>4. CASE Executes
  <2>1. PICK t \in Txs : acc' = ExecuteRoute(acc, t).s
    BY <1>4 DEF Executes
  <2>2. \A a \in Accts : Fresh(acc, a)
    BY <1>1, <1>4 DEF StoreInv, Executes
  <2>3. acc' \in Store /\ acc'.db = acc.db /\ Total(acc'.work) <= Total(acc.work)
    BY <2>1, <2>2, ExecuteFacts
  <2>4. Total(acc'.work) \in Int /\ Total(acc.work) \in Int /\ G \in Int
    BY <2>3, StoreMaps, TotalFacts
  <2> HIDE DEF G
  <2> QED BY <1>2, <2>3, <2>4 DEF G
<1>5. CASE CommitDB
  <2>1. acc'.work = acc.work /\ acc'.db = acc.work
    BY <1>5, StoreUpdates DEF CommitDB
  <2> QED BY <1>2, <2>1
<1>6. CASE CommitTxApp
  <2>1. acc'.work = acc.work /\ acc'.db = acc.db
    BY <1>6, StoreUpdates DEF CommitTxApp
  <2> QED BY <1>2, <2>1
<1>7. CASE RollsBack
  <2>1. acc'.work = acc.db /\ acc'.db = acc.db
    BY <1>7, StoreUpdates DEF RollsBack, RollbackBlock
  <2> QED BY <1>2, <2>1
<1> QED BY <1>3, <1>4, <1>5, <1>6, <1>7 DEF StoreStep

\* Every charge takes the next nonce.
LEMMA ChargesKept ==
  ASSUME acc \in Store, spent \in Seq(Txs), charged \in Seq(Txs), StoreInv, ChargeInv, StoreStep,
         Genesis \in Rows
  PROVE  ChargeInv'
<1> SUFFICES ASSUME NEW a \in Accts \ phantom'
             PROVE  /\ Counts(Counted', acc'.work, a)
                    /\ Counts(charged', acc'.db, a)
  BY DEF ChargeInv, Counts
<1>1. a \in Accts \ phantom
  BY DEF StoreStep, Quiet, Executes, CommitDB, CommitTxApp, Ends, RollsBack, RollbackBlock
<1>2. Counts(Counted, acc.work, a) /\ Counts(charged, acc.db, a)
  BY <1>1 DEF ChargeInv
<1>3. charged \o <<>> = charged
  OBVIOUS
<1>4. CASE Quiet
  <2>1. acc'.work = acc.work /\ acc'.db = acc.db
    BY <1>4 DEF Quiet, Reads
  <2>2. Counted' = Counted /\ charged' = charged
    BY <1>4 DEF Quiet, Counted, Between
  <2> QED BY <1>2, <2>1, <2>2
<1>5. CASE Ends
  <2>1. acc'.work = acc.work /\ acc'.db = acc.db
    BY <1>5 DEF Ends, Reads
  <2>2. Counted' = charged /\ charged' = charged /\ Counted = charged
    BY <1>3, <1>5 DEF Ends, Counted, Between
  <2> QED BY <1>2, <2>1, <2>2
<1>6. CASE Executes
  <2>1. PICK t \in Txs : LET r == ExecuteRoute(acc, t)
                         IN  acc' = r.s /\ spent' = IF r.charged THEN Append(spent, t) ELSE spent
    BY <1>6 DEF Executes
  <2> DEFINE r == ExecuteRoute(acc, t)
             g == OrEmpty(Genesis[a]).nonce
             w == charged \o spent
             n == Sent(w, Len(w), a)
  <2>2. Fresh(acc, a) /\ pc = "exec" /\ pc' = "exec" /\ charged' = charged
    BY <1>1, <1>6 DEF StoreInv, Executes
  <2>3. /\ acc' \in Store /\ acc'.db = acc.db /\ r.charged \in BOOLEAN
        /\ OrEmpty(acc'.work[a]).nonce
             = OrEmpty(acc.work[a]).nonce + IF r.charged /\ a = t.from THEN 1 ELSE 0
        /\ r.charged /\ a = t.from => t.nonce = OrEmpty(acc.work[a]).nonce + 1
    BY <2>1, <2>2, ExecuteFacts
  <2> HIDE DEF r
  <2>4. w \in Seq(Txs) /\ Len(w) \in Nat /\ g \in Nat
    <3>1. OrEmpty(Genesis[a]) \in Row
      BY RowFacts DEF Rows
    <3> QED BY <3>1 DEF Row
  <2>5. n \in Nat
    BY <2>4, SentFacts
  <2>6. Counted = w /\ InOrder(w, a, g) /\ OrEmpty(acc.work[a]).nonce = g + n
    BY <1>2, <2>2 DEF Counted, Counts
  <2>7. CASE r.charged
    <3> DEFINE x == Append(w, t)
    <3>1. Counted' = x
      <4>1. spent' = Append(spent, t)
        BY <2>1, <2>7 DEF r
      <4>2. charged \o Append(spent, t) = Append(charged \o spent, t)
        OBVIOUS
      <4> QED BY <2>2, <4>1, <4>2 DEF Counted
    <3> HIDE DEF w
    <3>2. /\ Sent(x, Len(x), a) = n + IF t.from = a THEN 1 ELSE 0
          /\ (t.from = a => t.nonce = g + (n + 1)) => InOrder(x, a, g)
      BY <2>4, <2>6, AppendSent
    <3>3. InOrder(x, a, g) /\ OrEmpty(acc'.work[a]).nonce = g + Sent(x, Len(x), a)
      <4> HIDE DEF x, n, g
      <4> QED BY <2>3, <2>4, <2>5, <2>6, <2>7, <3>2
    <3> QED BY <1>2, <2>2, <2>3, <3>1, <3>3 DEF Counts
  <2>8. CASE ~r.charged
    <3>1. Counted' = w
      BY <2>1, <2>2, <2>8 DEF Counted, r
    <3>2. OrEmpty(acc'.work[a]).nonce = g + n
      <4> HIDE DEF n, g
      <4> QED BY <2>3, <2>4, <2>5, <2>6, <2>8
    <3> QED BY <1>2, <2>2, <2>3, <2>6, <3>1, <3>2 DEF Counts
  <2> QED BY <2>3, <2>7, <2>8
<1>7. CASE CommitDB
  <2>1. acc'.work = acc.work /\ acc'.db = acc.work
    BY <1>7, StoreUpdates DEF CommitDB
  <2>2. charged' = charged \o spent /\ Counted = charged \o spent /\ Counted' = charged \o spent
    BY <1>7 DEF CommitDB, Counted
  <2> QED BY <1>2, <2>1, <2>2
<1>8. CASE CommitTxApp
  <2>1. acc'.work = acc.work /\ acc'.db = acc.db
    BY <1>8, StoreUpdates DEF CommitTxApp
  <2>2. charged' = charged /\ Counted = charged /\ Counted' = charged
    BY <1>8 DEF CommitTxApp, Counted, history
  <2> QED BY <1>2, <2>1, <2>2
<1>9. CASE RollsBack
  <2>1. acc'.work = acc.db /\ acc'.db = acc.db
    BY <1>9, StoreUpdates DEF RollsBack, RollbackBlock
  <2>2. charged' = charged /\ Counted' = charged
    BY <1>3, <1>9 DEF RollsBack, RollbackBlock, Counted, Between
  <2> QED BY <1>2, <2>1, <2>2
<1> QED BY <1>4, <1>5, <1>6, <1>7, <1>8, <1>9 DEF StoreStep

----------------------------------------------------------------------------
(* The types.                                                              *)

\* The store and the charges keep their types.
LEMMA StoreTypes ==
  ASSUME TypeOK, StoreStep
  PROVE  /\ acc' \in Store /\ early' \subseteq Accts /\ phantom' \subseteq Accts
         /\ spent' \in Seq(Txs) /\ charged' \in Seq(Txs)
<1>1. /\ acc \in Store /\ early \subseteq Accts /\ phantom \subseteq Accts
      /\ spent \in Seq(Txs) /\ charged \in Seq(Txs) /\ \A s : Ahead(s) \subseteq Accts
  BY DEF TypeOK, Ahead
<1>2. CASE Quiet
  BY <1>1, <1>2 DEF Quiet, Reads
<1>3. CASE Executes
  <2>1. PICK t \in Txs : LET r == ExecuteRoute(acc, t)
                         IN  acc' = r.s /\ spent' = IF r.charged THEN Append(spent, t) ELSE spent
    BY <1>3 DEF Executes
  <2>2. acc' \in Store
    BY <1>1, <2>1, ExecuteFacts
  <2>3. spent' \in Seq(Txs)
    BY <1>1, <2>1
  <2> QED BY <1>1, <1>3, <2>2, <2>3 DEF Executes
<1>4. CASE CommitDB
  BY <1>1, <1>4, StoreUpdates DEF CommitDB, blockVars
<1>5. CASE CommitTxApp
  BY <1>1, <1>5, StoreUpdates DEF CommitTxApp, blockVars, history
<1>6. CASE Ends
  BY <1>1, <1>6 DEF Ends, Reads
<1>7. CASE RollsBack
  BY <1>1, <1>7, StoreUpdates DEF RollsBack, RollbackBlock
<1> QED BY <1>2, <1>3, <1>4, <1>5, <1>6, <1>7 DEF StoreStep

\* The variables that are neither the lock nor the store
MempoolTypes ==
  /\ unconf \in Rows /\ pool \in Seq(Txs) /\ blk \in Seq(Txs) /\ done \in 0 .. Len(blk)
  /\ ready \in BOOLEAN /\ readyChan \in 0 .. 1

\* QueueTx keeps the types of the mempool.
LEMMA AdmissionTypes ==
  ASSUME TypeOK, Places, NEW q \in Admitters, AdmissionStep(q)
  PROVE  MempoolTypes'
<1>1. MempoolTypes /\ acc \in Store
  BY DEF TypeOK, MempoolTypes
<1>2. CASE StoreTx(q)
  <2>1. item[q] \in Txs
    BY <1>2 DEF StoreTx, Places
  <2>2. pool' \in Seq(Txs)
    <3>1. pool' = pool \/ pool' = Append(pool, item[q])
      BY <1>2 DEF StoreTx
    <3> QED BY <1>1, <2>1, <3>1 DEF MempoolTypes
  <2> QED BY <1>1, <1>2, <2>2 DEF StoreTx, MempoolTypes, readyVars, blockVars
<1>3. CASE CheckTx(q)
  <2> DEFINE m == [unconf |-> unconf, acc |-> acc]
             c == ApplyTransaction(m, item[q])
  <2>1. m \in MState
    BY <1>1, MempoolState DEF MempoolTypes
  <2>2. item[q] \in Txs
    BY <1>3 DEF CheckTx, Places
  <2>3. unconf' = c.m.unconf /\ (pool' = pool \/ pool' = Without(pool, {item[q]}))
    BY <1>3 DEF CheckTx
  <2> HIDE DEF m
  <2>4. c.m.unconf \in Rows
    BY <2>1, <2>2, ApplyFacts, MStateMaps
  <2>5. pool' \in Seq(Txs)
    BY <1>1, <2>3, WithoutTxs DEF MempoolTypes
  <2>6. UNCHANGED <<readyVars, blockVars>>
    BY <1>3 DEF CheckTx
  <2> QED BY <1>1, <2>3, <2>4, <2>5, <2>6 DEF MempoolTypes, readyVars, blockVars
<1>4. CASE SignalReady(q)
  BY <1>1, <1>4 DEF SignalReady, MempoolTypes, poolVars, blockVars
<1>5. CASE SendReady(q)
  BY <1>1, <1>5 DEF SendReady, MempoolTypes, poolVars, blockVars
<1>6. CASE LeaveQueueTx(q)
  BY <1>1, <1>6 DEF LeaveQueueTx, MempoolTypes, poolVars, blockVars, readyVars
<1> QED BY <1>2, <1>3, <1>4, <1>5, <1>6 DEF AdmissionStep

\* Proposal, execution, commit and recheck keep them.
LEMMA LoopTypes ==
  ASSUME TypeOK, Places, LoopStep
  PROVE  MempoolTypes'
<1>1. /\ MempoolTypes /\ acc \in Store /\ unconf \in Rows /\ pool \in Seq(Txs) /\ blk \in Seq(Txs)
      /\ ready \in BOOLEAN
  BY DEF TypeOK, MempoolTypes
<1>2. CASE NewBlockRound \/ ProposeBlock \/ BeginCommit \/ BeginRecheck
  BY <1>1, <1>2 DEF NewBlockRound, ProposeBlock, BeginCommit, BeginRecheck,
                    MempoolTypes, poolVars, readyVars, blockVars
<1>3. CASE WakeUp
  BY <1>1, <1>3 DEF WakeUp, MempoolTypes, poolVars, blockVars
<1>4. CASE FinishExecution
  BY <1>1, <1>4 DEF FinishExecution, MempoolTypes, poolVars, blockVars
<1>5. CASE CreateBlockProposal
  <2> DEFINE r == Screened(NonceOrdered(PeekN(pool)))
  <2>1. blk' = Fitted(r.keep) /\ pool' = Without(pool, r.invalid) /\ done' = 0
    BY <1>5 DEF CreateBlockProposal
  <2>2. r.keep \in Seq(Txs)
    <3> DEFINE s == NonceOrdered(PeekN(pool))
    <3>1. s \in Seq(Txs)
      BY <1>1, PeekNFacts, NonceOrderedFacts
    <3> HIDE DEF s
    <3>2. PICK g \in [0 .. Len(s) -> ScreenState] : Screened(s) = g[Len(s)]
      BY <3>1, ScreenSteps
    <3>3. Len(s) \in 0 .. Len(s)
      BY <3>1
    <3>4. Screened(s) \in ScreenState
      BY <3>2, <3>3
    <3> QED BY <3>4 DEF ScreenState, s
  <2> HIDE DEF r
  <2>3. blk' \in Seq(Txs) /\ done' \in 0 .. Len(blk')
    <3>1. blk' \in Seq(Txs)
      BY <2>1, <2>2, FittedType
    <3> QED BY <2>1, <3>1
  <2>4. pool' \in Seq(Txs)
    BY <1>1, <2>1, WithoutTxs
  <2> QED BY <1>1, <1>5, <2>3, <2>4 DEF CreateBlockProposal, MempoolTypes, readyVars
<1>6. CASE ExecuteTx
  BY <1>1, <1>6 DEF ExecuteTx, MempoolTypes, poolVars, readyVars
<1>7. CASE CommitDB
  BY <1>1, <1>7 DEF CommitDB, MempoolTypes, poolVars, readyVars, blockVars
<1>8. CASE CommitTxApp
  <2>1. NoRows \in Rows
    BY DEF NoRows, Rows
  <2> QED BY <1>1, <1>8, <2>1 DEF CommitTxApp, MempoolTypes, readyVars, blockVars
<1>9. CASE FinishCommit
  <2>1. Without(pool, ToSet(blk)) \in Seq(Txs)
    BY <1>1, WithoutTxs
  <2>2. RecheckPool(acc, unconf, Without(pool, ToSet(blk)))
    BY <1>9 DEF FinishCommit
  <2>3. pool' \in Seq(Txs) /\ unconf' \in Rows
    BY <1>1, <2>1, <2>2, RecheckPoolFacts
  <2>4. blk' = <<>> /\ done' = 0 /\ ready' \in BOOLEAN /\ readyChan' = readyChan
    BY <1>1, <1>9 DEF FinishCommit
  <2>5. blk' \in Seq(Txs) /\ done' \in 0 .. Len(blk')
    BY <2>4
  <2> QED BY <1>1, <2>3, <2>4, <2>5 DEF MempoolTypes
<1>10. CASE FinishRecheck
  <2>1. RecheckPool(acc, unconf, pool)
    BY <1>10 DEF FinishRecheck
  <2>2. pool' \in Seq(Txs) /\ unconf' \in Rows
    BY <1>1, <2>1, RecheckPoolFacts
  <2> QED BY <1>1, <1>10, <2>2 DEF FinishRecheck, MempoolTypes, readyVars, blockVars
<1> QED BY <1>2, <1>3, <1>4, <1>5, <1>6, <1>7, <1>8, <1>9, <1>10 DEF LoopStep

\* A rollback leaves no block and no unconfirmed account.
LEMMA RollbackTypes ==
  ASSUME RollbackBlock
  PROVE  unconf' \in Rows /\ blk' \in Seq(Txs) /\ done' \in 0 .. Len(blk')
<1>1. unconf' = NoRows /\ blk' = <<>> /\ done' = 0
  BY DEF RollbackBlock
<1>2. blk' \in Seq(Txs) /\ done' \in 0 .. Len(blk')
  BY <1>1
<1> QED BY <1>1, <1>2 DEF NoRows, Rows

\* So do requests, blocks of others, cancellations, resets and rollbacks.
LEMMA EnvironmentTypes ==
  ASSUME TypeOK, Places, Environment
  PROVE  MempoolTypes'
<1>1. MempoolTypes /\ acc \in Store /\ unconf \in Rows /\ pool \in Seq(Txs)
  BY DEF TypeOK, MempoolTypes
<1>2. ASSUME NEW q \in Admitters, NEW t \in Txs, QueueTx(q, t)
      PROVE  MempoolTypes'
  BY <1>1, <1>2 DEF QueueTx, MempoolTypes, poolVars, readyVars, blockVars
<1>3. ASSUME NEW a \in Accts, AccountInfo(a)
      PROVE  MempoolTypes'
  <2> DEFINE m == [unconf |-> unconf, acc |-> acc]
  <2>1. m \in MState
    BY <1>1, MempoolState
  <2>2. unconf' = WithAccount(m, a).unconf
    BY <1>3 DEF AccountInfo
  <2> HIDE DEF m
  <2>3. WithAccount(m, a).unconf \in Rows
    BY <2>1, WithAccountFacts, MStateMaps
  <2> QED BY <1>1, <1>3, <2>2, <2>3 DEF AccountInfo, MempoolTypes, readyVars, blockVars
<1>3a. ASSUME NEW a \in Accts, EvictRecord(a)
       PROVE  MempoolTypes'
  BY <1>1, <1>3a DEF EvictRecord, MempoolTypes, poolVars, readyVars, blockVars
<1>4. CASE ReceiveBlock
  <2>1. blk' \in Seq(Txs)
    <3>1. blk' \in SeqOf(Txs, 2)
      BY <1>4 DEF ReceiveBlock, Blocks
    <3>2. PICK n \in 0 .. 2 : blk' \in [1 .. n -> Txs]
      BY <3>1 DEF SeqOf
    <3> QED BY <3>2
  <2>2. done' \in 0 .. Len(blk')
    BY <1>4, <2>1 DEF ReceiveBlock
  <2> QED BY <1>1, <1>4, <2>1, <2>2 DEF ReceiveBlock, MempoolTypes, poolVars, readyVars
<1>5. ASSUME NEW T, CancelBlockExecution(T)
      PROVE  MempoolTypes'
  <2>1. unconf' \in Rows /\ blk' \in Seq(Txs) /\ done' \in 0 .. Len(blk')
    BY <1>5, RollbackTypes DEF CancelBlockExecution
  <2>2. pool' \in Seq(Txs)
    BY <1>1, <1>5, WithoutTxs DEF CancelBlockExecution
  <2> QED BY <1>1, <1>5, <2>1, <2>2 DEF CancelBlockExecution, MempoolTypes, readyVars
<1>6. ASSUME NEW T, ResetBlockProp(T)
      PROVE  MempoolTypes'
  <2>1. pool' \in Seq(Txs)
    BY <1>1, <1>6, WithoutTxs DEF ResetBlockProp
  <2>2. RollbackBlock \/ UNCHANGED <<unconf, blockVars>>
    BY <1>6 DEF ResetBlockProp
  <2>3. unconf' \in Rows /\ blk' \in Seq(Txs) /\ done' \in 0 .. Len(blk')
    BY <1>1, <2>2, RollbackTypes DEF MempoolTypes, blockVars
  <2> QED BY <1>1, <1>6, <2>1, <2>3 DEF ResetBlockProp, MempoolTypes, readyVars
<1>7. CASE RollbackState
  <2>1. unconf' \in Rows /\ blk' \in Seq(Txs) /\ done' \in 0 .. Len(blk')
    BY <1>7, RollbackTypes DEF RollbackState
  <2> QED BY <1>1, <1>7, <2>1 DEF RollbackState, MempoolTypes, readyVars
<1>8. CASE CatchupRecheck
  <2>1. RecheckPool(acc, unconf, pool) /\ UNCHANGED <<readyVars, blockVars>>
    BY <1>8 DEF CatchupRecheck
  <2>2. pool' \in Seq(Txs) /\ unconf' \in Rows
    BY <1>1, <2>1, RecheckPoolFacts
  <2> QED BY <1>1, <2>1, <2>2 DEF MempoolTypes, readyVars, blockVars
<1> QED BY <1>2, <1>3, <1>3a, <1>4, <1>5, <1>6, <1>7, <1>8 DEF Environment

\* The types are kept, the lock's included.
LEMMA TypesStay ==
  ASSUME TypeOK, Places, [Next]_vars, LockTypeOK'
  PROVE  TypeOK'
<1>1. StoreStep
  BY StoreSteps
<1>2. MempoolTypes'
  <2>1. CASE UNCHANGED vars
    BY <2>1 DEF TypeOK, MempoolTypes, vars, poolVars, readyVars, blockVars
  <2> QED BY <2>1, AdmissionTypes, LoopTypes, EnvironmentTypes DEF Next
<1>3. /\ acc' \in Store /\ early' \subseteq Accts /\ phantom' \subseteq Accts
      /\ spent' \in Seq(Txs) /\ charged' \in Seq(Txs)
  BY <1>1, StoreTypes
<1> QED BY <1>2, <1>3 DEF TypeOK, MempoolTypes

----------------------------------------------------------------------------
(* Where everybody is.                                                     *)

\* Who has the lock keeps it until its own Unlock.
LEMMA StaysInside ==
  ASSUME LockInv, NEW p \in inside,
         \/ UNCHANGED lockVars
         \/ \E q : Lock(q) \/ Priority(q) \/ (Unlock(q) /\ q # p)
  PROVE  p \in inside'
<1>1. CASE UNCHANGED lockVars
  BY <1>1 DEF lockVars
<1>2. ASSUME NEW q, Lock(q) \/ Priority(q) PROVE p \in inside'
  BY <1>2 DEF Lock, Priority, Acquire
<1>3. ASSUME NEW q, Unlock(q), q # p PROVE p \in inside'
  BY <1>3 DEF Unlock, LockInv, MutualExclusion
<1> QED BY <1>1, <1>2, <1>3

\* The admission q, at the place w with the transaction t.
Admitting(q, w, t) ==
  /\ w # "out" => t \in Txs
  /\ w \in {"check", "signal", "send", "leave"} => q \in inside

\* An admission goes on with the lock, and gives it back once.
LEMMA AdmissionPlaces ==
  ASSUME LockInv, Places, NEW q \in Admitters, AdmissionStep(q)
  PROVE  /\ at' \in [Admitters -> Stages] /\ item' \in [Admitters -> Txs \cup {NoRow}]
         /\ \A x \in Admitters : Admitting(x, at[x], item[x])'
<1>1. /\ at \in [Admitters -> Stages] /\ item \in [Admitters -> Txs \cup {NoRow}]
      /\ \A x \in Admitters : Admitting(x, at[x], item[x])
  BY DEF Places, Admitting
<1>2. CASE StoreTx(q) \/ CheckTx(q) \/ SignalReady(q) \/ SendReady(q)
  <2>1. UNCHANGED <<lockVars, item>> /\ at[q] # "out" /\ q \in inside
    BY <1>1, <1>2 DEF StoreTx, CheckTx, SignalReady, SendReady, Admitting
  <2>2. PICK w \in Stages : at' = [at EXCEPT ![q] = w]
    BY <1>2 DEF StoreTx, CheckTx, SignalReady, SendReady, Stages
  <2>3. inside' = inside /\ item' = item
    BY <2>1 DEF lockVars
  <2>4. at' \in [Admitters -> Stages] /\ at'[q] = w /\ \A x \in Admitters \ {q} : at'[x] = at[x]
    BY <1>1, <2>2
  <2>5. ASSUME NEW x \in Admitters PROVE Admitting(x, at[x], item[x])'
    BY <1>1, <2>1, <2>3, <2>4 DEF Admitting
  <2> QED BY <1>1, <2>3, <2>4, <2>5
<1>3. CASE LeaveQueueTx(q)
  <2>1. /\ Unlock(q) /\ at' = [at EXCEPT ![q] = "out"] /\ item' = [item EXCEPT ![q] = NoRow]
    BY <1>3 DEF LeaveQueueTx
  <2>2. /\ at' \in [Admitters -> Stages] /\ item' \in [Admitters -> Txs \cup {NoRow}]
        /\ at'[q] = "out" /\ \A x \in Admitters \ {q} : at'[x] = at[x] /\ item'[x] = item[x]
    BY <1>1, <2>1 DEF Stages
  <2>3. ASSUME NEW x \in Admitters PROVE Admitting(x, at[x], item[x])'
    <3>1. x # q /\ x \in inside => x \in inside'
      BY <2>1, StaysInside
    <3> QED BY <1>1, <2>2, <3>1 DEF Admitting
  <2> QED BY <2>2, <2>3
<1> QED BY <1>2, <1>3 DEF AdmissionStep

\* The other steps leave them where they are, but for one that begins.
LEMMA OtherPlaces ==
  ASSUME LockInv, Places, LoopStep \/ Environment \/ UNCHANGED vars
  PROVE  /\ at' \in [Admitters -> Stages] /\ item' \in [Admitters -> Txs \cup {NoRow}]
         /\ \A x \in Admitters : Admitting(x, at[x], item[x])'
<1>1. /\ at \in [Admitters -> Stages] /\ item \in [Admitters -> Txs \cup {NoRow}]
      /\ \A x \in Admitters : Admitting(x, at[x], item[x])
  BY DEF Places, Admitting
<1>2. ASSUME UNCHANGED admitVars, UNCHANGED lockVars \/ Priority(Loop) \/ Unlock(Loop)
      PROVE  /\ at' \in [Admitters -> Stages] /\ item' \in [Admitters -> Txs \cup {NoRow}]
             /\ \A x \in Admitters : Admitting(x, at[x], item[x])'
  <2>1. at' = at /\ item' = item
    BY <1>2 DEF admitVars
  <2>2. ASSUME NEW x \in Admitters PROVE Admitting(x, at[x], item[x])'
    <3>1. x # Loop
      BY TxAssumption
    <3>2. x \in inside => x \in inside'
      BY <1>2, <3>1, StaysInside
    <3> QED BY <1>1, <2>1, <3>2 DEF Admitting
  <2> QED BY <1>1, <2>1, <2>2
<1>3. CASE LoopStep
  <2>1. UNCHANGED admitVars /\ (UNCHANGED lockVars \/ Priority(Loop) \/ Unlock(Loop))
    BY <1>3 DEF LoopStep, NewBlockRound, WakeUp, ProposeBlock, CreateBlockProposal, ExecuteTx,
                FinishExecution, BeginCommit, CommitDB, CommitTxApp, FinishCommit, BeginRecheck,
                FinishRecheck
  <2> QED BY <1>2, <2>1
<1>4. CASE Environment
  <2>1. ASSUME NEW q \in Admitters, NEW t \in Txs, QueueTx(q, t)
        PROVE  /\ at' \in [Admitters -> Stages] /\ item' \in [Admitters -> Txs \cup {NoRow}]
               /\ \A x \in Admitters : Admitting(x, at[x], item[x])'
    <3>1. Lock(q) /\ at' = [at EXCEPT ![q] = "store"] /\ item' = [item EXCEPT ![q] = t]
      BY <2>1 DEF QueueTx
    <3>2. /\ at' \in [Admitters -> Stages] /\ item' \in [Admitters -> Txs \cup {NoRow}]
          /\ at'[q] = "store" /\ item'[q] = t
          /\ \A x \in Admitters \ {q} : at'[x] = at[x] /\ item'[x] = item[x]
      BY <1>1, <3>1 DEF Stages
    <3>3. ASSUME NEW x \in Admitters PROVE Admitting(x, at[x], item[x])'
      <4>1. x \in inside => x \in inside'
        BY <3>1, StaysInside
      <4> QED BY <1>1, <3>2, <4>1 DEF Admitting
    <3> QED BY <3>2, <3>3
  <2>2. ASSUME NEW a \in Accts, AccountInfo(a) \/ EvictRecord(a)
        PROVE  UNCHANGED admitVars /\ UNCHANGED lockVars
    BY <2>2 DEF AccountInfo, EvictRecord
  <2>3. ASSUME ReceiveBlock \/ RollbackState \/ CatchupRecheck
        PROVE  UNCHANGED admitVars /\ UNCHANGED lockVars
    BY <2>3 DEF ReceiveBlock, RollbackState, CatchupRecheck
  <2>4. ASSUME NEW T, CancelBlockExecution(T) \/ ResetBlockProp(T)
        PROVE  UNCHANGED admitVars /\ UNCHANGED lockVars
    BY <2>4 DEF CancelBlockExecution, ResetBlockProp
  <2> QED BY <1>2, <1>4, <2>1, <2>2, <2>3, <2>4 DEF Environment
<1>5. CASE UNCHANGED vars
  BY <1>2, <1>5 DEF vars
<1> QED BY <1>3, <1>4, <1>5

\* What the event loop is doing
Doing ==
  /\ pc \in {"applied", "cleaned"} => Loop \in inside
  /\ pc \in {"recheck", "rechecking", "recheck held", "rechecking held"} => stale
  /\ Committed => spent = <<>>

\* A commit keeps the lock to its end, a recheck follows a rollback or a reset,
\* and a new block starts without charges.
LEMMA DoingKept ==
  ASSUME LockInv, Doing, [Next]_vars
  PROVE  Doing'
<1>0. Loop \notin Admitters
  BY TxAssumption
<1>1. ASSUME UNCHANGED <<pc, stale, spent>>,
             \/ UNCHANGED lockVars
             \/ \E q \in Admitters : Lock(q) \/ Unlock(q)
      PROVE  Doing'
  <2>1. Loop \in inside => Loop \in inside'
    BY <1>0, <1>1, StaysInside
  <2> QED BY <1>1, <2>1 DEF Doing, Committed
<1>2. ASSUME NEW q \in Admitters, AdmissionStep(q)
      PROVE  Doing'
  <2>1. /\ UNCHANGED <<pc, stale, spent>>
        /\ UNCHANGED lockVars \/ Lock(q) \/ Unlock(q)
    BY <1>2 DEF AdmissionStep, StoreTx, CheckTx, SignalReady, SendReady, LeaveQueueTx,
                blockVars, history
  <2> QED BY <1>1, <2>1
<1>3. CASE LoopStep
  <2>1. CASE NewBlockRound \/ WakeUp \/ ProposeBlock \/ CreateBlockProposal
    BY <2>1 DEF NewBlockRound, WakeUp, ProposeBlock, CreateBlockProposal, Doing, Committed,
                blockVars, history
  <2>2. CASE ExecuteTx \/ FinishExecution \/ BeginCommit
    BY <2>2 DEF ExecuteTx, FinishExecution, BeginCommit, Doing, Committed, blockVars, history
  <2>3. CASE CommitDB
    BY <2>3, StaysInside DEF CommitDB, Doing, Committed, lockVars
  <2>4. CASE CommitTxApp
    BY <2>4 DEF CommitTxApp, Doing, Committed, lockVars
  <2>5. CASE FinishCommit
    <3>1. pc' \in {"newRound", "idle"} /\ spent' = <<>>
      BY <2>5, StartFacts DEF FinishCommit
    <3> QED BY <3>1 DEF Doing
  <2>6. CASE BeginRecheck
    BY <2>6 DEF BeginRecheck, Doing, Committed, blockVars, history
  <2>7. CASE FinishRecheck
    <3>1. /\ UNCHANGED <<stale, spent>>
          /\ pc = "rechecking" => pc' \in {"propose", "idle"}
          /\ pc = "rechecking held" => pc' = "executed"
          /\ pc \in {"rechecking", "rechecking held"}
      BY <2>7 DEF FinishRecheck, blockVars, history
    <3> QED BY <3>1 DEF Doing, Committed
  <2> QED BY <1>3, <2>1, <2>2, <2>3, <2>4, <2>5, <2>6, <2>7 DEF LoopStep
<1>4. CASE Environment
  <2>1. ASSUME NEW q \in Admitters, NEW t \in Txs, QueueTx(q, t)
        PROVE  Doing'
    <3>1. UNCHANGED <<pc, stale, spent>> /\ Lock(q)
      BY <2>1 DEF QueueTx, blockVars, history
    <3> QED BY <1>1, <3>1
  <2>2. ASSUME NEW a \in Accts, AccountInfo(a) \/ EvictRecord(a)
        PROVE  Doing'
    <3>1. UNCHANGED <<pc, stale, spent>> /\ UNCHANGED lockVars
      BY <2>2 DEF AccountInfo, EvictRecord, blockVars, history
    <3> QED BY <1>1, <3>1
  <2>3. CASE ReceiveBlock
    BY <2>3 DEF ReceiveBlock, Doing, Committed, history
  <2>4. ASSUME NEW T, CancelBlockExecution(T)
        PROVE  Doing'
    BY <2>4 DEF CancelBlockExecution, RollbackBlock, Doing, Committed
  <2>5. ASSUME NEW T, ResetBlockProp(T)
        PROVE  Doing'
    <3>1. \/ pc' \in {"idle", "recheck"} /\ stale' /\ spent' = <<>>
          \/ pc = "idle" /\ pc' = "recheck" /\ stale' /\ spent' = spent
          \/ pc = "executed" /\ pc' = "recheck held" /\ stale'
      BY <2>5 DEF ResetBlockProp, RollbackBlock, blockVars
    <3> QED BY <3>1 DEF Doing, Committed
  <2>6. CASE RollbackState
    <3>1. pc' \in {"newRound", "idle"} /\ spent' = <<>>
      BY <2>6, StartFacts DEF RollbackState, RollbackBlock
    <3> QED BY <3>1 DEF Doing
  <2>7. CASE CatchupRecheck
    BY <2>7 DEF CatchupRecheck, Doing, Committed, blockVars
  <2> QED BY <1>4, <2>1, <2>2, <2>3, <2>4, <2>5, <2>6, <2>7 DEF Environment
<1>5. CASE UNCHANGED vars
  BY <1>1, <1>5 DEF vars, blockVars, history
<1> QED BY <1>2, <1>3, <1>4, <1>5 DEF Next

\* Everybody stays where the invariant says.
LEMMA PlacesKept ==
  ASSUME LockInv, Places, [Next]_vars
  PROVE  Places'
<1>1. /\ at' \in [Admitters -> Stages] /\ item' \in [Admitters -> Txs \cup {NoRow}]
      /\ \A x \in Admitters : Admitting(x, at[x], item[x])'
  BY AdmissionPlaces, OtherPlaces DEF Next
<1>2. Doing'
  BY DoingKept DEF Places, Doing
<1> QED BY <1>1, <1>2 DEF Places, Admitting, Doing, Committed

----------------------------------------------------------------------------
(* The pool.                                                               *)

\* Outside the two commits, what the cache has of an account that is not excepted
\* is the committed row.
LEMMA CacheIsRow ==
  ASSUME StoreInv, pc # "applied", NEW a \in Accts \ Excepted
  PROVE  acc.records[a] \in {NoRow, acc.db[a]}
  BY DEF StoreInv, Excepted

\* An admission that has the lock is alone: no commit is under way, and no
\* other transaction is being checked.
LEMMA Alone ==
  ASSUME LockInv, Places, NEW q \in Admitters, q \in inside
  PROVE  /\ pc \notin Between
         /\ \A x \in Admitters : at[x] = "check" => x = q
  BY TxAssumption DEF LockInv, MutualExclusion, Places, Between

\* While the event loop has the lock, no transaction is being checked.
LEMMA NobodyChecks ==
  ASSUME LockInv, Places, Loop \in inside
  PROVE  \A x \in Admitters : at[x] # "check"
  BY TxAssumption DEF LockInv, MutualExclusion, Places

\* Steps that leave the mempool
Still ==
  /\ UNCHANGED <<pool, unconf, stale>>
  /\ acc'.db = acc.db /\ Excepted \subseteq Excepted'
  /\ \A q \in Admitters : /\ at'[q] = "check" <=> at[q] = "check"
                          /\ at[q] = "check" => item'[q] = item[q]
  /\ pc' = pc \/ (pc \notin Between /\ pc' \notin Between)

\* Steps that leave the mempool keep it in step: accounts only become excepted,
\* never the reverse, while the committed rows stay.
LEMMA StillInv ==
  ASSUME PoolInv, Still
  PROVE  PoolInv'
<1>1. Excepted \subseteq Excepted'
  BY DEF Still
<1>2. ASSUME pc' = "cleaned", NEW a \in Accts \ Excepted'
      PROVE  unconf'[a] \in {NoRow, OrEmpty(acc'.db[a])}
  <2>1. pc = "cleaned"
    BY <1>2 DEF Still, Between
  <2> QED BY <1>1, <2>1 DEF PoolInv, Still
<1>3. ASSUME ~stale', pc' \notin {"applied", "cleaned"}
      PROVE  \E p \in Seq(Txs) : /\ Settled(p)'
                                 /\ \A a \in Accts \ Excepted' : InStep(acc', unconf', p, a)
  <2>1. ~stale /\ pc \notin {"applied", "cleaned"}
    BY <1>3 DEF Still, Between
  <2>2. PICK p \in Seq(Txs) : Settled(p) /\ \A a \in Accts \ Excepted : InStep(acc, unconf, p, a)
    BY <2>1 DEF PoolInv
  <2>3. Settled(p)'
    BY <2>2 DEF Settled, Still
  <2>4. ASSUME NEW a \in Accts \ Excepted' PROVE InStep(acc', unconf', p, a)
    <3>1. InStep(acc, unconf, p, a)
      BY <1>1, <2>2
    <3>2. acc'.db = acc.db /\ unconf' = unconf
      BY DEF Still
    <3> QED BY <3>1, <3>2, InStepSame
  <2> QED BY <2>2, <2>3, <2>4
<1> QED BY <1>2, <1>3 DEF PoolInv

\* Only some steps touch the mempool.
LEMMA StillSteps ==
  ASSUME TypeOK, Places, [Next]_vars
  PROVE  \/ Still
         \/ stale' /\ pc' # "cleaned"
         \/ \E q \in Admitters : StoreTx(q) \/ CheckTx(q)
         \/ \E a \in Accts : AccountInfo(a)
         \/ CreateBlockProposal \/ CommitDB \/ CommitTxApp \/ FinishCommit
<1>1. acc \in Store
  BY DEF TypeOK
<1>2. at \in [Admitters -> Stages]
  BY DEF Places
<1>3. ASSUME NEW q \in Admitters, SignalReady(q) \/ SendReady(q) \/ LeaveQueueTx(q)
      PROVE  Still
  <2>1. UNCHANGED <<pool, unconf, stale, early, phantom, acc, pc>>
    BY <1>3 DEF SignalReady, SendReady, LeaveQueueTx, poolVars, history
  <2>2. at[q] # "check" /\ \E w : w # "check" /\ at' = [at EXCEPT ![q] = w]
    BY <1>3 DEF SignalReady, SendReady, LeaveQueueTx
  <2>3. \A x \in Admitters : x # q => item'[x] = item[x]
    BY <1>3 DEF SignalReady, SendReady, LeaveQueueTx, Places
  <2>4. \A x \in Admitters : at'[x] = "check" <=> at[x] = "check"
    BY <1>2, <2>2
  <2> QED BY <1>1, <2>1, <2>2, <2>3, <2>4 DEF Still, Excepted
<1>4. ASSUME UNCHANGED <<acc, pool, unconf, stale, early, phantom, admitVars>>,
             pc' = pc \/ (pc \notin Between /\ pc' \notin Between)
      PROVE  Still
  BY <1>4 DEF Still, Excepted, admitVars
<1>5. CASE LoopStep
  <2>1. CASE NewBlockRound \/ WakeUp \/ ProposeBlock \/ FinishExecution \/ BeginCommit \/ BeginRecheck
    BY <1>4, <2>1 DEF NewBlockRound, WakeUp, ProposeBlock, FinishExecution, BeginCommit, BeginRecheck,
                      poolVars, history, Between
  <2>2. CASE ExecuteTx
    <3>1. blk[done + 1] \in Txs
      BY <2>2 DEF ExecuteTx, TypeOK
    <3>2. /\ acc' = ExecuteRoute(acc, blk[done + 1]).s
          /\ UNCHANGED <<pool, unconf, stale, at, item, pc>>
          /\ early \subseteq early' /\ phantom' = phantom
      BY <2>2 DEF ExecuteTx, poolVars, admitVars, history
    <3>3. acc'.db = acc.db
      BY <1>1, <3>1, <3>2, ExecuteFacts
    <3> QED BY <3>2, <3>3 DEF Still, Excepted
  <2>3. CASE FinishRecheck
    <3>1. stale /\ stale' = stale /\ pc' # "cleaned"
      BY <2>3 DEF FinishRecheck, Places, history
    <3> QED BY <3>1
  <2> QED BY <1>5, <2>1, <2>2, <2>3 DEF LoopStep
<1>6. CASE Environment
  <2>1. ASSUME NEW q \in Admitters, NEW t \in Txs, QueueTx(q, t)
        PROVE  Still
    <3>1. UNCHANGED <<pool, unconf, stale, early, phantom, acc, pc>>
      BY <2>1 DEF QueueTx, poolVars, history
    <3>2. /\ at[q] # "check" /\ at' = [at EXCEPT ![q] = "store"]
          /\ item' = [item EXCEPT ![q] = t]
      BY <2>1 DEF QueueTx
    <3>3. \A x \in Admitters : /\ at'[x] = "check" <=> at[x] = "check"
                               /\ x # q => item'[x] = item[x]
      BY <1>2, <3>2 DEF Places
    <3> QED BY <1>1, <3>1, <3>2, <3>3 DEF Still, Excepted
  <2>1a. ASSUME NEW a \in Accts, EvictRecord(a)
         PROVE  Still
    <3>1. UNCHANGED <<pool, unconf, stale, early, phantom, at, item, pc>> /\ acc' = Evict(acc, a)
      BY <2>1a DEF EvictRecord, poolVars, admitVars, history
    <3>2. acc'.db = acc.db
      BY <1>1, <3>1, EvictFacts DEF Reads
    <3> QED BY <3>1, <3>2 DEF Still, Excepted
  <2>2. CASE ReceiveBlock
    BY <1>4, <2>2 DEF ReceiveBlock, poolVars, history, Between
  <2>3. ASSUME NEW T, CancelBlockExecution(T) \/ ResetBlockProp(T)
        PROVE  stale' /\ pc' # "cleaned"
    BY <2>3 DEF CancelBlockExecution, ResetBlockProp, RollbackBlock
  <2>4. CASE RollbackState \/ CatchupRecheck
    BY <2>4, StartFacts DEF RollbackState, CatchupRecheck, RollbackBlock
  <2> QED BY <1>6, <2>1, <2>1a, <2>2, <2>3, <2>4 DEF Environment
<1>7. CASE UNCHANGED vars
  BY <1>4, <1>7 DEF vars, poolVars, history
<1> QED BY <1>3, <1>5, <1>6, <1>7 DEF Next, AdmissionStep

\* A transaction joins the pool to be checked, or is refused.
LEMMA StorePool ==
  ASSUME TypeOK, LockInv, Places, PoolInv, NEW q \in Admitters, StoreTx(q)
  PROVE  PoolInv'
<1>1. q \in inside /\ at[q] = "store" /\ item[q] \in Txs
  BY DEF StoreTx, Places
<1>2. pc \notin Between /\ \A x \in Admitters : at[x] # "check"
  BY <1>1, Alone
<1>3. UNCHANGED <<acc, unconf, item, pc, stale, Excepted>>
  BY DEF StoreTx, history, Excepted
<1>4. SUFFICES ASSUME ~stale'
               PROVE  \E p \in Seq(Txs) :
                        /\ Settled(p)'
                        /\ \A a \in Accts \ Excepted' : InStep(acc', unconf', p, a)
  BY <1>2, <1>3 DEF PoolInv, Between
<1>5. PICK p \in Seq(Txs) : Settled(p) /\ \A a \in Accts \ Excepted : InStep(acc, unconf, p, a)
  BY <1>2, <1>3, <1>4 DEF PoolInv, Between
<1>6. p = pool
  BY <1>2, <1>5 DEF Settled
<1>7. Settled(p)'
  <2>1. CASE at' = [at EXCEPT ![q] = "leave"] /\ UNCHANGED pool
    <3>1. \A x \in Admitters : at'[x] # "check"
      BY <1>2, <2>1 DEF Places
    <3> QED BY <1>6, <2>1, <3>1 DEF Settled
  <2>2. CASE /\ ~\E i \in 1 .. Len(pool) : pool[i] = item[q]
             /\ pool' = Append(pool, item[q]) /\ at' = [at EXCEPT ![q] = "check"]
    <3>1. at'[q] = "check"
      BY <2>2 DEF Places
    <3> QED BY <1>3, <1>6, <2>2, <3>1 DEF Settled
  <2> QED BY <2>1, <2>2 DEF StoreTx
<1>8. \A a \in Accts \ Excepted' : InStep(acc', unconf', p, a)
  BY <1>3, <1>5
<1> QED BY <1>7, <1>8

\* The check keeps the transaction that joined last, or takes it out again.
LEMMA CheckPool ==
  ASSUME TypeOK, LockInv, Places, StoreInv, PoolInv, NEW q \in Admitters, CheckTx(q)
  PROVE  PoolInv'
<1> DEFINE m == [unconf |-> unconf, acc |-> acc]
           t == item[q]
           c == ApplyTransaction(m, t)
<1>1. q \in inside /\ at[q] = "check" /\ t \in Txs
  BY DEF CheckTx, Places
<1>2. pc \notin Between /\ \A x \in Admitters : at[x] = "check" => x = q
  BY <1>1, Alone
<1>3. UNCHANGED <<item, pc, stale, Excepted>> /\ unconf' = c.m.unconf /\ acc' = c.m.acc
  BY DEF CheckTx, history, Excepted
<1>4. \/ c.err = "ok" /\ at' = [at EXCEPT ![q] = "signal"] /\ pool' = pool
      \/ c.err # "ok" /\ at' = [at EXCEPT ![q] = "leave"] /\ pool' = Without(pool, {t})
  BY DEF CheckTx
<1>5. m \in MState /\ m.unconf = unconf /\ m.acc = acc
  BY MempoolState DEF TypeOK
<1> HIDE DEF m, c
<1>6. SUFFICES ASSUME ~stale'
               PROVE  \E p \in Seq(Txs) :
                        /\ Settled(p)'
                        /\ \A a \in Accts \ Excepted' : InStep(acc', unconf', p, a)
  BY <1>2, <1>3 DEF PoolInv, Between
<1>7. PICK p \in Seq(Txs) : Settled(p) /\ \A a \in Accts \ Excepted : InStep(acc, unconf, p, a)
  BY <1>2, <1>3, <1>6 DEF PoolInv, Between
<1>8. pool = Append(p, t) /\ \A k \in 1 .. Len(p) : p[k] # t
  BY <1>1, <1>2, <1>7 DEF Settled
<1> DEFINE next == IF c.err = "ok" THEN Append(p, t) ELSE p
<1>9. pool' = next /\ next \in Seq(Txs)
  <2>1. Without(Append(p, t), {t}) = p
    BY <1>1, <1>8, WithoutLast
  <2> QED BY <1>1, <1>4, <1>8, <2>1
<1>10. \A x \in Admitters : at'[x] # "check"
  BY <1>2, <1>4 DEF Places
<1>11. ASSUME NEW a \in Accts \ Excepted' PROVE InStep(acc', unconf', next, a)
  <2>2. a \in Accts \ Excepted
    BY <1>3
  <2>3. InStep(acc, unconf, p, a) /\ acc.records[a] \in {NoRow, acc.db[a]}
    BY <1>2, <1>7, <2>2, CacheIsRow DEF Between
  <2>4. InStep(c.m.acc, c.m.unconf, next, a)
    BY <1>1, <1>5, <2>3, ApplyInStep DEF c
  <2> QED BY <1>3, <2>4
<1>12. Settled(pool)'
  BY <1>10 DEF Settled
<1>13. pool' \in Seq(Txs) /\ \A a \in Accts \ Excepted' : InStep(acc', unconf', pool', a)
  BY <1>9, <1>11
<1> QED BY <1>12, <1>13

\* A request for the pending state of an account adds a committed row at most.
LEMMA InfoPool ==
  ASSUME TypeOK, Places, StoreInv, PoolInv, NEW b \in Accts, AccountInfo(b)
  PROVE  PoolInv'
<1> DEFINE m == [unconf |-> unconf, acc |-> acc]
           c == WithAccount(m, b)
<1>1. m \in MState /\ m.unconf = unconf /\ m.acc = acc
  BY MempoolState DEF TypeOK
<1>2. /\ UNCHANGED <<pool, at, item, pc, stale, Excepted>> /\ unconf[b] = NoRow
      /\ unconf' = c.unconf /\ acc' = c.acc
  BY DEF AccountInfo, history, admitVars, Excepted
<1> HIDE DEF m
<1>3. Reads(acc, acc') /\ unconf' = [unconf EXCEPT ![b] = Seen(m, b)]
  BY <1>1, <1>2, WithAccountFacts
<1>4. acc'.db = acc.db /\ unconf \in Rows
  BY <1>3 DEF Reads, TypeOK
<1>5. ASSUME NEW a \in Accts \ Excepted, pc # "applied"
      PROVE  unconf'[a] = unconf[a] \/ (a = b /\ unconf'[a] = OrEmpty(acc.db[a]))
  <2>2. acc.records[a] \in {NoRow, acc.db[a]}
    BY <1>5, CacheIsRow
  <2>3. CASE a = b
    <3>1. unconf'[a] = Seen(m, a)
      BY <1>3, <1>4, <2>3 DEF Rows
    <3>2. Seen(m, a) = OrEmpty(acc.db[a])
      BY <1>1, <1>2, <2>2, <2>3, SeenRow
    <3> QED BY <2>3, <3>1, <3>2
  <2>4. CASE a # b
    BY <1>3, <1>4, <2>4 DEF Rows
  <2> QED BY <2>3, <2>4
<1>6. ASSUME pc' = "cleaned", NEW a \in Accts \ Excepted'
      PROVE  unconf'[a] \in {NoRow, OrEmpty(acc'.db[a])}
  BY <1>2, <1>4, <1>5, <1>6 DEF PoolInv
<1>7. ASSUME ~stale', pc' \notin {"applied", "cleaned"}
      PROVE  \E p \in Seq(Txs) : /\ Settled(p)'
                                 /\ \A a \in Accts \ Excepted' : InStep(acc', unconf', p, a)
  <2>1. PICK p \in Seq(Txs) : Settled(p) /\ \A a \in Accts \ Excepted : InStep(acc, unconf, p, a)
    BY <1>2, <1>7 DEF PoolInv
  <2>2. Settled(p)'
    BY <1>2, <2>1 DEF Settled
  <2>3. ASSUME NEW a \in Accts \ Excepted' PROVE InStep(acc', unconf', p, a)
    <3>1. unconf'[a] = unconf[a] \/ (a = b /\ unconf'[a] = OrEmpty(acc.db[a]))
      BY <1>2, <1>5, <1>7
    <3>2. InStep(acc, unconf, p, a)
      BY <1>2, <2>1
    <3>3. CASE unconf'[a] = unconf[a]
      BY <1>4, <3>2, <3>3, InStepSame
    <3>4. CASE a = b /\ unconf'[a] = OrEmpty(acc.db[a])
      <4> DEFINE d == OrEmpty(acc.db[a])
                 n == Sent(p, Len(p), a)
      <4>1. d \in Row /\ d.nonce \in Nat /\ d # NoRow
        BY StoreMaps, RowFacts DEF TypeOK, Row
      <4>2. n = 0 /\ InOrder(p, a, d.nonce)
        BY <1>2, <3>2, <3>4 DEF InStep
      <4>3. d.nonce = d.nonce + n
        BY <4>1, <4>2
      <4> QED BY <1>4, <3>4, <4>1, <4>2, <4>3 DEF InStep
    <3> QED BY <3>1, <3>3, <3>4
  <2> QED BY <2>1, <2>2, <2>3
<1> QED BY <1>6, <1>7 DEF PoolInv

\* The proposal takes out of the pool what it may not propose.
LEMMA ProposalPool ==
  ASSUME TypeOK, LockInv, Places, StoreInv, PoolInv, CreateBlockProposal
  PROVE  PoolInv'
<1> DEFINE s == NonceOrdered(PeekN(pool))
           T == Screened(s).invalid
<1>1. /\ pc = "proposing" /\ pc' = "exec" /\ Loop \in inside
      /\ pool' = Without(pool, T) /\ acc' = ScreenReads(s)
      /\ UNCHANGED <<unconf, stale, at, item, Excepted>>
  BY DEF CreateBlockProposal, admitVars, history, Excepted
<1>2. \A x \in Admitters : at[x] # "check"
  BY <1>1, NobodyChecks
<1>3. acc \in Store /\ Reads(acc, acc') /\ pool \in Seq(Txs)
  BY <1>1, ScreenReadsFacts DEF TypeOK
<1>4. SUFFICES ASSUME ~stale'
               PROVE  \E p \in Seq(Txs) :
                        /\ Settled(p)'
                        /\ \A a \in Accts \ Excepted' : InStep(acc', unconf', p, a)
  BY <1>1 DEF PoolInv
<1>5. \A a \in Accts \ Excepted : InStep(acc, unconf, pool, a)
  <2>1. PICK p \in Seq(Txs) : Settled(p) /\ \A a \in Accts \ Excepted : InStep(acc, unconf, p, a)
    BY <1>1, <1>4 DEF PoolInv
  <2>2. p = pool
    BY <1>2, <2>1 DEF Settled
  <2> QED BY <2>1, <2>2
<1>6. pool' \in Seq(Txs) /\ Settled(pool)'
  BY <1>1, <1>2, <1>3, WithoutTxs DEF Settled
<1>7. ASSUME NEW a \in Accts \ Excepted' PROVE InStep(acc', unconf', pool', a)
  <2>2. InStep(acc, unconf, pool, a) /\ acc.records[a] \in {NoRow, acc.db[a]}
    BY <1>1, <1>5, CacheIsRow
  <2>3. \A t \in T : t.from # a
    BY <1>3, <2>2, ScreenedKeeps
  <2> DEFINE d == OrEmpty(acc.db[a])
             r == Without(pool, T)
  <2>4. d.nonce \in Nat
    BY <1>3, StoreMaps, RowFacts DEF Row
  <2>5. InOrder(pool, a, d.nonce) /\ \A k \in 1 .. Len(pool) : pool[k].from = a => pool[k] \notin T
    BY <2>2, <2>3 DEF InStep
  <2> HIDE DEF T
  <2>6. Sent(r, Len(r), a) = Sent(pool, Len(pool), a) /\ InOrder(r, a, d.nonce)
    BY <1>3, <2>4, <2>5, WithoutSent
  <2>7. acc'.db = acc.db
    BY <1>3 DEF Reads
  <2> QED BY <1>1, <2>2, <2>6, <2>7 DEF InStep
<1> QED BY <1>6, <1>7

\* An account without transactions is in step when it is not known yet, or as it
\* was committed.
LEMMA EmptyInStep ==
  ASSUME NEW s \in Store, NEW u, NEW a \in Accts, u[a] \in {NoRow, OrEmpty(s.db[a])}
  PROVE  InStep(s, u, <<>>, a)
<1> DEFINE d == OrEmpty(s.db[a])
<1>1. d \in Row /\ d.nonce \in Nat
  BY StoreMaps, RowFacts DEF Row
<1>2. Len(<<>>) = 0 /\ Sent(<<>>, 0, a) = 0
  BY SentFacts
<1>3. InOrder(<<>>, a, d.nonce)
  BY <1>2 DEF InOrder
<1>4. d.nonce = d.nonce + 0
  BY <1>1
<1> QED BY <1>1, <1>2, <1>3, <1>4 DEF InStep

\* The recheck of a commit starts from accounts that are all committed.
LEMMA CommitPool ==
  ASSUME TypeOK, LockInv, Places, StoreInv, PoolInv, FinishCommit
  PROVE  PoolInv'
<1> DEFINE s == Without(pool, ToSet(blk))
<1>1. /\ pc = "cleaned" /\ RecheckPool(acc, unconf, s) /\ pc' \notin Between
      /\ UNCHANGED <<at, item, Excepted>> /\ Loop \in inside
  BY StartFacts DEF FinishCommit, admitVars, Between, Unlock, Excepted
<1>2. acc \in Store /\ unconf \in Rows /\ s \in Seq(Txs)
  BY WithoutTxs DEF TypeOK
<1> HIDE DEF s
<1>3. /\ pool' \in Seq(Txs) /\ Reads(acc, acc')
      /\ \A a \in Accts : /\ InStep(acc, unconf, <<>>, a)
                          /\ acc.records[a] \in {NoRow, acc.db[a]}
                          => InStep(acc', unconf', pool', a)
  BY <1>1, <1>2, RecheckPoolFacts
<1>4. Settled(pool)'
  BY <1>1, NobodyChecks DEF Settled
<1>5. ASSUME NEW a \in Accts \ Excepted' PROVE InStep(acc', unconf', pool', a)
  <2>1. a \in Accts \ Excepted
    BY <1>1
  <2>2. acc.records[a] \in {NoRow, acc.db[a]}
    BY <1>1, <2>1, CacheIsRow
  <2>3. unconf[a] \in {NoRow, OrEmpty(acc.db[a])}
    BY <1>1, <2>1 DEF PoolInv
  <2>4. InStep(acc, unconf, <<>>, a)
    BY <1>2, <2>3, EmptyInStep
  <2> QED BY <1>3, <2>2, <2>4
<1> QED BY <1>1, <1>3, <1>4, <1>5 DEF PoolInv, Between

\* The pool continues the committed nonces in every step.
LEMMA PoolKept ==
  ASSUME TypeOK, LockInv, Places, StoreInv, PoolInv, [Next]_vars
  PROVE  PoolInv'
<1>1. CASE Still
  BY <1>1, StillInv
<1>2. CASE stale' /\ pc' # "cleaned"
  BY <1>2 DEF PoolInv
<1>3. ASSUME NEW q \in Admitters, StoreTx(q) \/ CheckTx(q) PROVE PoolInv'
  BY <1>3, StorePool, CheckPool
<1>4. ASSUME NEW a \in Accts, AccountInfo(a) PROVE PoolInv'
  BY <1>4, InfoPool
<1>5. CASE CreateBlockProposal
  BY <1>5, ProposalPool
<1>6. CASE CommitDB
  <2>1. pc' = "applied"
    BY <1>6 DEF CommitDB
  <2> QED BY <2>1 DEF PoolInv
<1>7. CASE CommitTxApp
  <2>1. pc' = "cleaned" /\ \A a \in Accts : unconf'[a] = NoRow
    BY <1>7 DEF CommitTxApp, NoRows
  <2> QED BY <2>1 DEF PoolInv
<1>8. CASE FinishCommit
  BY <1>8, CommitPool
<1> QED BY <1>1, <1>2, <1>3, <1>4, <1>5, <1>6, <1>7, <1>8, StillSteps

----------------------------------------------------------------------------
(* The theorems.                                                           *)

\* The invariant holds before the first step.
LEMMA InitInv == Init => Inv
<1> SUFFICES ASSUME Init PROVE Inv
  OBVIOUS
<1>1. /\ acc = NewStore(Genesis) /\ pool = <<>> /\ unconf = NoRows
      /\ ready = FALSE /\ readyChan = 0 /\ blk = <<>> /\ done = 0 /\ spent = <<>>
      /\ at = [q \in Admitters |-> "out"] /\ item = [q \in Admitters |-> NoRow]
      /\ charged = <<>> /\ stale = FALSE /\ early = {} /\ phantom = {} /\ pc \in {"newRound", "idle"}
  BY StartFacts DEF Init
<1>2. Genesis \in Rows /\ NoRows \in Rows /\ \A a \in Accts : NoRows[a] = NoRow
  BY TxAssumption DEF NoRows, Rows
<1>3. /\ acc \in Store /\ acc.db = Genesis /\ acc.work = Genesis
      /\ acc.records = NoRows /\ acc.updates = NoRows
  BY <1>1, <1>2 DEF NewStore, Store
<1>4. TypeOK
  <2>1. LockTypeOK
    BY LockInitInv DEF Init, LockInv
  <2>2. ready \in BOOLEAN
    BY <1>1
  <2>4. readyChan \in 0 .. 1 /\ early \subseteq Accts /\ phantom \subseteq Accts
    BY <1>1
  <2>3. /\ pool \in Seq(Txs) /\ blk \in Seq(Txs) /\ spent \in Seq(Txs) /\ charged \in Seq(Txs)
        /\ done \in 0 .. Len(blk)
    BY <1>1
  <2> QED BY <1>1, <1>2, <1>3, <2>1, <2>2, <2>3, <2>4 DEF TypeOK
<1>5. Places
  BY <1>1 DEF Places, Stages, Committed
<1>6. StoreInv
  BY <1>1, <1>2, <1>3 DEF StoreInv, Fresh, Applied
<1>7. ChargeInv
  <2>1. Counted = <<>>
    BY <1>1 DEF Counted
  <2>2. ASSUME NEW a \in Accts PROVE Counts(<<>>, Genesis, a)
    <3> DEFINE g == OrEmpty(Genesis[a]).nonce
    <3>1. g \in Nat
      BY <1>2, RowFacts DEF Rows, Row
    <3>2. Len(<<>>) = 0 /\ Sent(<<>>, 0, a) = 0
      BY SentFacts
    <3> QED BY <3>1, <3>2 DEF Counts, InOrder
  <2> QED BY <1>1, <1>3, <2>1, <2>2 DEF ChargeInv
<1>8. TokenInv
  <2>1. Total(Genesis) \in Int
    BY <1>2, TotalFacts
  <2> QED BY <1>3, <2>1 DEF TokenInv
<1>9. PoolInv
  <2>1. \A a \in Accts : InStep(acc, unconf, <<>>, a)
    BY <1>1, <1>2, <1>3, EmptyInStep
  <2>2. Settled(<<>>) /\ <<>> \in Seq(Txs)
    BY <1>1 DEF Settled
  <2> QED BY <1>1, <2>1, <2>2 DEF PoolInv
<1> QED BY <1>4, <1>5, <1>6, <1>7, <1>8, <1>9 DEF Inv

\* Every step keeps the invariant.
LEMMA StepInv ==
  ASSUME LockInv, LockInv', Inv, [Next]_vars
  PROVE  Inv'
<1>1. /\ TypeOK /\ Places /\ StoreInv /\ ChargeInv /\ TokenInv /\ PoolInv
      /\ acc \in Store /\ spent \in Seq(Txs) /\ charged \in Seq(Txs) /\ Genesis \in Rows
  BY TxAssumption DEF Inv, TypeOK
<1>2. StoreStep
  BY <1>1, StoreSteps
<1>3. TypeOK'
  BY <1>1, TypesStay DEF LockInv
<1>4. Places'
  BY <1>1, PlacesKept
<1>5. StoreInv' /\ ChargeInv' /\ TokenInv'
  BY <1>1, <1>2, StoreKept, ChargesKept, TokensKept
<1>6. PoolInv'
  BY <1>1, PoolKept
<1> QED BY <1>3, <1>4, <1>5, <1>6 DEF Inv

\* The invariant holds in every run of the node: admissions, RPC requests, the
\* event loop, cancellations, resets and rollbacks in any order.
THEOREM Inductive == Spec => []Inv
<1>1. Spec => []LockInv
  BY ImplementsLock, LockInvariant, PTL
<1>2. LockInv /\ LockInv' /\ Inv /\ [Next]_vars => Inv'
  BY StepInv
<1> QED BY <1>1, <1>2, InitInv, PTL DEF Spec

\* Every variable keeps its type; balances and unconfirmed balances are never
\* negative (applyTransaction, Spend, Transfer).
THEOREM TypesKept == Spec => []TypeOK
<1>1. Inv => TypeOK
  BY DEF Inv
<1> QED BY <1>1, Inductive, PTL

\* Outside the two commits of a block, what getAccount has in the cache is the
\* committed row, whatever requests, admissions, executions and evictions did to
\* it, or the row of an account that the open block has written and will commit.
THEOREM CacheIsCoherent == Spec => []CacheCoherent
<1>1. Inv => CacheCoherent
  <2> SUFFICES ASSUME StoreInv, pc # "applied", NEW a \in Accts \ phantom
               PROVE  acc.records[a] \in {NoRow, acc.db[a]} \/ acc.updates[a] # NoRow
    BY DEF Inv, CacheCoherent
  <2>1. Fresh(acc, a)
    BY DEF StoreInv
  <2> QED BY <2>1 DEF Fresh
<1> QED BY <1>1, Inductive, PTL

\* checkAndSpend charges every account its nonces one after another: nothing is
\* charged twice or out of order over any executions, rollbacks and commits.
THEOREM ChargesInOrder == Spec => []ChargedInOrder
<1>1. Inv => ChargedInOrder
  BY DEF Inv, ChargeInv, Counts, InOrder, ChargedInOrder
<1> QED BY <1>1, Inductive, PTL

\* Executed blocks (Spend and Transfer over the cache) make no tokens.
THEOREM TokensNeverMade == Spec => []NoTokensCreated
<1>1. Inv => NoTokensCreated
  BY DEF Inv, TokenInv, NoTokensCreated
<1> QED BY <1>1, Inductive, PTL

\* The pool continues the committed nonces of every sender: admissions, proposals,
\* blocks of other leaders, commits and their rechecks leave no gap and no
\* repetition in it.
THEOREM PoolInOrder == Spec => []PoolContinuesNonces
<1>1. Inv => PoolContinuesNonces
  <2> SUFFICES ASSUME Inv, ~stale, pc \notin {"applied", "cleaned"},
                      \A q \in Admitters : at[q] # "check",
                      NEW j \in 1 .. Len(pool), pool[j].from \notin Excepted
               PROVE  pool[j].nonce = OrEmpty(acc.db[pool[j].from]).nonce + Sent(pool, j, pool[j].from)
    BY DEF PoolContinuesNonces, Excepted
  <2>1. PICK p \in Seq(Txs) : Settled(p) /\ \A a \in Accts \ Excepted : InStep(acc, unconf, p, a)
    BY DEF Inv, PoolInv
  <2>2. p = pool
    BY <2>1 DEF Settled
  <2>3. pool[j] \in Txs
    BY DEF Inv, TypeOK
  <2>4. pool[j].from \in Accts
    BY <2>3, TxFields
  <2>5. InStep(acc, unconf, pool, pool[j].from)
    BY <2>1, <2>2, <2>4
  <2> QED BY <2>5 DEF InStep, InOrder
<1> QED BY <1>1, Inductive, PTL
=============================================================================
