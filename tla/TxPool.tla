-------------------------------- MODULE TxPool --------------------------------
(***************************************************************************)
(* The life of transactions in one node: admission into the mempool        *)
(* (QueueTx), the proposal a leader makes of it, the execution of a block  *)
(* transaction by transaction, and its commit or rollback.  The account    *)
(* store and the lock between admissions and commits are the modules       *)
(* Accounts and PriorityLock.                                              *)
(*                                                                         *)
(* An account has three faces here: the committed row, the cached record,  *)
(* and the unconfirmed account that counts the transactions of the         *)
(* mempool (txapp.mempool.accounts).  They are changed by admissions, by   *)
(* the event loop and by RPC requests, under different locks.              *)
(***************************************************************************)
EXTENDS Accounts, PriorityLock, SequencesExt, FiniteSetsExt

CONSTANTS
  Txs,          \* the transactions: see TxAssumption
  Admitters,    \* goroutines that call QueueTx
  Loop,         \* the consensus event loop
  Roles,        \* what the node may be
  Own,          \* the account of the node itself
  Genesis,      \* the rows at genesis
  GasEnabled,   \* ~DisabledGasCosts
  MaxTxSize, MaxPoolSize, MaxBlockSize,
  MaxSubmit,    \* bound: calls of QueueTx
  MaxBlocks,    \* bound: executions of a block
  MaxUndo,      \* bound: cancellations, resets, rollbacks and idle rechecks
  MaxEvict      \* bound: evictions from the cache of accounts

ASSUME TxAssumption ==
  /\ \A t \in Txs : /\ t.from \in Accts /\ t.to \in Accts
                    /\ t.nonce \in Nat /\ t.fee \in Nat /\ t.price \in Nat
                    /\ t.amt \in Nat /\ t.size \in Nat
                    /\ t.kind \in {"action", "transfer"}
  /\ Procs = Admitters \cup {Loop} /\ Loop \notin Admitters
  /\ IsFiniteSet(Accts) /\ Genesis \in Rows
  /\ MaxBlockSize \in Nat
  /\ Roles \subseteq {"leader", "validator"}

VARIABLES
  acc,        \* the account store
  pool,       \* Mempool.txQ
  unconf,     \* txapp.mempool.accounts
  ready,      \* mempoolReady
  readyChan,  \* mempoolReadyChan: the number of tokens in it, at most one
  role,
  at,         \* where each admitting goroutine is in QueueTx
  item,       \* the transaction it queues
  pc,         \* where the event loop is
  blk,        \* the transactions of the block
  done,       \* how many of them are executed
  spent,      \* those of them that were charged
  charged,    \* history: transactions charged in committed blocks, in order
  stale,      \* history: the pool was not rechecked since its accounts were reset
  early,      \* history: accounts whose row of the open block is in the cache or was
  phantom,    \* history: accounts whose record outlived a block that was rolled back
  used        \* how much of the bounds has been spent

poolVars == <<pool, unconf>>
readyVars == <<ready, readyChan>>
admitVars == <<at, item>>
blockVars == <<blk, done, spent>>
history == <<charged, stale, early, phantom>>
vars == <<acc, poolVars, readyVars, role, admitVars, pc, blockVars, history, used, lockVars>>

SizeOf(s) == FoldLeft(LAMBDA n, t : n + t.size, 0, s)

Without(s, T) == FoldLeft(LAMBDA r, t : IF t \in T THEN r ELSE Append(r, t), <<>>, s)

Start == IF role = "leader" THEN "newRound" ELSE "idle"

Init ==
  /\ LockInit
  /\ acc = NewStore(Genesis)
  /\ pool = <<>> /\ unconf = NoRows
  /\ ready = FALSE /\ readyChan = 0
  /\ role \in Roles
  /\ at = [q \in Admitters |-> "out"] /\ item = [q \in Admitters |-> NoRow]
  /\ pc = Start
  /\ blk = <<>> /\ done = 0 /\ spent = <<>>
  /\ charged = <<>> /\ stale = FALSE /\ early = {} /\ phantom = {}
  /\ used = [submit |-> 0, block |-> 0, undo |-> 0, evict |-> 0]

----------------------------------------------------------------------------
(* The mempool check of a transaction (txapp.mempool.applyTransaction).  A  *)
(* mempool state is the unconfirmed accounts with the store they are read   *)
(* from.  A transaction that fails before its sender is looked up, for its   *)
(* signature, its chain or its payload, leaves as one with a wrong nonce.    *)

\* accountInfo: the unconfirmed account, taken from the store the first time.
WithAccount(m, a) ==
  IF m.unconf[a] # NoRow THEN m
  ELSE [unconf |-> [m.unconf EXCEPT ![a] = OrEmpty(Lookup(m.acc, a, FALSE, m.acc.db))],
        acc |-> Cached(m.acc, a, FALSE, m.acc.db)]

Unfunded(row) == GasEnabled /\ row.nonce = 0 /\ row.bal = 0

Admissible(row, t) ==
  /\ ~Unfunded(row)
  /\ t.nonce = row.nonce + 1
  /\ t.kind = "transfer" => t.amt <= row.bal

\* Mutated form: the balance may go below zero.
AfterSpendUnclamped(row, t) ==
  [bal |-> row.bal - (t.fee + IF t.kind = "transfer" THEN t.amt ELSE 0), nonce |-> t.nonce]

\* The balance that is left of an account, no lower than zero.
AfterSpend(row, t) ==
  LET spend == t.fee + IF t.kind = "transfer" THEN t.amt ELSE 0
  IN  [bal |-> IF spend > row.bal THEN 0 ELSE row.bal - spend, nonce |-> t.nonce]

ApplyTransaction(m0, t) ==
  LET m == WithAccount(m0, t.from)
      row == m.unconf[t.from]
  IN  IF Admissible(row, t)
      THEN [m |-> [m EXCEPT !.unconf[t.from] = AfterSpend(row, t)], err |-> "ok"]
      ELSE [m |-> m, err |-> "rejected"]

\* RecheckTxs: every transaction of the pool in order, keeping those that pass.
Recheck(m0, txq) ==
  FoldLeft(LAMBDA r, t : LET c == ApplyTransaction(r.m, t)
                         IN  [m |-> c.m,
                              keep |-> IF c.err = "ok" THEN Append(r.keep, t) ELSE r.keep],
           [m |-> m0, keep |-> <<>>], txq)

\* RecheckTxs as a step: the pool, the unconfirmed accounts and the cache.
RecheckPool(store, accounts, txq) ==
  LET r == Recheck([unconf |-> accounts, acc |-> store], txq)
  IN  pool' = r.keep /\ unconf' = r.m.unconf /\ acc' = r.m.acc

----------------------------------------------------------------------------
(* QueueTx.                                                                *)

QueueTx(q, t) ==
  /\ at[q] = "out" /\ used.submit < MaxSubmit
  /\ Lock(q)
  /\ at' = [at EXCEPT ![q] = "store"] /\ item' = [item EXCEPT ![q] = t]
  /\ used' = [used EXCEPT !.submit = @ + 1]
  /\ UNCHANGED <<acc, poolVars, readyVars, role, pc, blockVars, history>>

\* Mempool.Store refuses a transaction it has, one that is too large, and one
\* that does not fit.
StoreTx(q) ==
  /\ at[q] = "store" /\ q \in inside
  /\ LET t == item[q]
         refused == \/ \E i \in 1 .. Len(pool) : pool[i] = t
                    \/ t.size > MaxTxSize
                    \/ SizeOf(pool) + t.size > MaxPoolSize
     IN  \/ refused /\ at' = [at EXCEPT ![q] = "leave"] /\ UNCHANGED pool
         \/ /\ ~refused
            /\ pool' = Append(pool, t)
            /\ at' = [at EXCEPT ![q] = "check"]
  /\ UNCHANGED <<lockVars, acc, unconf, readyVars, role, item, pc, blockVars, history, used>>

\* CheckTx, and the removal of what does not pass it.
CheckTx(q) ==
  /\ at[q] = "check"
  /\ LET c == ApplyTransaction([unconf |-> unconf, acc |-> acc], item[q])
     IN  /\ unconf' = c.m.unconf /\ acc' = c.m.acc
         /\ \/ /\ c.err = "ok"
               /\ at' = [at EXCEPT ![q] = "signal"]
               /\ UNCHANGED pool
            \/ /\ c.err # "ok"
               /\ at' = [at EXCEPT ![q] = "leave"]
               /\ pool' = Without(pool, {item[q]})
  /\ UNCHANGED <<lockVars, readyVars, role, item, pc, blockVars, history, used>>

\* stateInfo.status = Committed: no block is proposed or executed.
Committed == pc \in {"newRound", "waiting", "propose", "proposing", "idle",
                     "recheck", "rechecking"}

\* A leader whose pool can fill a block is woken up, once: the send waits for
\* room in the channel with the lock held.
SignalReady(q) ==
  /\ at[q] = "signal"
  /\ LET full == role = "leader" /\ Committed /\ SizeOf(pool) >= MaxBlockSize
     IN  \/ ~full /\ at' = [at EXCEPT ![q] = "leave"] /\ UNCHANGED ready
         \/ full /\ ready /\ at' = [at EXCEPT ![q] = "leave"] /\ UNCHANGED ready
         \/ full /\ ~ready /\ at' = [at EXCEPT ![q] = "send"] /\ ready' = TRUE
  /\ UNCHANGED <<lockVars, acc, poolVars, readyChan, role, item, pc, blockVars, history, used>>

SendReady(q) ==
  /\ at[q] = "send" /\ readyChan = 0
  /\ readyChan' = 1
  /\ at' = [at EXCEPT ![q] = "leave"]
  /\ UNCHANGED <<lockVars, acc, poolVars, ready, role, item, pc, blockVars, history, used>>

LeaveQueueTx(q) ==
  /\ at[q] = "leave"
  /\ Unlock(q)
  /\ at' = [at EXCEPT ![q] = "out"] /\ item' = [item EXCEPT ![q] = NoRow]
  /\ UNCHANGED <<acc, poolVars, readyVars, role, pc, blockVars, history, used>>

\* An RPC request for the pending state of an account (accountInfoSafe).
AccountInfo(a) ==
  /\ unconf[a] = NoRow
  /\ LET m == WithAccount([unconf |-> unconf, acc |-> acc], a)
     IN  unconf' = m.unconf /\ acc' = m.acc
  /\ UNCHANGED <<lockVars, pool, readyVars, role, admitVars, pc, blockVars, history, used>>

\* The reads of other accounts push a record out of the cache.
EvictRecord(a) ==
  /\ acc.records[a] # NoRow /\ used.evict < MaxEvict
  /\ acc' = Evict(acc, a)
  /\ used' = [used EXCEPT !.evict = @ + 1]
  /\ UNCHANGED <<lockVars, poolVars, readyVars, role, admitVars, pc, blockVars, history>>

----------------------------------------------------------------------------
(* The proposal of a leader.                                               *)

\* newBlockRound: propose at once when the pool can fill a block.
NewBlockRound ==
  /\ pc = "newRound" /\ used.block < MaxBlocks
  /\ pc' = IF ready THEN "propose" ELSE "waiting"
  /\ UNCHANGED <<lockVars, acc, poolVars, readyVars, role, admitVars, blockVars, history, used>>

\* The round waits for the signal of QueueTx or for its ticker; with events to
\* vote on, or empty blocks allowed, the ticker does not need transactions.
WakeUp ==
  /\ pc = "waiting"
  /\ pc' = "propose"
  /\ \/ readyChan = 1 /\ readyChan' = 0
     \/ UNCHANGED readyChan
  /\ UNCHANGED <<lockVars, acc, poolVars, ready, role, admitVars, blockVars, history, used>>

ProposeBlock ==
  /\ pc = "propose"
  /\ Priority(Loop)
  /\ pc' = "proposing"
  /\ UNCHANGED <<acc, poolVars, readyVars, role, admitVars, blockVars, history, used>>

\* PeekN: the longest prefix of the queue that fits.
PeekN(s) == SubSeq(s, 1, CHOOSE n \in 0 .. Len(s) :
                           /\ SizeOf(SubSeq(s, 1, n)) <= MaxBlockSize
                           /\ n = Len(s) \/ SizeOf(SubSeq(s, 1, n + 1)) > MaxBlockSize)

\* The transactions of each sender in the order of their nonces, within the
\* places the sender has in the list (a stable sort).
NonceOrdered(s) ==
  LET places(i) == {k \in 1 .. Len(s) : s[k].from = s[i].from}
      before(k, j) == s[k].nonce < s[j].nonce \/ (s[k].nonce = s[j].nonce /\ k < j)
      rank(j) == Cardinality({k \in places(j) : before(k, j)})
      place(i) == Cardinality({k \in places(i) : k < i})
  IN  [i \in 1 .. Len(s) |-> s[CHOOSE j \in places(i) : rank(j) = place(i)]]

\* The transactions that may not be proposed: a repeated nonce, or an unfunded
\* sender.  The sender's last kept nonce decides, -1 for none (seenSender).
Screened(s) ==
  FoldLeft(LAMBDA r, t :
             IF t.nonce = r.last[t.from] \/ Unfunded(OrEmpty(Lookup(acc, t.from, FALSE, acc.db)))
             THEN [r EXCEPT !.invalid = @ \cup {t}]
             ELSE [r EXCEPT !.keep = Append(@, t), !.last[t.from] = t.nonce],
           [keep |-> <<>>, invalid |-> {}, last |-> [a \in Accts |-> -1]], s)

\* The transactions that fit: the node's own first, up to the first that does
\* not fit; of the others, a sender who did not fit once is skipped from then on.
Fitted(s) ==
  LET add(r, t) ==
        IF t.from \in r.skip THEN r
        ELSE IF r.left < t.size THEN [r EXCEPT !.skip = @ \cup {t.from}]
        ELSE [r EXCEPT !.txs = Append(@, t), !.left = @ - t.size]
      own == {t \in Txs : t.from = Own}
  IN  FoldLeft(add, [txs |-> <<>>, left |-> MaxBlockSize, skip |-> {}],
               Without(s, Txs \ own) \o Without(s, own)).txs

\* The balance check of the proposal reads through the cache as well.
ScreenReads(s) ==
  LET senders == {s[i].from : i \in 1 .. Len(s)}
  IN  [acc EXCEPT !.records = [a \in Accts |->
         IF GasEnabled /\ a \in senders /\ @[a] = NoRow THEN acc.db[a] ELSE @[a]]]

\* createBlockProposal: what PrepareProposal refuses also leaves the pool.
CreateBlockProposal ==
  /\ pc = "proposing" /\ Loop \in inside
  /\ LET txns == NonceOrdered(PeekN(pool))
         r == Screened(txns)
     IN  /\ blk' = Fitted(r.keep)
         /\ pool' = Without(pool, r.invalid)
         /\ acc' = ScreenReads(txns)
  /\ done' = 0 /\ spent' = <<>>
  /\ Unlock(Loop)
  /\ pc' = "exec"
  /\ used' = [used EXCEPT !.block = @ + 1]
  /\ UNCHANGED <<unconf, readyVars, role, admitVars, history>>

\* What a leader may send: at most two transactions, nonces rising.
Blocks == {s \in SeqOf(Txs, 2) :
             /\ SizeOf(s) <= MaxBlockSize
             /\ Len(s) = 2 /\ s[1].from = s[2].from => s[1].nonce < s[2].nonce}

ReceiveBlock ==
  /\ pc = "idle" /\ used.block < MaxBlocks
  /\ blk' \in Blocks
  /\ done' = 0 /\ spent' = <<>>
  /\ pc' = "exec"
  /\ used' = [used EXCEPT !.block = @ + 1]
  /\ UNCHANGED <<lockVars, acc, poolVars, readyVars, role, admitVars, history>>

----------------------------------------------------------------------------
(* Execution.                                                              *)

\* checkAndSpend: the price, or the fee that was offered when it is less; an
\* account that cannot pay gives what GetAccount says it has.
CheckAndSpend(s0, t) ==
  LET s == Cached(s0, t.from, FALSE, s0.work)
      price == IF GasEnabled THEN t.price ELSE 0
      amount == IF t.fee < price THEN t.fee ELSE price
      first == Spend(s, t.from, amount, t.nonce)
      rest == OrEmpty(Lookup(first.s, t.from, FALSE, first.s.work)).bal
      second == Spend(first.s, t.from, rest, t.nonce)
  IN  CASE first.err = "ok" -> [s |-> first.s, charged |-> TRUE, go |-> t.fee >= price]
        [] first.err = "funds" -> [s |-> second.s, charged |-> second.err = "ok", go |-> FALSE]
        [] OTHER -> [s |-> first.s, charged |-> FALSE, go |-> FALSE]

\* baseRoute.Execute: what InTx does is undone when it fails, the spend stays.
ExecuteRoute(s0, t) ==
  LET c == CheckAndSpend(s0, t)
  IN  IF c.go /\ t.kind = "transfer"
      THEN [s |-> Transfer(c.s, t.from, t.to, t.amt).s, charged |-> c.charged]
      ELSE [s |-> c.s, charged |-> c.charged]

\* The accounts whose record is not their committed row.
Ahead(s) == {a \in Accts : s.records[a] \notin {NoRow, s.db[a]}}

ExecuteTx ==
  /\ pc = "exec" /\ done < Len(blk)
  /\ LET t == blk[done + 1]
         r == ExecuteRoute(acc, t)
     IN  /\ acc' = r.s
         /\ spent' = IF r.charged THEN Append(spent, t) ELSE spent
         /\ early' = early \cup Ahead(r.s)
  /\ done' = done + 1
  /\ UNCHANGED <<lockVars, poolVars, readyVars, role, admitVars, pc, blk,
                 charged, stale, phantom, used>>

FinishExecution ==
  /\ pc = "exec" /\ done = Len(blk)
  /\ pc' = "executed"
  /\ ready' = IF role = "leader" THEN FALSE ELSE ready
  /\ UNCHANGED <<lockVars, acc, poolVars, readyChan, role, admitVars, blockVars, history, used>>

----------------------------------------------------------------------------
(* Commit.                                                                 *)

BeginCommit ==
  /\ pc = "executed"
  /\ Priority(Loop)
  /\ pc' = "committing"
  /\ UNCHANGED <<acc, poolVars, readyVars, role, admitVars, blockVars, history, used>>

\* consensusTx.Commit
CommitDB ==
  /\ pc = "committing" /\ Loop \in inside
  /\ acc' = CommitRows(acc)
  /\ charged' = charged \o spent
  /\ pc' = "applied"
  /\ UNCHANGED <<lockVars, poolVars, readyVars, role, admitVars, blockVars, stale, early, phantom, used>>

\* Mutated form: the unconfirmed accounts survive the commit.
CommitTxAppKeeps ==
  /\ pc = "applied"
  /\ acc' = CommitAccounts(acc)
  /\ early' = {}
  /\ pc' = "cleaned"
  /\ UNCHANGED <<lockVars, poolVars, readyVars, role, admitVars, blockVars,
                 charged, stale, phantom, used>>

\* TxApp.Commit
CommitTxApp ==
  /\ pc = "applied"
  /\ acc' = CommitAccounts(acc)
  /\ unconf' = NoRows
  /\ early' = {}
  /\ pc' = "cleaned"
  /\ UNCHANGED <<lockVars, pool, readyVars, role, admitVars, blockVars,
                 charged, stale, phantom, used>>

\* The rest of commit: the block leaves the pool, the pool is rechecked and
\* the leader told when it can fill the next block.
FinishCommit ==
  /\ pc = "cleaned"
  /\ RecheckPool(acc, unconf, Without(pool, ToSet(blk)))
  /\ ready' = IF SizeOf(pool') >= MaxBlockSize THEN TRUE ELSE ready
  /\ blk' = <<>> /\ done' = 0 /\ spent' = <<>>
  /\ stale' = FALSE
  /\ Unlock(Loop)
  /\ pc' = Start
  /\ UNCHANGED <<readyChan, role, admitVars, charged, early, phantom, used>>

----------------------------------------------------------------------------
(* Cancellation, reset and rollback.                                       *)

\* BlockProcessor.Rollback and TxApp.Rollback.
RollbackBlock ==
  /\ acc' = RollbackAccounts(acc)
  /\ unconf' = NoRows
  /\ blk' = <<>> /\ done' = 0 /\ spent' = <<>>
  /\ early' = {} /\ phantom' = phantom \cup Ahead(acc)
  /\ stale' = TRUE

Undo ==
  /\ used.undo < MaxUndo
  /\ used' = [used EXCEPT !.undo = @ + 1]

\* The leader's operator cancels the execution and names transactions to drop;
\* the pool is rechecked before the next proposal.
CancelBlockExecution(T) ==
  /\ role = "leader" /\ pc = "exec"
  /\ Undo
  /\ RollbackBlock
  /\ pool' = Without(pool, T)
  /\ pc' = "recheck"
  /\ UNCHANGED <<lockVars, readyVars, role, admitVars, charged>>

\* A validator gets the leader's reset: it rolls back a block of the height
\* that the reset is for, and rechecks when transactions are named.  A block of
\* another height is kept; one that is executing is waited for.
ResetBlockProp(T) ==
  /\ role = "validator"
  /\ Undo
  /\ \/ /\ pc \in {"exec", "executed"}
        /\ RollbackBlock
        /\ pc' = IF T = {} THEN "idle" ELSE "recheck"
     \/ /\ pc \in {"idle", "executed"} /\ T # {}
        /\ stale' = TRUE
        /\ pc' = IF pc = "idle" THEN "recheck" ELSE "recheck held"
        /\ UNCHANGED <<acc, unconf, blockVars, early, phantom>>
  /\ pool' = Without(pool, T)
  /\ UNCHANGED <<lockVars, readyVars, role, admitVars, charged>>

\* An executed block gives way to another proposal, to a catch-up or to a
\* block of another leader: rollbackState alone.
RollbackState ==
  /\ pc = "executed"
  /\ Undo
  /\ RollbackBlock
  /\ pc' = Start
  /\ UNCHANGED <<lockVars, pool, readyVars, role, admitVars, charged>>

BeginRecheck ==
  /\ \/ pc = "recheck" /\ pc' = "rechecking"
     \/ pc = "recheck held" /\ pc' = "rechecking held"
  /\ Priority(Loop)
  /\ UNCHANGED <<acc, poolVars, readyVars, role, admitVars, blockVars, history, used>>

FinishRecheck ==
  /\ pc \in {"rechecking", "rechecking held"} /\ Loop \in inside
  /\ RecheckPool(acc, unconf, pool)
  /\ Unlock(Loop)
  /\ pc' = CASE pc = "rechecking held" -> "executed"
             [] pc = "rechecking" /\ role = "leader" -> "propose"
             [] OTHER -> "idle"
  /\ UNCHANGED <<readyVars, role, admitVars, blockVars, history, used>>

\* Block sync finds no further block and rechecks the pool, without the lock
\* and on top of the unconfirmed accounts as they are.
CatchupRecheck ==
  /\ pc = "idle"
  /\ Undo
  /\ RecheckPool(acc, unconf, pool)
  /\ stale' = TRUE
  /\ UNCHANGED <<lockVars, readyVars, role, admitVars, pc, blockVars, charged, early, phantom>>

----------------------------------------------------------------------------
AdmissionStep(q) ==
  \/ StoreTx(q) \/ CheckTx(q) \/ SignalReady(q) \/ SendReady(q) \/ LeaveQueueTx(q)

LoopStep ==
  \/ NewBlockRound \/ WakeUp \/ ProposeBlock \/ CreateBlockProposal
  \/ ExecuteTx \/ FinishExecution
  \/ BeginCommit \/ CommitDB \/ CommitTxApp \/ FinishCommit
  \/ BeginRecheck \/ FinishRecheck

Environment ==
  \/ \E q \in Admitters, t \in Txs : QueueTx(q, t)
  \/ \E a \in Accts : AccountInfo(a) \/ EvictRecord(a)
  \/ ReceiveBlock
  \/ \E T \in SUBSET ToSet(blk) : CancelBlockExecution(T)
  \/ \E T \in {{}} \cup {{t} : t \in Txs} : ResetBlockProp(T)
  \/ RollbackState \/ CatchupRecheck

Next == (\E q \in Admitters : AdmissionStep(q)) \/ LoopStep \/ Environment

Spec == Init /\ [][Next]_vars

\* The goroutines run; requests, blocks and operators need not come.
Fairness == (\A q \in Admitters : WF_vars(AdmissionStep(q))) /\ WF_vars(LoopStep)

FairSpec == Spec /\ Fairness

----------------------------------------------------------------------------
\* Every variable keeps its shape: no balance or unconfirmed balance below zero,
\* at most one signal in mempoolReadyChan (applyTransaction, Spend, QueueTx).
TypeOK ==
  /\ LockTypeOK
  /\ acc \in Store
  /\ unconf \in Rows
  /\ pool \in Seq(Txs) /\ blk \in Seq(Txs) /\ spent \in Seq(Txs) /\ charged \in Seq(Txs)
  /\ ready \in BOOLEAN /\ readyChan \in 0 .. 1
  /\ done \in 0 .. Len(blk)
  /\ early \subseteq Accts /\ phantom \subseteq Accts

\* A commit or a proposal that waits for the mempool is the next to get it,
\* however many admissions queued before it (PriorityLock in commit).
CommitGoesFirst == Loop \in Waiting => Head(queue) = Loop

\* How many of the first n transactions of s are of account a.
Sent(s, n, a) == Cardinality({k \in 1 .. n : s[k].from = a})

\* The transactions of one sender that wait in the mempool continue the
\* sender's committed nonce without a gap or a repetition, whatever admissions,
\* proposals, commits and foreign blocks interleave, so a leader can put all of
\* them into blocks.  It holds outside the admission of a transaction (QueueTx)
\* and of a commit, and as long as no rollback or idle recheck left the
\* unconfirmed accounts out of step (stale).  A sender whose uncommitted row the
\* executing block read into the cache is excepted (early), an admission may have
\* taken it for the committed one; so is one whose record outlived a rollback.
PoolContinuesNonces ==
  \/ stale
  \/ pc \in {"applied", "cleaned"}
  \/ \E q \in Admitters : at[q] = "check"
  \/ \A j \in 1 .. Len(pool) :
       LET a == pool[j].from
       IN  a \in early \cup phantom \/ pool[j].nonce = OrEmpty(acc.db[a]).nonce + Sent(pool, j, a)

\* Every committed charge of an account took exactly the next nonce: no
\* transaction is charged twice and none is charged out of order over any
\* sequence of executions, rollbacks and commits, and the row counts them.
\* Accounts whose uncommitted row was left in the cache by a block that was
\* rolled back are excepted: the next block spends from a row that never was.
ChargedInOrder ==
  \A a \in Accts \ phantom :
    /\ OrEmpty(acc.db[a]).nonce = OrEmpty(Genesis[a]).nonce + Sent(charged, Len(charged), a)
    /\ \A j \in 1 .. Len(charged) :
         charged[j].from = a =>
           charged[j].nonce = OrEmpty(Genesis[a]).nonce + Sent(charged, j, a)

\* Blocks move tokens and burn fees; they never make any, whatever the cache
\* answered to the reads of Spend and Transfer.
Total(rows) == SumFunction([a \in Accts |-> OrEmpty(rows[a]).bal])

NoTokensCreated == phantom = {} => Total(acc.db) <= Total(Genesis)

\* A cached record is the committed row ("always upto date with the database")
\* while no block is between its two commits, whatever is evicted and read again:
\* a record may run ahead only for an account that the open block has written, so
\* that its commit puts it right.  A rollback does not: it keeps what the block
\* read of its own rows, and those accounts (phantom) are excepted for good.
CacheCoherent ==
  pc # "applied" =>
    \A a \in Accts \ phantom :
      acc.records[a] \in {NoRow, acc.db[a]} \/ acc.updates[a] # NoRow

\* The event loop gets the mempool lock whenever it asks for it ("we do not
\* want to delay commit() under any circumstances").
PriorityServed == (Loop \in Waiting) ~> (Loop \in inside)
=============================================================================
