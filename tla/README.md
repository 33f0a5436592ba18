# Verification of the kwil-db node

TLA+ models of the parts of `kwild` that carry its protocols (consensus, the
commit of a block and its recovery, transaction admission and accounts, the
oracle, state sync, the engine's catalogue and the ERC20 bridge), the TLC
configurations that check them on small instances, and TLAPS proofs of the main
results for every value of the constants.

| file | what it is |
|------|------------|
| `Consensus.tla` | the consensus engine: leader, validators, sentries, network |
| `ConsensusProofs.tla` | theorems about it |
| `CommitRecovery.tla` | the commit of a block on one node, and its recovery |
| `Ledger.tla` | what that commit path promises: the abstract specification |
| `CommitRecoveryProofs.tla` | theorems about the commit path, and that it implements `Ledger` |
| `PriorityLock.tla` | the lock between admissions and commits |
| `PriorityLockProofs.tla` | theorems about it |
| `Accounts.tla` | the account store with its cache |
| `TxPool.tla` | admission, mempool, proposal, execution, commit, rollback: composes `Accounts` and `PriorityLock` |
| `TxPoolProofs.tla` | `TxPool` implements the lock; theorems about accounts and mempool |
| `OrderedSync.tla` | one topic of ordered sync |
| `Voting.tla` | resolutions and the end of a block: uses `OrderedSync` |
| `Oracle.tla` | listeners, event stores, votes and blocks of a network: uses `Voting` |
| `OracleProofs.tla` | theorems about the three |
| `SnapshotStore.tla` | the snapshots a provider keeps |
| `StateSync.tla` | a new node that restores one of them: composes providers and node |
| `StateSyncProofs.tla` | theorems about it |
| `Catalogue.tla` | namespaces, roles and privileges of the engine, in memory and in rows |
| `Bridge.tla` | one reward instance of the ERC20 bridge, in memory and in rows |
| `Engine.tla` | both under blocks, rollbacks, restarts, readers and signers |
| `EngineProofs.tla` | theorems about them |
| `Sums.tla` | facts about sums over a set, folds over a sequence and least heights, for the proofs |
| `MC*.tla`, `MC*_<run>.cfg` | the instances for TLC |
| `PROJECT.json` | components, runs, mutants, map to the source, findings, hazards, theorems |

## 1. Inventory

### Consensus engine (`node/consensus`)

State: the last commit `state.lc`, the current proposal `blkProp`, its result
`blockRes`, the leader's `votes`, the current `leader` and the `role` derived
from it, a pending `leaderUpdate` with its file, `stateInfo` (a copy for the
p2p handlers, with `hasBlock`), the out-of-sync catch-up (`catchupOn` and its
range), the channels `newRound`, `newBlockProposal`, `msgChan`, `resetChan`.

Operations: a leader starts a round, proposes a block, counts votes, commits on
a majority and announces; a validator accepts, executes and acknowledges a
proposal, commits the announced block; everybody fetches missing blocks on a
ticker; a leader that is behind is told so by an out-of-sync nack and catches
up in a goroutine; the operator may cancel an execution (which broadcasts a
reset), and replace the leader.

Hard: one event loop per node holds `state.mtx` through an execution, while the
p2p handlers, the reset loop, the catch-up goroutine and the admin calls read
and change its state; messages are lost, repeated and reordered; one token has
to keep the rounds going; crashes may strike between any two steps.

Correct means: nodes agree on the block of each height; a commit is backed by a
majority for that block; the proposal a node holds fits its last commit; the
leader never runs out of rounds nor starts two; the network gets on after any
crash.

### Commit pipeline and recovery (`consensus/block.go`, `commit_intent.go`, `engine.go`, `block_processor`, `store`, `pg`, `meta`)

State: the commit intent file, the badger block store with its height index in
memory, the postgres chain state (height, app hash, dirty flag), the prepared
transaction.

Operations: `commit` records the intent, stores and syncs the block, commits
the prepared transaction and writes the app hash in a second transaction; a
start rolls back what was prepared, resolves the dirty flag from the block
store, repairs a block store that is behind from a peer, replays a database
that is behind from the block store, and syncs with the network.

Hard: three stores that cannot be written together, so five places to crash in,
power failures that take back unsynced writes, a second crash during recovery,
operators who restore one store and not the other.

Correct means: the database is the decided blocks in order, each once; its app
hash is that of its data; the block store serves what was applied; the node
always starts again.

### Transaction admission and accounts (`consensus/lock.go`, `consensus/block.go`, `mempool`, `txapp`, `accounts`)

State: the queue of the priority lock, the mempool, the unconfirmed accounts
that count the transactions in it, the flag and the channel that tell the
leader of a full mempool, the account rows inside and outside the consensus
transaction, the two maps `records` and `updates` in front of them.

Operations: `QueueTx` stores, checks, signals and leaves, all under the lock;
RPC reads fill the unconfirmed accounts; the leader sorts, screens and fits
transactions into a block; a block is executed transaction by transaction with
a nested transaction each; `commit` commits the rows, then the caches, then
rechecks the mempool; cancellations, resets, block sync and idle rechecks each
undo a part of that.

Hard: an account has three faces under three locks; a rollback has to undo
exactly what the block did to each of them; commits overtake admissions; a
channel is written with a lock held.

Correct means: charges are applied once and in the order of nonces, no token
is made, the cache says what the rows say, the mempool continues the committed
nonces, one holder of the lock at a time and commits first.

### Oracle (`voting`, `listeners`, `exts/ordered-sync`, `exts/evm-sync`, `txapp/routes.go`)

State: per node the event store with its broadcast marks, two heights of the
listener in a key-value table; in the application the resolutions, their votes
and the processed ids; the topic with its pending points and last point.

Operations: the listener walks over confirmed blocks and stores events; the
leader proposes the bodies of its events, the others vote for ids; the end of a
block confirms, expires and resolves; a confirmed point waits for its
predecessor.

Hard: the event store is written over two connections that can wait for each
other; marks are durable, mempools are not; listeners start over at any point;
resolutions are confirmed out of order.

Correct means: the topic's callback sees every block with logs once and in
order; only what half of the power has observed; no vote is forgotten, no
decided event proposed again; nobody waits for ever.

### Snapshots and state sync (`snapshotter`, `statesync.go`, `statesyncer.go`, `app/node/build.go`)

State: at a provider directories of chunks and headers and the registry of
them; at the new node the database, the restore marker, the anchor block, chunk
files final and temporary, the pool of discovered snapshots.

Operations: dump, register, prune, load at start, serve; discover, verify with
a trusted provider, download and resume, restore through `psql`, verify the app
hash, fetch the anchor, clear the marker, start.

Hard: a restore is not a transaction and may be cut anywhere, by a kill or a
power loss; files are named by their index only; providers prune and die.

Correct means: a start never takes a broken restore for a database; bytes of
two snapshots are never mixed; an incomplete snapshot is never offered; the
node comes up.

### Engine catalogue and ERC20 bridge (`engine/interpreter`, `exts/erc20-bridge`)

State: namespaces, roles, privileges and members as rows and as the
interpreter's maps; the reward instance with balances, epochs, rewards and
votes as rows and its flags, balance and current epoch as the cache of the
extension; the registered state poller; the signers with what they voted for.

Operations: GRANT, REVOKE, CREATE and DROP ROLE, TRANSFER OWNERSHIP, CREATE and
DROP NAMESPACE, USE and UNUSE; transfer, lock, unlock, issue, bridge,
vote_epoch; resolutions for deposits and for the state poll; the end-block hook
that closes epochs; commit, rollback and start.

Hard: decisions are made from memory, restarted nodes rebuild it from the rows;
a failing call puts back copies; two steps change the cache without the
interpreter's lock; a rolled back block does not put memory back; a signer counts
nonces on its own, over refused votes, timeouts and restarts.

Correct means: memory is what a restart would load; no token appears or
vanishes; one epoch after the other, each under a root that covers its rewards
and confirmed by two thirds of the power; a withdrawal is confirmed in the end.

### The other components

* **Migrations** (`node/migrations`): activation by resolution, changesets by
  height, replay on the new network.
* **p2p handlers and peers** (`node/consensus.go`, `node/block.go`,
  `node/peers`): one proposal slot, body-read slots, gossip topics, gating and
  backoff.
* **SQL parser, planner and code generation**, **RPC services, admin, CLI**,
  **core types, crypto, client**, **configuration, metrics, extensions**: no
  protocol state of their own.

How they interact: the engine of `consensus` drives everything. It takes the
mempool lock to propose and to commit; it calls the block processor, which runs
`txapp` and with it accounts, votes, the SQL engine and its extensions inside
one postgres transaction; the end of a block resolves votes and runs the hooks.
RPC requests, listeners, signers, p2p handlers and snapshot streams are
goroutines beside it that share the mempool, the event store, the caches and
the block store with it.

`PROJECT.json` lists the components with their sources and status, and the
hazards of the code line by line.

## 2. The models

### `Consensus`

`node[n]` is everything node `n` holds. `chain` (blocks with the voters of
their `CommitInfo`) and `leaderFile` are its disk; the rest is memory and is
rebuilt by `Start`. The network is the set of all messages ever sent
(`proposals`, `acks`, `nacks`, `anns`, `resets`), so that any of them may
arrive late, several times, out of order or never. `used` counts what the
environment has done, against the bounds `Max...`.

| action | code |
|--------|------|
| `NewRound`, `DropNewProposal` | the two channel cases of `runConsensusEventLoop`, `newBlockRound` |
| `ProposeBlock`, `FinishProposal` | `proposeBlock` before and after the execution |
| `AddVote` | `addVote`, `processVotes`, the leader's `commit` and announcement |
| `CancelBlockExecution` | the admin call and the cancelled branches of `proposeBlock` and `processBlockProposal` |
| `BeginCatchup`, `ProbeCatchup`, `ApplyCatchup`, `EndCatchup` | `beginOutOfSyncCatchup`, `catchUpFromOutOfSync`, `syncBlocksUntilHeight` block by block, `endOutOfSyncCatchup` |
| `AcceptProposal`, `SendOutOfSyncNack` | `AcceptProposal` of the p2p handler, `NotifyBlockProposal` |
| `IgnoreProposal`, `ProcessBlockProposal`, `FinishExecution` | `processBlockProposal`: its early returns, up to the execution, after it |
| `CommitBlock` | `AcceptCommit`, `commitBlock`, `applyLeaderUpdates`, the signal on promotion |
| `ReannounceAck` | `reannounceMsgs` |
| `LeaderCatchup`, `DoCatchup` | `doCatchup`, `processCurrentBlock`, `replayBlockFromNetwork` |
| `CancelBlock`, `ResetBlockProp` | `cancelBlock` without the lock, `resetBlockProp` with it |
| `PromoteLeader` | the replace-leader command |
| `Crash`, `Restart`, `RestoreOld` | a process that dies, `New` and `Start`, an older disk |

Abstractions, each of which keeps the control of the code:

* The validator set is fixed and execution is deterministic, so the branches
  that compare app hashes, parameters and validator hashes are not reachable.
* A block is its header: an identity, height, timestamp, predecessor, proposer
  and `NewLeader`. Signatures are the identity of the sender.
* A commit is one step here. `CommitRecovery` takes it apart.
* The handler's two `AcceptProposal` checks are the second one, made while the
  only proposal slot (`pending`) is held; the first only saves a download.
* `rebroadcastBlkProposal` and duplicates need no action: messages stay.
* A node that halts or panics (`mode`) may be restarted by its operator.
* The mempool, the migration halt and checkpoints are left out.
* Smaller cuts: `sendHalt` takes effect at once; a decided block whose execution
  fails ends like one whose validation fails, and `CommitBlock` does not follow
  `hasBlock` beyond that failure; a decided block that is the node's proposal is
  not checked against the announced `CommitInfo` again; one catch-up worker at a
  time; a validator without peers does not retry.
* Wall clocks: with `ClocksInSync` a new block is later than any earlier
  proposal; without, a leader's timestamp may be any one after its last block
  and a validator may find any proposal too far ahead.

### `CommitRecovery` and `Ledger`

One node and its three stores. A block is named by the sequence of choices from
genesis up to it, which is what its header hash stands for; different blocks
have different app hashes (two blocks with the same transactions would share
one, which only hides the wrong block). `peers` is the chain the network holds:
for a follower it grows by itself (`PeersDecide`), for a leader it is what the
leader's block store served (`ServeBlock`, which serves a block as soon as
`Store` has indexed it).

`ExecuteProposal`, `ExecuteDecided` and `ReplayBlock` end in the prepared
transaction; `RecordIntent`, `StoreBlock`, `SyncStore`, `CommitPrepared`,
`SetChainState`, `FinishCommit` are the steps of `commit` and
`BlockProcessor.Commit` between which a crash leaves different things on disk;
`Open`, `NewBlockProcessor`, `InitializeState`, `EndReplay`, `EndSync` are the
start of a node in its order. `Crash` may take back any unsynced block of the
block store (badger writes survive the process, not the machine), `LoseStore`
is an older block store, `RestoreDatabase` a dump put back. Errors of a single
store operation stop the node at the same places and are covered by `Crash`.

`Ledger` says what this is for: the database only ever appends the next decided
block, and goes back only when a dump is restored. `ImplementsLedger` states
that a follower implements it, with `peers` as the decided chain and `db.app`
as the ledger.

`rewritten` is a history variable: the block store took a second block of some
height. The `restart` run shows how a leader gets there; the invariants that
read the block store by height hold as long as it did not happen.

### `PriorityLock`, `Accounts`, `TxPool`

One node, as leader or as validator. `PriorityLock` is the queue of callers and
the hand-over; each of its methods is one step, since its body runs under the
inner mutex. `Accounts` is a record of committed rows, rows of the open
transaction, `records` and `updates`, with one operator for each method.

| action | code |
|--------|------|
| `QueueTx`, `StoreTx`, `CheckTx`, `SignalReady`, `SendReady`, `LeaveQueueTx` | `QueueTx` from the lock to the unlock, for each goroutine |
| `AccountInfo` | an RPC read that fills the unconfirmed accounts |
| `NewBlockRound`, `WakeUp`, `ProposeBlock`, `CreateBlockProposal` | the leader's round up to the block, with `prepareBlockTransactions` |
| `ReceiveBlock` | a block of another proposer |
| `EvictRecord` | the LRU cache of `getAccount` drops a record |
| `ExecuteTx`, `FinishExecution` | one transaction of the block, the end of the execution |
| `BeginCommit`, `CommitDB`, `CommitTxApp`, `FinishCommit` | `commit`: lock, rows, caches, recheck and the next state |
| `CancelBlockExecution`, `ResetBlockProp`, `RollbackState`, `BeginRecheck`, `FinishRecheck`, `CatchupRecheck` | the ways a block is undone, and the rechecks that follow or do not |

A transaction is sender, nonce, kind, receiver, amount, fee, price and size.
Two kinds stand for all routes: transfers move tokens, the others only pay.
Checks that read no account (signature, chain id, encoding, migration) end like
a wrong nonce and are left out.

The cache holds 4000 records, and the reads of accounts that are not in the
model push any of them out: `EvictRecord` may take one at any time, up to
`MaxEvict`. An account that was evicted is read again, and inside the execution
of a block through the block's own transaction.

Three history variables name what the code does not keep in order. `early`: an
execution left the uncommitted row of an account in `records`, where admissions
read it before it is committed, and may admit a nonce that continues no row of
the database yet; it gets there for an account the block creates, and for one it
has written while the cache had evicted it, and the commit puts it right.
`phantom`: such a block was rolled back (`Rollback` clears `updates` only), and
the record stays, so that later updates start from a row that never was.
`stale`: a recheck without a reset of the unconfirmed accounts fails every
transaction, a reset without a recheck forgets what the mempool holds.
`CacheCoherent`, `ChargedInOrder` and `NoTokensCreated` hold but for `phantom`,
`PoolContinuesNonces` but for all three. Without the exception `CacheCoherent` is
what the comment at `accounts.go:30` says, and fails.

Left out: the vote-body transaction that a leader adds to its own block, which
`Oracle` has.

### `OrderedSync`, `Voting`, `Oracle`

`Voting` and `OrderedSync` are operators on the state of the application: what
vote bodies, vote ids and the end of a block make of resolutions, processed ids
and the topic. The loops in it whose steps do not depend on each other (the
votes of a block, its confirmed points) are one set each, and the recursive
query of `finalized.sql` is the least set that has what continues the last point
and what continues its own members. `Oracle` has the nodes: a listener each (`Listen`, `CatchUp`,
`NewHeight`, `StoreCheck`, `StoreInsert`, `SetLastHeightWithEvent`,
`SetLastSeenHeight`), and the block (`Propose`, `ExecuteTxs`, `UpdateStats`,
`NoVote`, `BroadcastVoteIDTx`, `MarkBroadcasted`, `CommitBlock`, `Gossip`).
Rows that the open consensus transaction has deleted (`del`) are locked against
the event writer, `writerMtx` is held between `StoreCheck` and `StoreInsert`.

Faults: a listener error (`ListenerFails`; the manager starts it over), a
mempool wiped by a failing recheck (`WipeMempool`, with `MarkRebroadcast`), an
expiring resolution, a crash of the leader or of a validator.

Consensus is reduced to its result: the next block is proposed when every node
has committed the last, and a proposal lost with the leader is replaced. The
external chain does not reorganise below its confirmations. The caps on the
number and size of votes in one transaction, and votes that a validator cannot
pay for, are left out.

History variables: `raced` are events that were decided between `StoreCheck`
and `StoreInsert`; `lost` are votes that are marked and whose only copy a crash
took. Both are reached, and both are named in the properties as the only
exceptions. So is `Hung`: with a fault, writer and consensus transaction of one
node can wait for each other. A vote in a block that was lost with the leader is
not on its way (`Pending`), although its voter still has the block open: with
one fault that makes no difference, with two a second crash would otherwise take
the last copy of a vote unnoticed. The proof asked for this.

### `SnapshotStore`, `StateSync`

A provider commits, dumps chunk by chunk, registers, prunes chunk by chunk,
dies and loads its directory again. The new node goes through `Start`, `Wiped`,
`DoStatesync`, discovery (`Catalog`, `DiscoveryTimeout`, `NoSnapshot`,
`SelectSnapshot`), `Verify`, `FetchChunk` and `FetchBreaks`, `FetchEnds`,
`Restore`, `Import`, `VerifyState`, `FetchAnchor`, `ClearRestoreIncomplete` and
`Engine`. `Kill` ends the process at any point; `PowerLoss` may also
take the anchor block, which is stored without a sync (chunk files need no such
step: every start removes them).

A snapshot is a height and a state ("chain" or "other"); hashes tell snapshots
apart and the app hash tells states apart. The restored database is empty,
"few" (some of the schemas only, which a start takes for not
initialized), "half" or "whole".

`Stranded`: after a power loss the database may be whole, the marker gone and
the anchor lost. The node then does not start; it is an exception of `ComesUp`.

Smaller cuts: `VerifyState` identifies the restored state, where the code
compares the app hash that the dump carries in its chain table; the list of
providers is the pool as it is, where `chunkFetcher` reads it once per snapshot;
the restore of a genesis snapshot is left out.

### `Catalogue`, `Bridge`, `Engine`

`Catalogue` and `Bridge` give each statement, method and resolution as an
operator from memory and rows to memory and rows, together with `LoadCatalogue`
and `LoadInfo`, which is what a start makes of the rows. `Engine` runs them in
the blocks of one validator:

| action | code |
|--------|------|
| `RoleStatement`, `PrivilegeStatement`, `MemberStatement`, `OwnerStatement`, `NamespaceStatement` | the statements of `planner.go` on roles and namespaces |
| `UseStatement` | USE and UNUSE with `prepare` and `disable`, also in a transaction that fails afterwards |
| `BridgeCall` | transfer, lock, unlock, issue, bridge |
| `HasVoted`, `SignAndVote` | `pollAndSign` of a signer: a vote that the rows have already, a vote with the next `localNonce`, admitted or refused for its nonce with the resync |
| `VoteRefused`, `VoteCommitted`, `VoteTimesOut` | how `BroadcastTx` (with sync) ends otherwise: the mempool is full, the transaction is in a committed block, `ErrTxTimeout` |
| `ExecuteVote`, `RestartValidator` | `vote_epoch` in a block, another validator's start |
| `PollState`, `SyncRows`, `SyncMemory`, `ResolveDeposit` | the state poll and its resolution in two steps, a deposit |
| `EndBlockDue`, `HookMemory`, `EndBlock` | the end-block hook in two steps, or a hook that has nothing to close |
| `Commit`, `Rollback`, `Restart` | the end of a block, a block undone, a start |
| `ReadBegins`, `ReadFails` | a read-only call that copies the cache and puts the copy back |

A statement runs under the write lock, and one that fails puts interpreter and
cache back, so a failed statement changes nothing and needs no step; the
exceptions are USE and UNUSE, which touch the poller and the signers. Of the
privileges the model follows CREATE; statements that need another one are left
to the owner. Amounts are one token, a root is the sum of the rewards it covers.
Debits beyond a row fail, as the CHECK of `meta_schema.sql` has it.

A signer marks an epoch as voted only when its transaction is committed, or when
the rows have the vote. Until then it is `waiting`; a timeout leaves the
transaction in the mempools and the epoch unmarked, so the next poll votes
again, with the next nonce. The mempools are one set that all nodes share; the
stop of a node may take the votes that no peer had from it. `nonce` is the
committed nonce of each validator's account, and the mempool admits the one
after it and after what is pending. This is a network without gas costs; with
them a vote, which is sent with fee 0, is not admitted at all.

`Agrees` compares memory with what a reload gives, but for users that lost their
last role: memory keeps an empty list, a reload has no entry. `DecidesAlike`
therefore asks of every statement of the catalogue whether both decide it
alike; REVOKE ... IF GRANTED of a user without roles is the one exception.

`drift` names how memory and rows came apart: "rollback" (the block processor
does not put the engine back), "race" (a failing reader restored an old cache
over the hook's or the resolution's change), "sync" (the state-poll resolution
failed after it had changed the memory). All three are reached. After that the
model only ends the block and restarts the node (`CanWrite`), while the code
goes on executing with the wrong memory: what follows from a drift is not shown,
only that there is no fourth way to one. Errors in the start and stop of
listeners, other than that of `UnregisterPoll`, are left out of `SyncMemory` and
`Unuse`; votes and confirmations of custodial instances are left out of
`VoteEpoch`.

## 3. Runs

| run | result | question |
|-----|--------|----------|
| `fixed` | pass | agreement, certified commits, one round, no reproposal with one leader |
| `progress` | pass | every node reaches the last height |
| `outofsync` | pass | the out-of-sync catch-up of a leader ends; with replaced leaders, a fork takes a validator that voted for both blocks |
| `offline` | violation | an offline leader can be replaced |
| `recovery` | pass | two crashes, a lost block store, a restored dump |
| `restart` | violation | the block store and postgres cannot disagree at one height |
| `txs` | pass | nonces, lock, charges, tokens and account cache over concurrent admissions, blocks, rollbacks and an eviction |
| `ready` | violation | the event loop always gets the mempool lock |
| `oracle` | pass | logs reach the topic once, in order and backed by power |
| `sync` | pass | a restore is all or nothing, and the node comes up |
| `engine` | pass | a running node decides as a restarted one; tokens, epochs; withdrawals reach a confirmed epoch |
| `votes` | violation | a running signer gets its vote into the rows |

### Bounds

* `Consensus`: three validators are the smallest set in which a majority is not
  everybody, so that a node can be left behind; two heights let a message of
  one height arrive at the next; three proposals let a block be replaced and
  the height after it still be proposed. One crash is enough to lose the memory
  of any node at any point. `outofsync` needs three heights, because a nack is
  only sent for heights below the last commit, and has two validators and no
  crash to keep its liveness property within reach. Its two replace-leader
  commands are a majority of the two, so that replacements complete, and its
  five proposals are enough for both leaders to commit at one height.
* `CommitRecovery`: the second crash hits the recovery from the first, and
  three heights let a restored database be two blocks behind, which is the
  least `replayFromBlockStore` acts upon.
* `TxPool`: two admitting goroutines beside the loop are enough for a queue
  with an overtaking commit. Of the two accounts one is funded and one is
  created by a transfer; the three transactions are the transfer, its successor
  with a fee below the price, and one of the created account. `txs` has two
  submissions, two blocks, one undo and one eviction, which is enough for an
  account to be read again inside the block that wrote it. Its sizes let the
  transfer share a block or the mempool with either of the others. `ready` has
  blocks of one transaction, so that each of two admissions fills one.
* `Oracle`: a leader and a validator of power 1 and a silent third, so that a
  confirmation needs both; two blocks with logs and chunks of one block, so
  that ranges follow each other; one fault of any kind in a behaviour.
* `StateSync`: a trusted provider that keeps one snapshot and moves from height
  1 to 3, so that it prunes what is being fetched, and a peer with two other
  ones, one of them wrong; one chunk or two; one stop of the new node, one
  death of the provider, one retry.
* `Engine`: a role besides the default one, two users, the main namespace and
  one that can be a user's or an extension; two holders of tokens, one to
  transfer to; two validators that sign, of power 2 and 1, so that the
  threshold of 2 is reached by the first alone and not by the second. A grant
  that meets a denial, or a USE and two withdrawals, take three statements.
  `engine` has these with two deposits, one rollback, a vote that is refused and
  one that times out, and two restarts: each puts a signer to work, or strikes
  it with a vote under way. `votes` has two statements and one deposit, which
  its counterexample takes.

Symmetry is used for the validators other than the genesis leader in `fixed`
and for the admitting goroutines in `txs`, where no liveness property is checked.

### Fairness

* `Consensus`: the event loop takes the signals it waits for, executions end,
  proposals are rebroadcast and acks reannounced on tickers until used, the
  catch-up ticker fires, fetches are retried: weak fairness of each of these.
  Not fair: block announcements (the reannouncement in `reannounceMsgs`
  requires `state.commitInfo`, which `resetState` has cleared, so an
  announcement is sent once), resets, operator commands, crashes. `FairSpec`
  adds that nodes that are down are started again; `OfflineSpec` does not.
* `CommitRecovery`: a commit and a start run to their end and a follower takes
  the blocks its peers have.
* `TxPool`: every goroutine inside `QueueTx` and the event loop go on whenever
  they can (weak fairness). Nothing is assumed of clients and operators.
* `Oracle`: listeners, the steps of a block and the gossip of transactions go
  on (weak fairness); faults are never forced.
* `StateSync`: providers and node go on (weak). Strong fairness where the code
  tries again without a bound: a verification in which the trusted providers
  answer, and a stream that delivers, come about if they are tried for ever.
* `Engine`: blocks end and are committed, a reader ends, a signer polls every
  30 seconds and learns of a committed transaction (weak). Not fair: refusals,
  timeouts, restarts, statements. Strong: time passes the period of an epoch at
  some block at which the hook could close it, and a vote in the mempool gets
  into some block.

### What the violations show

* `offline`: `doCatchup` returns before `applyLeaderUpdates` in a validator
  that has executed a proposal nobody committed. If the leader dies after its
  proposal, the validators that executed it never follow the command.
* `restart`: `replayFromBlockStore` compares with `>=` and skips the replay
  when one block is missing. A leader that crashed between the two stores
  proposes another block of that height; its store then holds both, and the
  index built at the next start takes the one whose hash sorts last.
* `ready`: `QueueTx` sends on `mempoolReadyChan`, of one place, with the mempool
  lock held, and `newBlockRound` does not read the channel when `mempoolReady`
  is already set. A second signal blocks its sender for ever, and the leader's
  next proposal or commit behind it.
* `votes`: the signer sends the committed nonce of its account where the mempool
  wants the next one, and the resync after the refusal sets the same value
  again. Votes get through only when something else has moved the counter by
  one, such as a refusal by a full mempool. With the nonce plus one in
  `ResyncedNonce` the property holds.

### What the passing runs except

The models reach states that the code should not get into, and the properties
name them, so that each is shown to be the only way out: accounts cached by a
rolled back block (`phantom`), a mempool out of step with its accounts
(`stale`), an admission that counts from a row the executing block has only just
made (`early`), a decided event inserted again (`raced`), a vote lost with a
crashed mempool (`lost`), writer and consensus transaction that wait for each
other (`Hung`, after a fault), a restored database whose anchor a power loss took
(`Stranded`) and a fresh start over a kept anchor, an engine whose memory is not
that of its rows (`drift`), a revoke of a user without roles (`DecidesAlike`), a
signer whose counter is not the nonce the mempool asks for (`InStep`): the
premise of `WithdrawalsConfirmed` is that from some time on the instance stays
in use and signers with two thirds of the power run in step, which the run
reaches and `votes` shows the code does not bring about. The hazards in
`PROJECT.json` give the lines. Three of these contradict what the repository says:

* A fork after a replaced leader. `processBlockProposal` does not ask again who
  proposed the block in its slot, and it drops an acknowledged block for a newer
  one of the same height (`follower.go:217`). A validator with the old leader's
  proposal in the slot applies the command, acks that block, then the new
  leader's; each leader has a majority and commits. `leader.go:44-53` lists the
  outcomes of the command and none is this. `Agreement` is therefore checked and
  proved for one leader, and `ForksTakeDoubleVotes` for any.
* `phantom`. `Rollback` of the account store clears the block's `updates`, not
  the `records` that the block's own reads filled, so the cache keeps an account
  of a block that was undone, against `accounts.go:30`.
* The revoke. A user that lost the last role exists for `UnassignRole` on a node
  that kept running (`roles.go:425`) and not on one that restarted
  (`roles.go:409`), so `REVOKE ... IF GRANTED` succeeds on the one and fails on
  the other; results of transactions are part of the app hash, and
  `engine/README.md` promises determinism.

The model of consensus further reaches a leader one block behind its network that no nack
tells so, and a reset that misses its proposal; no property is stated of them.

### Mutants

Every property of a passing run has a mutant in `PROJECT.json`: a form of one
definition with a plausible slip (a dropped guard, votes that survive a reset,
an announcement before the commit, a threshold rounded the wrong way) under
which TLC finds the property violated.

## 4. Proofs

`ConsensusProofs`, for any number of nodes and any bounds:

* `TypeCorrect`: `Spec => []TypeOK`;
* `ProposalOnTop`: `Spec => []ProposalExtendsCommit`;
* `AgreementUnderOneLeader`: `Spec => []Agreement`, assuming `MaxPromote = 0`
  and `MaxLoss = 0`, that is, no replace-leader command and no lost disk;
* `NoReproposalUnderOneLeader`: `Spec => NoReproposal` under the same
  assumptions;
* `CommitsAreCertified`: `Spec => []CertifiedCommits`, for all constants, that
  is, with lost disks and any number of leaders;
* `ForksNeedDoubleVoters`: `Spec => []ForksTakeDoubleVotes`, for all constants;
* `OneRoundUnderOneLeader`: `Spec => []OneRound`, under the two assumptions.

The actions are many and each changes one node and perhaps sends something, so
the proof first shows (`NextKinds`) that every step is of one of nine kinds: a
node keeps its chain (`Stay`), takes over blocks of another node's chain
(`Copy`), commits an announcement (`Learn`), a leader commits and announces
(`Decide`), makes a block (`Make`), a validator takes up a proposal (`Adopt`)
or stores one for later (`Receive`), an operator acts (`Command`), a disk is
lost (`Lose`). The invariants are then shown for the kinds.

`TypeInv` is inductive for all constants. It adds to the types that the block
at index h of a chain has height h, that a proposal sits on top of the chain,
and that `proposals` is finite. `FixedInv` is inductive under the two
assumptions: all blocks are made by the genesis leader, every announced block
is in the leader's chain at its height, every chain is a prefix of the
leader's. `Agreement` alone is not inductive: it does not say where the next
announcement comes from. The invariant also shows why the two assumptions are
needed: a second proposer or a leader with a shorter chain breaks exactly the
prefix relation.

`CertInv`, for `CertifiedCommits`, says the same of three places: the votes that
a running node holds are cast for the proposal it has executed (`VotesFit`), the
votes stored in every chain and in every announcement are a majority cast for
that block. The first is what the property leaves out: a commit takes the votes
as they are, so each of `resetState`, `nextState`, the catch-ups and the leader
changes has to leave none behind. The second and third are needed together,
since blocks come from announcements and from other nodes' chains. No
assumption on the leader is needed, and a forked chain is certified too.
`ForksNeedDoubleVoters` follows: the votes of two blocks are majorities of the
validators (which is why the types say that nobody else is counted), two
majorities meet (`MajoritiesMeet`), and the common member has cast both votes.
This is what is left of agreement when leaders are replaced.

`RoundInv`, for `OneRound`, is `FixedInv` together with `RoundOK` of the genesis
leader: signals, proposal and catch-up in its sync stage add up to one while it
runs, and no reset is waiting for it. It counts any proposal, the property only
the leader's own; that the two are the same is where `FixedInv` comes in. A reset is waiting only
at a validator; at a leader it would take the proposal away and signal nothing.
Both assumptions are needed: TLC finds `OneRound` violated when a restored leader
gets its own old block through the catch-up, which drops its proposal without a
signal for the next round, and when a second command makes a replaced leader
lead again beside the signal of its first round. One command alone leaves it
true on an instance with three validators and one height.

`PriorityLockProofs`, for any set of callers: `LockInvariant`, with
`LockInv` = types, mutual exclusion, and no lost hand-over: nobody waits at a
free lock, nobody waits twice or while inside, and a taken lock has a holder.
Mutual exclusion alone is not inductive: `Unlock` gives the lock to the head of
the queue, and only the hand-over part says that this caller is not inside.
`LockExcludes` and `LockHandsOver` follow.

`TxPoolProofs`, for any transactions, accounts, goroutines and bounds, with gas
costs or without. About the lock: `ImplementsLock` states that `TxPool`
implements `PriorityLock`: every step of an admission, the loop or an operator
is a step of the lock or leaves it alone (`StepsUseLock`). `PoolExclusion` and
`PoolHandover` carry the two results over, and `CommitFirst` adds that a loop
that waits is the head of the queue, by induction from `LockInv`: what is put in
front of it would have to be the loop a second time.

About accounts and mempool: `Inductive` (`Spec => []Inv`), and from it
`TypesKept`, `CacheIsCoherent` (`CacheCoherent`), `ChargesInOrder`
(`ChargedInOrder`), `TokensNeverMade` (`NoTokensCreated`) and `PoolInOrder`
(`PoolContinuesNonces`). `Inv` has six parts:

* `TypeOK`;
* `Places`: an admission between its call of `Store` and its `Unlock`, and a
  commit between its two halves, hold the lock (which is where `ImplementsLock`
  is used); a recheck is under way only when the pool is `stale`; no charge is
  left over when no block is executed;
* `StoreInv`: an account that is not `phantom` is `Fresh` (the block sees its
  update; or it has none, sees the committed row, and a record is the committed
  row) or, between the two commits, `Applied`; and its record is the committed
  row or absent unless it is `early`. Evictions keep this, since a read that
  follows finds the block's row only if the block has an update of the account;
* `ChargeInv`: the nonce of a row counts the charges of its account, in the
  committed rows and in those of the block;
* `TokenInv`: neither set of rows has more tokens than genesis;
* `PoolInv`: after the caches are dropped by a commit the unconfirmed accounts
  are committed rows; outside a commit the mempool, without the transaction that
  is being checked, is `InStep` with row and unconfirmed account of each sender.

None of the properties is inductive as it stands. `CacheCoherent` speaks of the
end of a block and needs what the block sees meanwhile; `ChargedInOrder` needs
that the row which `Spend` compares with counts the charges;
`PoolContinuesNonces` needs that the unconfirmed account counts the waiting
transactions and that their sender has funds, so that the screening of a
proposal drops none of them from the middle of the pool. The steps are sorted
into kinds (`StoreStep`: a step that only reads through the cache, the execution
of one transaction, the two commits, the end of a commit, a rollback; `Still`
for the mempool), and each part is shown for the kinds it depends on. The loops
over a block or the mempool are folds; `Sums` has what a fold over a sequence
does to every prefix of it, and sums over finite sets.

`CommitRecoveryProofs`, for chains of any length, either role, any number of
crashes, lost stores and restored dumps: `Inductive` (`Spec => []IInv`) and from
it `TypesKept`, `HashFollowsData` (`HashMatchesApp`), `ServesApplied`
(`ServesWhatItApplied`), `FollowerStarts` (`AlwaysStarts`), and
`CommitImplementsLedger`: a follower implements `Ledger`, where every step of
the commit and of the start appends one decided block, restores a dump, lets the
network decide, or stutters. `IInv` follows a block through the three stores:
`StoreInv` (the index names a stored block of each height), `CommitInv` (what is
being committed sits on the last commit and is what is prepared), `HistoryInv`
(without a rewritten height block store, database and app hash tell one
history), `FollowerInv` (a follower stores, intends and applies what its peers
have, but for a proposal it executed), `DurableInv` (while nothing is lost its
block store has no gap, and what it applied is synced). `HashMatchesApp` alone
is not inductive: a start takes the hash of a dirty database from the block
store, so the proof has to know what the store holds at that height. The
refinement needs `FollowerInv`: the block that `CommitPrepared` applies is the
next one of the peers only because the intent, the store and the replay each
took it from them.

`StateSyncProofs`, for any providers, snapshots, chunk counts and bounds, kills
and power losses: `SyncInvariant`, with `SyncInv` = `NodeTypes` and
`RestoreInv` (the marker is there from before `psql` until the anchor is
stored, and what an unmarked start accepts is whole), `DownloadInv` (temporary
files are of the current snapshot, and who is in the pool for a snapshot has
it), `FreshInv` (an anchor without a database needs a stop). From it
`RestoreIsAllOrNothing` (`AcceptedIsWhole`), `ResumeIsSafe`
(`ResumesSameSnapshot`) and `FreshStarts` (`FreshStartIsDeliberate`). Nothing is
assumed of the providers there. They have an invariant of their own,
`ProvidersInvariant`: what the directory holds in each job, in particular that a
deletion is under way only above the limit, so that a header left without its
chunks is among those the next start deletes. `OffersComplete`
(`ServesComplete`) follows from it; without the count it is false, since the
start registers such a header. `TypesKept` joins the two.

`OracleProofs`, for any finite set of nodes with any powers, any blocks with
logs and chunk size, and any number of faults: `OracleInvariant`
(`Spec => []Inv`), and from it `OracleTypes` (`TypeOK`), `LogsAreGivenInOrder`
(`GivenInOrder`), `PointsHaveHalfThePower` (`PointsWereObserved`),
`DecidedEventsAreDeleted` (`NoDecidedEventKept`), `VotesAreNotForgotten`
(`NoVoteForgotten`) and `EventStoreDoesNotHang` (`NoHangWithoutFaults`). `Inv`
has eleven parts:

* `PhaseInv`: the leader commits a block first, and only a leader loses one;
* `StoreInv`, `VoteInv`: an event store holds what its node observed, marks and
  deletions are of its rows, and nobody votes for what it did not observe;
* `ListenInv`: what a listener has still to store is every block with logs from
  the one at hand to the end of its range, and none lies before it, so that an event (`Good`) joins two blocks with logs
  that follow each other. This survives a listener that starts over from a
  height it has already passed, because the stored pair of heights is written in
  an order that never skips;
* `AppInv`: the application before and after the open block; a resolution has
  votes of observers only, the pending points are good, and the list given to
  the callback is all logs up to the last point in order. `Finalized` is the
  least continued set, so a set that leaves out a point shows the point is not
  in it: this replaces the induction along the recursive query;
* `KnownInv`: votes name resolutions that exist or have existed, so no vote
  transaction of a block fails;
* `DecidedInv`: where in the phases of a block a decided event may still be;
* `ForgetInv`: a marked vote is counted, on its way or lost, and a vote that is
  about to be marked is in the mempool;
* `FaultInv`: the list of faults is one;
* `FreshInv`, `OnceInv`: without faults a listener stores no event twice, and a
  row that a vote on its way names is marked, so that no second vote is made for
  what the block at hand deletes.

`GivenInOrder` and `PointsWereObserved` follow from `AppInv`, which needs
everything above it: order in the topic is decided by what each listener wrote
as the predecessor of its event, blocks earlier. `NoHangWithoutFaults` needs the
last two parts: the consensus transaction locks the rows it deletes, and a node
waits for itself only if its listener inserts such a row again or it marks one
of them as broadcasted.

`EngineProofs`, for any roles, users, namespaces, holders, validators and
powers, and any bounds: `Inductive` (`Spec => []IInv`) and from it `TypesKept`,
`ReloadDecidesAlike` (`LiveMatchesReload`) and `EpochsAdvanceInTurn`
(`EpochsInTurn`); `TokensKept` (`TokensConserved`) by a second induction over
the sums of `Sums`. `IInv` is `RowsInv` (the rows are of their types and the
epochs in turn), `MemInv` (unless memory and rows have come apart, memory is the
image of the rows but for what a resolution or the hook has still to write in
the current phase), `PhaseInv` and `RestInv`; `SignInv`, of the counters of the
signers and the mempools, is added on top of it for `TypesKept`. `LiveMatchesReload` is silent in
the middle of a resolution and of the hook, where memory and rows differ by
design, and `MemInv` says by what. Each statement of `Catalogue` and each method
of `Bridge` has a lemma: if memory is the image of the rows before it, it is
after it. For a grant this includes denials and the order in which the load
applies global and local rows. That two catalogues which agree decide alike is a
lemma too (`AgreesSame`, `ReloadDecides`): it takes each statement apart into the
checks it makes, and shows that an empty role list is seen by one of them only,
the one that `DecidesAlike` excepts.

The proofs use the named assumptions of the modules (`NodesAssumption`,
`BoundsAssumption`, `NilAssumption`, `NoRowAssumption`, `TxAssumption`,
`RecoveryAssumption`, `SnapshotAssumption`, `StateSyncAssumption`,
`CatalogueAssumption`, `BridgeAssumption`, `EngineAssumption`,
`PowerAssumption`, `OracleAssumption`): finite sets of
nodes, accounts and holders, natural amounts and bounds, nil values distinct
from everything else. TLC evaluates them in the runs.

Every safety invariant of a passing run is stated by a theorem. Only
model-checked are:

* everything under fairness (`Progress`, `CatchupEnds`, `Recovers`, `AllGiven`,
  `ComesUp`, `WithdrawalsConfirmed`): liveness is out of the prover's reach;
* the violations, which are counterexamples.

## 5. Plan

1. Migrations: activation, changesets by height, the replay on the new network.
2. Changes of the validator set in `Voting` and `Consensus`; the p2p proposal
   handler with its slots; a composition of `Consensus` and `CommitRecovery`
   for the leader that serves a block before it has committed it.

## 6. Not modelled

* The parser (generated by ANTLR), the logical planner, the SQL generator and
  the values of the interpreter, together about a third of the repository, are
  functions of one statement without state in between. Their correctness is
  about the meaning of SQL, which a model would have to restate in full; what
  matters to the rest is that they are deterministic. For the same reason the
  share of the repository's lines that the models cover stays well below a
  third: what is covered is the code that keeps state between two events.
* Tables and actions of the engine, and the cache of parsed statements.
* Encodings, signatures, hashing, Merkle trees, decimal arithmetic: identities
  and counts in the models.
* RPC services, command line, configuration, metrics: decode and forward; the
  admin calls that change consensus state are actions of `Consensus`.
* Peer discovery, gating and backoff: the models leave open who reaches whom.
* Custodial bridge instances and the stand-alone signer service.
* Migrations: next in the plan.

## 7. Running

    tlc -workers 2 -config MCConsensus_fixed.cfg MCConsensus
    tlc -workers 2 -config MCTxPool_txs.cfg MCTxPool
    tlc -workers 2 -config MCEngine_engine.cfg MCEngine
    tlapm ConsensusProofs.tla
    tlapm EngineProofs.tla

`engine` and `oracle` take about three minutes, `sync` and `progress` two, the
others less. The proofs of `ConsensusProofs` take about six minutes, those of
`TxPoolProofs` and `EngineProofs` about four, those of `OracleProofs` about two
and a half.
