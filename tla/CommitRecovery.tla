---------------------------- MODULE CommitRecovery ----------------------------
(***************************************************************************)
(* How one node commits a block to its three stores and how it finds its   *)
(* way back after a crash (consensus.commit, BlockProcessor.Commit,        *)
(* initializeState, replayFromBlockStore, doBlockSync):                    *)
(*   - the commit intent, a small file written with fsync and rename;      *)
(*   - the block store (badger), synced before the database is touched;    *)
(*   - the database (postgres), where a block is a prepared transaction    *)
(*     that writes the new height with the old app hash and a dirty flag,  *)
(*     and a second transaction writes the new app hash and clears it.     *)
(*                                                                         *)
(* A block is named by its whole chain: the sequence of choices from       *)
(* genesis up to it.  That is what a header hash identifies, and with a    *)
(* deterministic execution it is also what the app hash after the block    *)
(* identifies.                                                             *)
(***************************************************************************)
EXTENDS Naturals, Sequences, FiniteSets

CONSTANTS
  Versions,    \* the blocks that may be proposed on top of a chain
  Roles,       \* what the node may be: "leader", "follower"
  NoBlock,     \* nil
  MaxHeight,   \* bound: length of a chain
  MaxCrash,    \* bound: crashes
  MaxLoss,     \* bound: losses of the end of the block store
  MaxRestore   \* bound: restores of an older database

ASSUME RecoveryAssumption ==
  /\ Roles \subseteq {"leader", "follower"}
  /\ MaxHeight \in Nat /\ MaxCrash \in Nat
  /\ MaxLoss \in Nat /\ MaxRestore \in Nat
  /\ NoBlock \notin Seq(Versions)

Chain == Seq(Versions)

VARIABLES
  \* on disk
  intent,     \* the commit intent file
  store,      \* blocks in the block store
  unsynced,   \* those of them a power failure may take back
  db,         \* app: applied blocks, hash: recorded app hash, dirty: the flag
  prepared,   \* the block of the prepared transaction in postgres
  \* in memory
  pc,         \* what the node does
  phase,      \* replay from the store, sync with the network, or live
  lc,         \* state.lc: the last commit
  cur,        \* state.blkProp: the block being executed or committed
  index,      \* BlockStore.hashes: the block at each height
  \* outside
  role,       \* leader or follower
  peers,      \* the chain the peers hold
  rewritten,  \* history: the block store took a second block of a height
  used        \* how much of the bounds has been spent

disk == <<intent, store, unsynced, db, prepared>>
mem == <<pc, phase, lc, cur, index>>
outside == <<role, peers, rewritten, used>>
vars == <<disk, mem, outside>>

\* The places in commit where a crash leaves different things on disk.
Committing ==
  {"executed", "decided", "recorded", "stored", "synced", "dirty", "clean"}

Stopped == pc \in {"down", "failed"}

Init ==
  /\ intent = NoBlock /\ store = {} /\ unsynced = {}
  /\ db = [app |-> <<>>, hash |-> <<>>, dirty |-> FALSE]
  /\ prepared = NoBlock
  /\ pc = "idle" /\ phase = "live" /\ lc = <<>> /\ cur = NoBlock
  /\ index = <<>>
  /\ role \in Roles
  /\ peers = <<>>
  /\ rewritten = FALSE
  /\ used = [crash |-> 0, loss |-> 0, restore |-> 0]

Parent(b) == SubSeq(b, 1, Len(b) - 1)

Prefix(b, n) == SubSeq(b, 1, n)

Extends(c, b) == Len(b) <= Len(c) /\ Prefix(c, Len(b)) = b

\* Best().
Best(ix) == IF DOMAIN ix = {} THEN 0
            ELSE CHOOSE h \in DOMAIN ix : \A k \in DOMAIN ix : k <= h

\* index with block b at its height.
Indexed(ix, b) ==
  [h \in DOMAIN ix \cup {Len(b)} |-> IF h = Len(b) THEN b ELSE ix[h]]

\* NewBlockStore: the headers come in the order of their hashes, and the last
\* one of a height stays.
Indexes(s) ==
  LET heights == {Len(b) : b \in s}
  IN  {ix \in [heights -> s] : \A h \in heights : Len(ix[h]) = h}

-----------------------------------------------------------------------------
(* Executing and committing a block                                        *)

\* validateBlock and executeBlock, up to the prepared transaction, on the way to
\* place p.
Execute(b, p) ==
  /\ IF Parent(b) = lc /\ Parent(b) = db.hash
       THEN pc' = p /\ cur' = b /\ prepared' = b
       ELSE pc' = "failed" /\ UNCHANGED <<cur, prepared>>
  /\ UNCHANGED <<intent, store, unsynced, db, phase, lc, index, outside>>

\* A proposal, the node's own or the leader's.
ExecuteProposal(v) ==
  /\ pc = "idle" /\ phase = "live"
  /\ Execute(Append(lc, v), "executed")

\* Mutant of ExecuteDecided: an executed proposal is never given up.
DecidedOnlyWhenIdle ==
  /\ phase = "sync" \/ (phase = "live" /\ role = "follower")
  /\ Len(peers) > Len(lc)
  /\ pc = "idle"
  /\ Execute(Prefix(peers, Len(lc) + 1), "decided")

\* processAndCommit on the block after the last commit, fetched from a peer or
\* announced; another proposal at its height is rolled back first.
ExecuteDecided ==
  /\ phase = "sync" \/ (phase = "live" /\ role = "follower")
  /\ Len(peers) > Len(lc)
  /\ \/ pc = "idle"
     \/ pc = "executed" /\ ~Extends(peers, cur)
  /\ Execute(Prefix(peers, Len(lc) + 1), "decided")

\* replayFromBlockStore: the next block of the store.
ReplayBlock ==
  /\ pc = "idle" /\ phase = "replay"
  /\ Len(lc) + 1 \in DOMAIN index
  /\ Execute(index[Len(lc) + 1], "decided")

\* rollbackState: a reset, a cancellation or a newer proposal.
Rollback ==
  /\ pc = "executed" /\ phase = "live"
  /\ pc' = "idle" /\ cur' = NoBlock /\ prepared' = NoBlock
  /\ UNCHANGED <<intent, store, unsynced, db, phase, lc, index, outside>>

\* Mutant of RecordIntent: any announcement of the height commits the block.
CommitByHeight ==
  /\ \/ pc = "decided"
     \/ pc = "executed" /\ role = "leader" /\ Len(cur) <= MaxHeight
     \/ pc = "executed" /\ Len(peers) >= Len(cur)
  /\ intent' = cur
  /\ pc' = "recorded"
  /\ UNCHANGED <<store, unsynced, db, prepared, phase, lc, cur, index, outside>>

\* commit begins: the block is a decided one, the leader has a majority for its
\* proposal, or the executed proposal turns out to be the decided block.
RecordIntent ==
  /\ \/ pc = "decided"
     \/ pc = "executed" /\ role = "leader" /\ Len(cur) <= MaxHeight
     \/ pc = "executed" /\ Extends(peers, cur)
  /\ intent' = cur
  /\ pc' = "recorded"
  /\ UNCHANGED <<store, unsynced, db, prepared, phase, lc, cur, index, outside>>

\* blockStore.Store and StoreResults.
StoreBlock ==
  /\ pc = "recorded"
  /\ unsynced' = unsynced \cup ({cur} \ store)
  /\ store' = store \cup {cur}
  /\ index' = Indexed(index, cur)
  /\ pc' = "stored"
  /\ rewritten' = (rewritten \/ \E b \in store \ {cur} : Len(b) = Len(cur))
  /\ UNCHANGED <<intent, db, prepared, phase, lc, cur, role, peers, used>>

\* blockStore.Sync.
SyncStore ==
  /\ pc = "stored"
  /\ unsynced' = {}
  /\ pc' = "synced"
  /\ UNCHANGED <<intent, store, db, prepared, phase, lc, cur, index, outside>>

\* consensusTx.Commit: the block's effects and its height, the app hash before
\* it and the dirty flag become durable together.
CommitPrepared ==
  /\ pc = "synced"
  /\ db' = [app |-> Append(db.app, prepared[Len(prepared)]),
            hash |-> db.hash, dirty |-> TRUE]
  /\ prepared' = NoBlock
  /\ pc' = "dirty"
  /\ UNCHANGED <<intent, store, unsynced, phase, lc, cur, index, outside>>

\* The second transaction: the new app hash, and the flag goes.
SetChainState ==
  /\ pc = "dirty"
  /\ db' = [db EXCEPT !.hash = cur, !.dirty = FALSE]
  /\ pc' = "clean"
  /\ UNCHANGED <<intent, store, unsynced, prepared, phase, lc, cur, index>>
  /\ UNCHANGED outside

\* Mutant of FinishCommit: nextState without its resetState.
FinishWithoutReset ==
  /\ pc = "clean"
  /\ intent' = NoBlock
  /\ lc' = cur
  /\ pc' = "idle"
  /\ UNCHANGED <<store, unsynced, db, prepared, phase, cur, index, outside>>

\* The rest of commit: nextState, and the intent is cleared.
FinishCommit ==
  /\ pc = "clean"
  /\ intent' = NoBlock
  /\ lc' = cur /\ cur' = NoBlock
  /\ pc' = "idle"
  /\ UNCHANGED <<store, unsynced, db, prepared, phase, index, outside>>

\* A peer gets the next block from the leader, announced or asked for by
\* height: what the block store holds is served, applied or not.
ServeBlock ==
  /\ role = "leader"
  /\ pc \notin {"down", "failed", "opened"}
  /\ Len(peers) + 1 \in DOMAIN index
  /\ Parent(index[Len(peers) + 1]) = peers
  /\ peers' = index[Len(peers) + 1]
  /\ UNCHANGED <<disk, mem, role, rewritten, used>>

\* The others decide a block.
PeersDecide(v) ==
  /\ role = "follower"
  /\ Len(peers) < MaxHeight
  /\ peers' = Append(peers, v)
  /\ UNCHANGED <<disk, mem, role, rewritten, used>>

-----------------------------------------------------------------------------
(* Crashes, losses and the way back                                        *)

\* The process or the machine goes down, and with the machine some of the
\* writes nobody synced.
Crash ==
  /\ ~Stopped
  /\ used.crash < MaxCrash
  /\ \E lost \in SUBSET unsynced :
       store' = store \ lost /\ unsynced' = unsynced \ lost
  /\ pc' = "down" /\ phase' = "live" /\ lc' = <<>> /\ cur' = NoBlock
  /\ index' = <<>>
  /\ used' = [used EXCEPT !.crash = @ + 1]
  /\ UNCHANGED <<intent, db, prepared, role, peers, rewritten>>

\* The block store comes back from an older copy that ends at height h.
LoseStore(h) ==
  /\ pc = "down"
  /\ used.loss < MaxLoss
  /\ store' = {b \in store : Len(b) <= h}
  /\ unsynced' = unsynced \cap store'
  /\ used' = [used EXCEPT !.loss = @ + 1]
  /\ UNCHANGED <<intent, db, prepared, mem, role, peers, rewritten>>

\* The operator puts back a dump of the database, taken at height h.
RestoreDatabase(h) ==
  /\ pc = "down"
  /\ used.restore < MaxRestore
  /\ h < Len(db.app)
  /\ db' = [app |-> Prefix(db.app, h), hash |-> Prefix(db.app, h),
            dirty |-> FALSE]
  /\ prepared' = NoBlock
  /\ used' = [used EXCEPT !.restore = @ + 1]
  /\ UNCHANGED <<intent, store, unsynced, mem, role, peers, rewritten>>

\* NewBlockStore, and NewDB, which rolls back what was left prepared.
Open ==
  /\ Stopped
  /\ index' \in Indexes(store)
  /\ prepared' = NoBlock
  /\ pc' = "opened" /\ phase' = "live" /\ lc' = <<>> /\ cur' = NoBlock
  /\ UNCHANGED <<intent, store, unsynced, db, outside>>

Height == Len(db.app)

\* Mutant of NewBlockProcessor: the dirty flag is not looked at.
ProcessorSkipsDirty ==
  /\ pc = "opened"
  /\ pc' = "ready"
  /\ UNCHANGED <<disk, phase, lc, cur, index, outside>>

\* Mutant of NewBlockProcessor: the flag goes, the app hash stays.
ProcessorKeepsHash ==
  /\ pc = "opened"
  /\ db' = [db EXCEPT !.dirty = FALSE]
  /\ pc' = "ready"
  /\ UNCHANGED <<intent, store, unsynced, prepared, phase, lc, cur, index>>
  /\ UNCHANGED outside

\* NewBlockProcessor: a dirty state takes its app hash from the block store.
NewBlockProcessor ==
  /\ pc = "opened"
  /\ IF ~db.dirty THEN pc' = "ready" /\ UNCHANGED db
     ELSE IF Height \notin DOMAIN index THEN pc' = "failed" /\ UNCHANGED db
     ELSE /\ db' = [db EXCEPT !.hash = index[Height], !.dirty = FALSE]
          /\ pc' = "ready"
  /\ UNCHANGED <<intent, store, unsynced, prepared, phase, lc, cur, index>>
  /\ UNCHANGED outside

\* Mutant of Repairable: the block a peer has is not compared with the intent.
RepairWithAnyBlock ==
  /\ intent # NoBlock /\ Len(intent) = Height
  /\ Len(peers) >= Height

\* repairAppAheadOfStore: the intent names the block, a peer has it, and its
\* app hash is the recorded one.
Repairable ==
  /\ intent # NoBlock /\ Len(intent) = Height
  /\ Extends(peers, intent)
  /\ db.hash = intent

\* "This is not possible, PG mismatches with the Blockstore".
Mismatch == Height > 0 /\ Height = Best(index) /\ db.hash # index[Height]

\* initializeState on the store s with index ix.
Initialized(s, ix) ==
  /\ lc' = IF Height = 0 THEN <<>> ELSE ix[Height]
  /\ store' = s
  /\ index' = ix
  /\ intent' = IF intent # NoBlock /\ Len(intent) <= Best(ix)
                                   /\ Len(intent) <= Height
                 THEN NoBlock ELSE intent
  /\ phase' = IF Height + 1 < Best(ix) THEN "replay" ELSE "sync"
  /\ pc' = "idle"

\* initializeState, repairAppAheadOfStore, and the choice catchup makes:
\* replayFromBlockStore returns at once when only one block is missing.
InitializeState ==
  /\ pc = "ready"
  /\ LET block == Prefix(peers, Height) IN
     IF \/ db.dirty
        \/ Height > Best(index) /\ ~Repairable
        \/ Mismatch
        \/ Height \in 1..(Best(index) - 1) /\ Height \notin DOMAIN index
       THEN /\ pc' = "failed"
            /\ UNCHANGED <<intent, store, unsynced, phase, lc, index>>
     ELSE IF Height > Best(index)
       THEN /\ Initialized(store \cup {block}, Indexed(index, block))
            /\ unsynced' = {}
     ELSE /\ Initialized(store, index)
          /\ UNCHANGED unsynced
  /\ UNCHANGED <<db, prepared, cur, outside>>

\* replayFromBlockStore has no more blocks.
EndReplay ==
  /\ pc = "idle" /\ phase = "replay"
  /\ Len(lc) + 1 \notin DOMAIN index
  /\ phase' = "sync"
  /\ UNCHANGED <<disk, pc, lc, cur, index, outside>>

\* replayBlockFromNetwork: the peers it reaches do not have the next block, or
\* it leads and reaches none.
EndSync ==
  /\ pc = "idle" /\ phase = "sync"
  /\ phase' = "live"
  /\ UNCHANGED <<disk, pc, lc, cur, index, outside>>

-----------------------------------------------------------------------------

CommitStep ==
  \/ RecordIntent \/ StoreBlock \/ SyncStore \/ CommitPrepared
  \/ SetChainState \/ FinishCommit

StartStep ==
  \/ Open \/ NewBlockProcessor \/ InitializeState \/ ReplayBlock
  \/ EndReplay \/ EndSync

Next ==
  \/ CommitStep
  \/ StartStep
  \/ ExecuteDecided
  \/ Rollback
  \/ ServeBlock
  \/ Crash
  \/ \E v \in Versions : ExecuteProposal(v) \/ PeersDecide(v)
  \/ \E h \in 0..MaxHeight : LoseStore(h) \/ RestoreDatabase(h)

Spec == Init /\ [][Next]_vars

\* A started commit and a start of the node run to their end unless the node
\* crashes, the operator restarts it, and the node takes the blocks its peers
\* have (announcements, the catch-up ticker, block sync).
Fairness == WF_vars(CommitStep \/ ExecuteDecided) /\ WF_vars(StartStep)

FairSpec == Spec /\ Fairness

-----------------------------------------------------------------------------
(* Properties                                                              *)

\* Every variable keeps its shape; what is unsynced is in the block store, after
\* a loss too (BlockStore, chain state), and a node that is idle or starting
\* holds no proposal and nothing prepared in postgres, whether it got there by a
\* commit, a rollback or a crash (resetState, Rollback, NewDB).
TypeOK ==
  /\ intent \in Chain \cup {NoBlock}
  /\ store \subseteq Chain /\ unsynced \subseteq store
  /\ db \in [app : Chain, hash : Chain, dirty : BOOLEAN]
  /\ prepared \in Chain \cup {NoBlock}
  /\ pc \in {"idle", "down", "failed", "opened", "ready"} \cup Committing
  /\ phase \in {"replay", "sync", "live"}
  /\ lc \in Chain /\ cur \in Chain \cup {NoBlock}
  /\ pc \in {"idle", "opened", "ready"} => cur = NoBlock
  /\ pc \in {"idle", "opened", "ready", "dirty", "clean"} => prepared = NoBlock
  /\ role \in Roles /\ peers \in Chain
  /\ rewritten \in BOOLEAN
  /\ used \in [crash : Nat, loss : Nat, restore : Nat]

\* The app hash on record is the one of the data, except while the flag says
\* otherwise, wherever the node crashed and however often (SetChainState of
\* ExecuteBlock and Commit, the recovery in NewBlockProcessor).
HashMatchesApp == ~rewritten /\ ~db.dirty => db.hash = db.app

\* What a node serves at its height, and builds the next block on, is the block
\* it applied, after a repair of the block store too (repairAppAheadOfStore,
\* Store, NewBlockStore, setLastCommitInfo).
ServesWhatItApplied ==
  ~rewritten /\ pc = "idle" /\ Height > 0 =>
    Height \in DOMAIN index /\ index[Height] = db.app /\ lc = db.app

\* A follower whose disks lost nothing starts again, wherever it crashed: the
\* dirty flag is resolved, the stores agree, and the blocks replayed or fetched
\* fit (NewBlockProcessor, initializeState, replayFromBlockStore, doBlockSync).
AlwaysStarts == role = "follower" /\ used.loss = 0 => pc # "failed"

\* "This is not possible, PG mismatches with the Blockstore": at one height the
\* two stores hold one app hash, as long as no disk lost anything
\* (initializeState, after replayFromBlockStore of an earlier start).
MismatchNotPossible ==
  used.loss = 0 /\ used.restore = 0 /\ pc = "ready" => ~Mismatch

L == INSTANCE Ledger
       WITH decided <- IF role = "follower" THEN peers ELSE <<>>,
            ledger <- IF role = "follower" THEN db.app ELSE <<>>,
            restores <- used.restore

\* The database of a follower is the decided blocks, applied in order and each
\* of them once, through every crash, loss and recovery (the abstract Ledger).
ImplementsLedger == L!Spec

\* A follower whose disks lose nothing comes to hold every block the network
\* decides, wherever the crashes struck it.
Recovers ==
  [](role = "follower" /\ used.loss = 0) =>
    (Len(peers) = MaxHeight ~> Height = MaxHeight)
=============================================================================
