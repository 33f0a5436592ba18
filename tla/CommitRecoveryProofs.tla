-------------------------- MODULE CommitRecoveryProofs --------------------------
(***************************************************************************)
(* Proofs about CommitRecovery, for chains of any length, any number of    *)
(* crashes, losses and restores, and any role of the node.  The inductive  *)
(* invariant follows a block through the three stores:                     *)
(*   - the index of the block store is an index of what the store holds;   *)
(*   - what is executed sits on top of what is applied, and until the      *)
(*     commit it is exactly what postgres holds prepared;                  *)
(*   - unless a height was rewritten, the block store agrees with the      *)
(*     database up to the height of the database;                          *)
(*   - what a follower stores, intends or applies is what its peers hold;  *)
(*   - while no disk lost anything, a follower's block store has every     *)
(*     block below one it has, and the applied block is synced.            *)
(***************************************************************************)
EXTENDS CommitRecovery, SequenceTheorems, WellFoundedInduction, TLAPS

\* Places where the block being committed is in postgres only as prepared.
BeforeCommit == {"executed", "decided", "recorded", "stored", "synced"}

\* Places where the node's last commit is what its database holds.
Settled == {"idle"} \cup BeforeCommit

Heights(s) == {Len(b) : b \in s}

\* ix is what a start could read from the block store s.
IsIndexOf(ix, s) ==
  /\ DOMAIN ix = Heights(s)
  /\ \A h \in DOMAIN ix : ix[h] \in s /\ Len(ix[h]) = h

\* The block store holds blocks, of bounded heights, and the index names one of
\* each height.
StoreInv ==
  /\ \A b \in store : Len(b) > 0
  /\ \E n \in Nat : \A b \in store : Len(b) <= n
  /\ IF pc = "down" THEN index = <<>> ELSE IsIndexOf(index, store)

\* What is being committed sits on the last commit, and is what is prepared.
CommitInv ==
  /\ pc \in Committing => cur \in Chain /\ Len(cur) > 0
  /\ pc \in BeforeCommit => prepared = cur /\ Parent(cur) = lc /\ lc = db.hash
  /\ pc \in {"stored", "synced", "dirty", "clean"} => cur \in store
  /\ pc = "synced" => unsynced = {}
  /\ db.dirty => Height > 0 /\ pc \in {"dirty", "down", "failed", "opened"}

\* Without a rewritten height the three stores tell one history.
HistoryInv ==
  ~rewritten =>
    /\ \A b, c \in store : Len(b) = Len(c) => b = c
    /\ \A b \in store : Len(b) <= Height => b = Prefix(db.app, Len(b))
    /\ ~db.dirty => db.hash = db.app
    /\ pc \in {"dirty", "clean"} => db.app = cur
    /\ pc \in Settled => lc = db.app /\ (Height > 0 => db.app \in store)

\* A follower has nothing its peers do not have, but a proposal it executed.
FollowerInv ==
  role = "follower" =>
    /\ ~rewritten
    /\ Extends(peers, db.app)
    /\ \A b \in store : Extends(peers, b)
    /\ intent # NoBlock => Extends(peers, intent)
    /\ pc \in Committing \ {"executed"} => Extends(peers, cur)

\* While no disk lost anything, a crash can take nothing a follower applied and
\* can leave no gap in its block store.
DurableInv ==
  role = "follower" /\ used.loss = 0 =>
    /\ pc # "failed"
    /\ Height > 0 => db.app \in store
    /\ \A b \in store : \A n \in 1 .. Len(b) : Prefix(b, n) \in store
    /\ \A b \in unsynced : Len(b) > Height /\ \A c \in store : Len(c) <= Len(b)

IInv ==
  /\ TypeOK /\ StoreInv /\ CommitInv /\ HistoryInv /\ FollowerInv /\ DurableInv

-----------------------------------------------------------------------------
(* Chains                                                                  *)

\* The beginning of a chain.
LEMMA PrefixFacts ==
  ASSUME NEW b \in Chain, NEW n \in 0 .. Len(b)
  PROVE  /\ Prefix(b, n) \in Chain
         /\ Len(Prefix(b, n)) = n
         /\ \A i \in 1 .. n : Prefix(b, n)[i] = b[i]
<1>1. Len(b) \in Nat /\ \A i \in 1 .. Len(b) : b[i] \in Versions
  BY DEF Chain
<1>2. \A i \in 1 .. n : b[i] \in Versions
  BY <1>1
<1>3. /\ SubSeq(b, 1, n) \in Seq(Versions)
      /\ Len(SubSeq(b, 1, n)) = IF 1 <= n THEN n - 1 + 1 ELSE 0
      /\ \A i \in 1 .. n - 1 + 1 : SubSeq(b, 1, n)[i] = b[1 + i - 1]
  BY <1>2, SubSeqProperties
<1>4. QED
  BY <1>1, <1>3 DEF Prefix, Chain

\* A chain is its own longest beginning, and all have the empty one.
LEMMA PrefixEnds ==
  ASSUME NEW b \in Chain
  PROVE  Prefix(b, Len(b)) = b /\ Prefix(b, 0) = <<>>
BY SubSeqFull, SubSeqEmpty DEF Prefix, Chain

\* Chains of one length with the same blocks are the same.
LEMMA ChainEqual ==
  ASSUME NEW b \in Chain, NEW c \in Chain, Len(b) = Len(c),
         \A i \in 1 .. Len(b) : b[i] = c[i]
  PROVE  b = c
BY SeqEqual DEF Chain

\* The beginning of a beginning.
LEMMA PrefixOfPrefix ==
  ASSUME NEW b \in Chain, NEW n \in 0 .. Len(b), NEW m \in 0 .. n
  PROVE  Prefix(Prefix(b, n), m) = Prefix(b, m)
<1>1. Len(b) \in Nat
  BY DEF Chain
<1>2. Prefix(b, n) \in Chain /\ Len(Prefix(b, n)) = n /\ \A i \in 1 .. n : Prefix(b, n)[i] = b[i]
  BY PrefixFacts
<1>3. m \in 0 .. Len(b) /\ m \in 0 .. Len(Prefix(b, n))
  BY <1>1, <1>2
<1>4. /\ Prefix(b, m) \in Chain /\ Len(Prefix(b, m)) = m
      /\ \A i \in 1 .. m : Prefix(b, m)[i] = b[i]
  BY <1>3, PrefixFacts
<1>5. /\ Prefix(Prefix(b, n), m) \in Chain /\ Len(Prefix(Prefix(b, n), m)) = m
      /\ \A i \in 1 .. m : Prefix(Prefix(b, n), m)[i] = Prefix(b, n)[i]
  BY <1>2, <1>3, PrefixFacts
<1>6. \A i \in 1 .. m : i \in 1 .. n
  BY <1>1
<1>7. QED
  BY <1>2, <1>4, <1>5, <1>6, ChainEqual

\* A chain and one more block.
LEMMA AppendFacts ==
  ASSUME NEW b \in Chain, NEW v \in Versions
  PROVE  /\ Append(b, v) \in Chain
         /\ Len(Append(b, v)) = Len(b) + 1
         /\ Append(b, v)[Len(b) + 1] = v
         /\ \A n \in 0 .. Len(b) : Prefix(Append(b, v), n) = Prefix(b, n)
<1>1. /\ Append(b, v) \in Chain
      /\ Len(Append(b, v)) = Len(b) + 1
      /\ \A i \in 1 .. Len(b) : Append(b, v)[i] = b[i]
      /\ Append(b, v)[Len(b) + 1] = v
      /\ Len(b) \in Nat
  BY AppendProperties DEF Chain
<1>2. ASSUME NEW n \in 0 .. Len(b) PROVE Prefix(Append(b, v), n) = Prefix(b, n)
  <2>1. n \in 0 .. Len(Append(b, v))
    BY <1>1
  <2>2. /\ Prefix(Append(b, v), n) \in Chain /\ Len(Prefix(Append(b, v), n)) = n
        /\ \A i \in 1 .. n : Prefix(Append(b, v), n)[i] = Append(b, v)[i]
    BY <1>1, <2>1, PrefixFacts
  <2>3. /\ Prefix(b, n) \in Chain /\ Len(Prefix(b, n)) = n
        /\ \A i \in 1 .. n : Prefix(b, n)[i] = b[i]
    BY PrefixFacts
  <2>4. \A i \in 1 .. n : i \in 1 .. Len(b)
    BY <1>1
  <2>5. QED
    BY <1>1, <2>2, <2>3, <2>4, ChainEqual
<1>3. QED
  BY <1>1, <1>2

\* A block is its parent and one more.
LEMMA ParentFacts ==
  ASSUME NEW b \in Chain, Len(b) > 0
  PROVE  /\ Parent(b) = Prefix(b, Len(b) - 1)
         /\ Parent(b) \in Chain
         /\ Len(Parent(b)) = Len(b) - 1
         /\ b[Len(b)] \in Versions
         /\ Append(Parent(b), b[Len(b)]) = b
<1>1. Len(b) \in Nat /\ b[Len(b)] \in Versions
  BY DEF Chain
<1>2. Parent(b) = Prefix(b, Len(b) - 1) /\ Len(b) - 1 \in 0 .. Len(b)
  BY <1>1 DEF Parent, Prefix
<1>3. /\ Parent(b) \in Chain /\ Len(Parent(b)) = Len(b) - 1
      /\ \A i \in 1 .. Len(b) - 1 : Parent(b)[i] = b[i]
  BY <1>2, PrefixFacts
<1> DEFINE a == Append(Parent(b), b[Len(b)])
<1>4. /\ a \in Chain /\ Len(a) = Len(b)
      /\ \A i \in 1 .. Len(b) - 1 : a[i] = b[i]
      /\ a[Len(b)] = b[Len(b)]
  BY <1>1, <1>3, AppendProperties DEF Chain
<1>5. \A i \in 1 .. Len(b) : i \in 1 .. Len(b) - 1 \/ i = Len(b)
  BY <1>1
<1>6. a = b
  BY <1>4, <1>5, ChainEqual
<1>7. QED
  BY <1>1, <1>2, <1>3, <1>6

\* What a chain extends: its beginnings, and so do the chains that extend it.
LEMMA ExtendsFacts ==
  ASSUME NEW c \in Chain
  PROVE  /\ \A n \in 0 .. Len(c) : Extends(c, Prefix(c, n))
         /\ \A b \in Chain : Extends(c, b) =>
              /\ Len(b) \in 0 .. Len(c)
              /\ b = Prefix(c, Len(b))
              /\ \A n \in 0 .. Len(b) : Prefix(b, n) = Prefix(c, n) /\ Extends(c, Prefix(b, n))
         /\ \A b \in Chain, v \in Versions : Extends(c, b) => Extends(Append(c, v), b)
<1>1. Len(c) \in Nat /\ \A b \in Chain : Len(b) \in Nat
  BY DEF Chain
<1>2. ASSUME NEW n \in 0 .. Len(c) PROVE Extends(c, Prefix(c, n))
  BY <1>1, PrefixFacts DEF Extends
<1>3. ASSUME NEW b \in Chain, Extends(c, b)
      PROVE  /\ Len(b) \in 0 .. Len(c) /\ b = Prefix(c, Len(b))
             /\ \A n \in 0 .. Len(b) : Prefix(b, n) = Prefix(c, n) /\ Extends(c, Prefix(b, n))
  <2>1. Len(b) \in 0 .. Len(c) /\ b = Prefix(c, Len(b))
    BY <1>1, <1>3 DEF Extends
  <2>2. ASSUME NEW n \in 0 .. Len(b) PROVE Prefix(b, n) = Prefix(c, n) /\ Extends(c, Prefix(b, n))
    <3>1. Prefix(b, n) = Prefix(c, n)
      BY <2>1, PrefixOfPrefix
    <3>2. n \in 0 .. Len(c)
      BY <1>1, <2>1
    <3>3. QED
      BY <1>2, <3>1, <3>2
  <2>3. QED
    BY <2>1, <2>2
<1>4. ASSUME NEW b \in Chain, NEW v \in Versions, Extends(c, b) PROVE Extends(Append(c, v), b)
  <2>1. Len(b) \in 0 .. Len(c) /\ b = Prefix(c, Len(b))
    BY <1>3, <1>4
  <2>2. Prefix(Append(c, v), Len(b)) = b /\ Len(Append(c, v)) = Len(c) + 1
    BY <2>1, AppendFacts
  <2>3. QED
    BY <1>1, <2>1, <2>2 DEF Extends
<1>5. QED
  BY <1>2, <1>3, <1>4

-----------------------------------------------------------------------------
(* The index                                                               *)

\* A bounded set of heights has a highest one.
LEMMA HighestExists ==
  ASSUME NEW S \in SUBSET Nat, S # {}, NEW n \in Nat, \A h \in S : h <= n
  PROVE  \E h \in S : \A k \in S : k <= h
<1> DEFINE T == {m \in Nat : n - m \in S}
<1>1. T \subseteq Nat /\ T # {}
  <2>1. PICK h \in S : TRUE
    OBVIOUS
  <2>2. n - h \in Nat /\ n - (n - h) = h
    OBVIOUS
  <2>3. n - h \in T
    BY <2>1, <2>2
  <2>4. QED
    BY <2>3
<1>2. IsWellFoundedOn(OpToRel(<, Nat), Nat)
  BY NatLessThanWellFounded, Zenon
<1>3. PICK x \in T : \A y \in T : <<y, x>> \notin OpToRel(<, Nat)
  BY <1>1, <1>2, WFMin, Zenon
<1>4. \A y \in T : ~(y < x)
  BY <1>1, <1>3 DEF OpToRel
<1>5. ASSUME NEW k \in S PROVE k <= n - x
  <2>1. n - k \in Nat /\ n - (n - k) = k /\ x \in Nat
    BY <1>1
  <2>2. n - k \in T
    BY <2>1
  <2>3. ~(n - k < x)
    BY <1>4, <2>2
  <2>4. QED
    BY <2>1, <2>3
<1>6. QED
  BY <1>1, <1>5

\* Best is the highest height of the index.
LEMMA BestFacts ==
  ASSUME TypeOK, StoreInv, pc # "down"
  PROVE  /\ Best(index) \in Nat
         /\ \A h \in DOMAIN index : h <= Best(index)
         /\ Best(index) > 0 => Best(index) \in DOMAIN index
         /\ \A h \in DOMAIN index : h \in Nat /\ h > 0
<1>1. \A b \in store : Len(b) \in Nat /\ Len(b) > 0
  BY DEF TypeOK, StoreInv, Chain
<1>2. DOMAIN index = Heights(store)
  BY DEF StoreInv, IsIndexOf
<1>3. \A h \in DOMAIN index : h \in Nat /\ h > 0
  BY <1>1, <1>2 DEF Heights
<1>4. CASE DOMAIN index = {}
  BY <1>4 DEF Best
<1>5. CASE DOMAIN index # {}
  <2>1. PICK n \in Nat : \A b \in store : Len(b) <= n
    BY DEF StoreInv
  <2>2. \A h \in DOMAIN index : h <= n
    BY <1>2, <2>1 DEF Heights
  <2>3. DOMAIN index \in SUBSET Nat
    BY <1>3
  <2>4. \E h \in DOMAIN index : \A k \in DOMAIN index : k <= h
    BY <1>5, <2>2, <2>3, HighestExists
  <2>5. Best(index) \in DOMAIN index /\ \A k \in DOMAIN index : k <= Best(index)
    BY <1>5, <2>4 DEF Best
  <2>6. QED
    BY <1>3, <2>5
<1>6. QED
  BY <1>4, <1>5

-----------------------------------------------------------------------------
(* The steps                                                               *)

\* A step that executes block b on the way to place p.
Takes(b, p) ==
  /\ pc \in {"idle", "executed"}
  /\ p \in {"executed", "decided"}
  /\ b \in Chain /\ Len(b) = Len(lc) + 1
  /\ role = "follower" => Parent(b) = lc
  /\ role = "follower" /\ p = "decided" => Extends(peers, b)
  /\ Execute(b, p)

\* A follower that has settled built its last commit from its peers' chain.
LEMMA FollowerSettled ==
  ASSUME IInv, role = "follower", pc \in Settled
  PROVE  lc = db.app /\ Extends(peers, lc)
BY DEF IInv, FollowerInv, HistoryInv

\* A proposal, a decided block and a replayed block all fit on the last commit.
LEMMA ExecuteTakes ==
  ASSUME IInv,
         (\E v \in Versions : ExecuteProposal(v)) \/ ExecuteDecided \/ ReplayBlock
  PROVE  \E b, p : Takes(b, p)
<1>1. lc \in Chain /\ peers \in Chain /\ Len(lc) \in Nat /\ Len(peers) \in Nat
  BY DEF IInv, TypeOK, Chain
<1>2. ASSUME NEW v \in Versions, ExecuteProposal(v) PROVE Takes(Append(lc, v), "executed")
  <2>1. Append(lc, v) \in Chain /\ Len(Append(lc, v)) = Len(lc) + 1
    BY <1>1, AppendFacts
  <2>2. Parent(Append(lc, v)) = Prefix(Append(lc, v), Len(lc))
    BY <1>1, <2>1 DEF Parent, Prefix
  <2>3. Parent(Append(lc, v)) = lc
    BY <1>1, <2>2, AppendFacts, PrefixEnds
  <2>4. QED
    BY <1>2, <2>1, <2>3 DEF ExecuteProposal, Takes
<1>3. CASE ExecuteDecided
  <2> DEFINE b == Prefix(peers, Len(lc) + 1)
  <2>1. Len(lc) + 1 \in 0 .. Len(peers)
    BY <1>1, <1>3 DEF ExecuteDecided
  <2>2. b \in Chain /\ Len(b) = Len(lc) + 1 /\ Extends(peers, b)
    BY <1>1, <2>1, PrefixFacts, ExtendsFacts
  <2>3. ASSUME role = "follower" PROVE Parent(b) = lc
    <3>1. Extends(peers, lc)
      BY <1>3, <2>3, FollowerSettled DEF ExecuteDecided, Settled, BeforeCommit
    <3>2. lc = Prefix(peers, Len(lc))
      BY <1>1, <3>1, ExtendsFacts
    <3>3. Parent(b) = Prefix(b, Len(lc))
      BY <1>1, <2>2, ParentFacts
    <3>4. Prefix(b, Len(lc)) = Prefix(peers, Len(lc))
      BY <1>1, <2>1, PrefixOfPrefix
    <3>5. QED
      BY <3>2, <3>3, <3>4
  <2>4. pc \in {"idle", "executed"} /\ Execute(b, "decided")
    BY <1>3 DEF ExecuteDecided
  <2>5. Takes(b, "decided")
    BY <2>2, <2>3, <2>4 DEF Takes
  <2>6. QED
    BY <2>5
<1>4. CASE ReplayBlock
  <2> DEFINE b == index[Len(lc) + 1]
  <2>1. pc = "idle" /\ Len(lc) + 1 \in DOMAIN index /\ Execute(b, "decided")
    BY <1>4 DEF ReplayBlock
  <2>2. b \in store /\ Len(b) = Len(lc) + 1
    BY <2>1 DEF IInv, StoreInv, IsIndexOf
  <2>3. b \in Chain
    BY <2>2 DEF IInv, TypeOK
  <2>4. ASSUME role = "follower" PROVE Parent(b) = lc /\ Extends(peers, b)
    <3>1. Extends(peers, lc) /\ Extends(peers, b)
      BY <2>1, <2>2, <2>4, FollowerSettled DEF Settled, IInv, FollowerInv
    <3>2. lc = Prefix(peers, Len(lc))
      BY <1>1, <3>1, ExtendsFacts
    <3>3. Parent(b) = Prefix(b, Len(lc))
      BY <1>1, <2>2, <2>3, ParentFacts
    <3>4. Len(lc) \in 0 .. Len(b)
      BY <1>1, <2>2
    <3>5. Prefix(b, Len(lc)) = Prefix(peers, Len(lc))
      BY <1>1, <2>3, <3>1, <3>4, ExtendsFacts
    <3>6. QED
      BY <3>1, <3>2, <3>3, <3>5
  <2>5. Takes(b, "decided")
    BY <2>1, <2>2, <2>3, <2>4 DEF Takes
  <2>6. QED
    BY <2>5
<1>5. QED
  BY <1>2, <1>3, <1>4

\* Every step is one of these.
LEMMA NextSplit ==
  ASSUME IInv, [Next]_vars
  PROVE  \/ UNCHANGED vars
         \/ \E b, p : Takes(b, p)
         \/ RecordIntent
         \/ StoreBlock
         \/ SyncStore
         \/ CommitPrepared
         \/ SetChainState
         \/ FinishCommit
         \/ Open
         \/ NewBlockProcessor
         \/ InitializeState
         \/ EndReplay
         \/ EndSync
         \/ Rollback
         \/ ServeBlock
         \/ Crash
         \/ \E v \in Versions : PeersDecide(v)
         \/ \E h \in 0 .. MaxHeight : LoseStore(h)
         \/ \E h \in 0 .. MaxHeight : RestoreDatabase(h)
<1>1. CASE UNCHANGED vars
  BY <1>1
<1>2. CASE Next
  BY <1>2, ExecuteTakes DEF Next, CommitStep, StartStep
<1>3. QED
  BY <1>1, <1>2

\* The block a start repairs the block store with is the applied one.
LEMMA Repairs ==
  ASSUME IInv, pc = "ready", Repairable
  PROVE  /\ Prefix(peers, Height) = intent
         /\ Prefix(peers, Height) = db.hash
         /\ Prefix(peers, Height) \in Chain
         /\ Len(Prefix(peers, Height)) = Height
         /\ Extends(peers, Prefix(peers, Height))
<1>1. intent \in Chain /\ peers \in Chain /\ Len(intent) = Height /\ Extends(peers, intent)
      /\ db.hash = intent
  BY DEF IInv, TypeOK, Repairable
<1>2. intent = Prefix(peers, Height)
  BY <1>1, ExtendsFacts
<1>3. QED
  BY <1>1, <1>2

\* A start that goes on kept the block store, or added the applied block above
\* all it holds.
LEMMA InitializeCases ==
  ASSUME IInv, InitializeState
  PROVE  \/ /\ pc' = "failed"
            /\ \/ Height > Best(index) /\ ~Repairable
               \/ Mismatch
               \/ Height \in 1 .. (Best(index) - 1) /\ Height \notin DOMAIN index
            /\ UNCHANGED <<intent, store, unsynced, phase, lc, index>>
         \/ /\ Height > Best(index) /\ Repairable
            /\ Initialized(store \cup {db.hash}, Indexed(index, db.hash))
            /\ unsynced' = {}
         \/ /\ Height <= Best(index) /\ ~Mismatch
            /\ Height > 0 => Height \in DOMAIN index
            /\ Initialized(store, index)
            /\ UNCHANGED unsynced
<1>1. pc = "ready" /\ ~db.dirty
  BY DEF InitializeState, IInv, CommitInv
<1>2. Height \in Nat /\ Best(index) \in Nat
  BY <1>1, BestFacts DEF IInv, TypeOK, Chain, Height
<1>3. Repairable => Prefix(peers, Height) = db.hash
  BY <1>1, Repairs
<1>4. Height <= Best(index) /\ Height > 0 /\ ~(Height \in 1 .. (Best(index) - 1) /\ Height \notin DOMAIN index)
        => Height \in DOMAIN index
  BY <1>1, <1>2, BestFacts DEF IInv
<1>5. QED
  BY <1>1, <1>2, <1>3, <1>4 DEF InitializeState

\* Every step keeps the types.
LEMMA TypesStep ==
  IInv /\ [Next]_vars => TypeOK'
<1> SUFFICES ASSUME IInv, [Next]_vars PROVE TypeOK'
  OBVIOUS
<1>0. TypeOK
  BY DEF IInv
<1> USE DEF TypeOK, Committing
<1>1. CASE UNCHANGED vars
  BY <1>0, <1>1 DEF vars, disk, mem, outside
<1>2. ASSUME NEW b, NEW p, Takes(b, p) PROVE TypeOK'
  BY <1>0, <1>2 DEF Takes, Execute, outside
<1>3. CASE RecordIntent
  BY <1>0, <1>3 DEF RecordIntent, outside
<1>4. CASE StoreBlock
  <2>1. cur \in Chain
    BY <1>4 DEF StoreBlock, IInv, CommitInv
  <2>2. QED
    BY <1>0, <1>4, <2>1 DEF StoreBlock
<1>5. CASE SyncStore
  BY <1>0, <1>5 DEF SyncStore, outside
<1>6. CASE CommitPrepared
  <2>1. prepared = cur /\ cur \in Chain /\ Len(cur) > 0
    BY <1>6 DEF CommitPrepared, IInv, CommitInv, BeforeCommit
  <2>2. prepared[Len(prepared)] \in Versions
    BY <2>1, ParentFacts
  <2>3. Append(db.app, prepared[Len(prepared)]) \in Chain
    BY <1>0, <2>2, AppendFacts
  <2>4. QED
    BY <1>0, <1>6, <2>3 DEF CommitPrepared, outside
<1>7. CASE SetChainState
  <2>1. cur \in Chain
    BY <1>7 DEF SetChainState, IInv, CommitInv
  <2>2. QED
    BY <1>0, <1>7, <2>1 DEF SetChainState, outside
<1>8. CASE FinishCommit
  <2>1. cur \in Chain
    BY <1>8 DEF FinishCommit, IInv, CommitInv
  <2>2. QED
    BY <1>0, <1>8, <2>1 DEF FinishCommit, outside
<1>9. CASE Open
  <2>1. <<>> \in Chain
    BY DEF Chain
  <2>2. QED
    BY <1>0, <1>9, <2>1 DEF Open, outside
<1>10. CASE NewBlockProcessor
  <2>1. \A h \in DOMAIN index : index[h] \in Chain
    BY <1>0, <1>10 DEF NewBlockProcessor, IInv, StoreInv, IsIndexOf
  <2>2. QED
    BY <1>0, <1>10, <2>1 DEF NewBlockProcessor, outside
<1>11. CASE InitializeState
  <2>1. \A h \in DOMAIN index : index[h] \in Chain
    BY <1>0, <1>11 DEF InitializeState, IInv, StoreInv, IsIndexOf
  <2>2. <<>> \in Chain
    BY DEF Chain
  <2>3. /\ UNCHANGED <<db, prepared, cur, role, peers, rewritten, used>>
        /\ cur = NoBlock /\ prepared = NoBlock
    BY <1>0, <1>11 DEF InitializeState, outside
  <2>4. Repairable => Len(db.hash) = Height
    BY <1>11, Repairs DEF InitializeState
  <2>5. Repairable => Indexed(index, db.hash)[Height] \in Chain
    BY <1>0, <2>4 DEF Indexed
  <2>6. CASE pc' = "failed" /\ UNCHANGED <<intent, store, unsynced, phase, lc, index>>
    BY <1>0, <2>3, <2>6
  <2>7. CASE /\ Repairable /\ unsynced' = {}
             /\ Initialized(store \cup {db.hash}, Indexed(index, db.hash))
    BY <1>0, <2>2, <2>3, <2>5, <2>7 DEF Initialized
  <2>8. CASE /\ Height > 0 => Height \in DOMAIN index
             /\ Initialized(store, index) /\ UNCHANGED unsynced
    <3>1. Height # 0 => index[Height] \in Chain
      BY <1>0, <2>1, <2>8 DEF Chain, Height
    <3>2. QED
      BY <1>0, <2>2, <2>3, <2>8, <3>1 DEF Initialized
  <2>9. QED
    BY <1>11, <2>6, <2>7, <2>8, InitializeCases
<1>12. CASE EndReplay
  BY <1>0, <1>12 DEF EndReplay, disk, outside
<1>13. CASE EndSync
  BY <1>0, <1>13 DEF EndSync, disk, outside
<1>14. CASE Rollback
  BY <1>0, <1>14 DEF Rollback, outside
<1>15. CASE ServeBlock
  <2>1. \A h \in DOMAIN index : index[h] \in Chain
    BY <1>0, <1>15 DEF ServeBlock, IInv, StoreInv, IsIndexOf
  <2>2. QED
    BY <1>0, <1>15, <2>1 DEF ServeBlock, disk, mem
<1>16. CASE Crash
  <2>1. <<>> \in Chain
    BY DEF Chain
  <2>2. QED
    BY <1>0, <1>16, <2>1 DEF Crash
<1>17. ASSUME NEW v \in Versions, PeersDecide(v) PROVE TypeOK'
  BY <1>0, <1>17, AppendFacts DEF PeersDecide, disk, mem
<1>18. ASSUME NEW h \in 0 .. MaxHeight, LoseStore(h) PROVE TypeOK'
  BY <1>0, <1>18 DEF LoseStore, mem
<1>19. ASSUME NEW h \in 0 .. MaxHeight, RestoreDatabase(h) PROVE TypeOK'
  <2>1. h \in 0 .. Len(db.app)
    BY <1>0, <1>19, RecoveryAssumption DEF RestoreDatabase, Chain
  <2>2. Prefix(db.app, h) \in Chain
    BY <1>0, <2>1, PrefixFacts
  <2>3. QED
    BY <1>0, <1>19, <2>2 DEF RestoreDatabase, mem
<1>20. QED
  BY <1>1, <1>2, <1>3, <1>4, <1>5, <1>6, <1>7, <1>8, <1>9, <1>10, <1>11, <1>12, <1>13,
     <1>14, <1>15, <1>16, <1>17, <1>18, <1>19, NextSplit

\* The index with one more block is an index of the store with that block.
LEMMA IndexedFacts ==
  ASSUME NEW s \in SUBSET Chain, NEW ix, IsIndexOf(ix, s), NEW b \in Chain
  PROVE  IsIndexOf(Indexed(ix, b), s \cup {b}) /\ Indexed(ix, b)[Len(b)] = b
<1>1. DOMAIN Indexed(ix, b) = Heights(s) \cup {Len(b)}
  BY DEF Indexed, IsIndexOf
<1>2. Heights(s \cup {b}) = Heights(s) \cup {Len(b)}
  BY DEF Heights
<1>3. ASSUME NEW h \in DOMAIN Indexed(ix, b)
      PROVE  Indexed(ix, b)[h] \in s \cup {b} /\ Len(Indexed(ix, b)[h]) = h
  BY <1>1, <1>3 DEF Indexed, IsIndexOf
<1>4. QED
  BY <1>1, <1>2, <1>3 DEF Indexed, IsIndexOf

\* Every step keeps the index in line with the store.
LEMMA StoreStep ==
  IInv /\ [Next]_vars => StoreInv'
<1> SUFFICES ASSUME IInv, [Next]_vars PROVE StoreInv'
  OBVIOUS
<1>0. StoreInv /\ TypeOK
  BY DEF IInv
<1>a. ASSUME UNCHANGED <<store, index>>, pc # "down", pc' # "down" PROVE StoreInv'
  BY <1>0, <1>a DEF StoreInv, IsIndexOf, Heights
<1>b. ASSUME NEW b \in Chain, Len(b) > 0, store' = store \cup {b}, index' = Indexed(index, b),
             pc # "down", pc' # "down"
      PROVE  StoreInv'
  <2>1. PICK n \in Nat : \A c \in store : Len(c) <= n
    BY <1>0 DEF StoreInv
  <2>2. Len(b) \in Nat /\ \A c \in store : Len(c) \in Nat
    BY <1>0 DEF TypeOK, Chain
  <2>3. \A c \in store' : Len(c) <= n + Len(b)
    BY <1>b, <2>1, <2>2
  <2>4. n + Len(b) \in Nat
    BY <2>2
  <2>5. IsIndexOf(index', store')
    BY <1>0, <1>b, IndexedFacts DEF StoreInv, TypeOK
  <2>6. \A c \in store' : Len(c) > 0
    BY <1>0, <1>b DEF StoreInv
  <2>7. QED
    BY <1>b, <2>3, <2>4, <2>5, <2>6 DEF StoreInv
<1>c. ASSUME store' \subseteq store, index' = <<>>, pc' = "down" PROVE StoreInv'
  <2>1. PICK n \in Nat : \A c \in store : Len(c) <= n
    BY <1>0 DEF StoreInv
  <2>2. \A c \in store' : Len(c) <= n /\ Len(c) > 0
    BY <1>0, <1>c, <2>1 DEF StoreInv
  <2>3. QED
    BY <1>c, <2>2 DEF StoreInv
<1>1. CASE UNCHANGED vars
  BY <1>0, <1>1 DEF vars, disk, mem, outside, StoreInv, IsIndexOf, Heights
<1>2. ASSUME NEW b, NEW p, Takes(b, p) PROVE StoreInv'
  BY <1>2, <1>a DEF Takes, Execute
<1>3. CASE RecordIntent
  BY <1>3, <1>a DEF RecordIntent
<1>4. CASE StoreBlock
  <2>1. cur \in Chain /\ Len(cur) > 0
    BY <1>4 DEF StoreBlock, IInv, CommitInv, Committing
  <2>2. QED
    BY <1>4, <1>b, <2>1 DEF StoreBlock
<1>5. CASE SyncStore
  BY <1>5, <1>a DEF SyncStore
<1>6. CASE CommitPrepared
  BY <1>6, <1>a DEF CommitPrepared
<1>7. CASE SetChainState
  BY <1>7, <1>a DEF SetChainState
<1>8. CASE FinishCommit
  BY <1>8, <1>a DEF FinishCommit
<1>9. CASE Open
  <2>1. IsIndexOf(index', store')
    BY <1>9 DEF Open, Indexes, IsIndexOf, Heights
  <2>2. QED
    BY <1>0, <1>9, <2>1 DEF Open, StoreInv
<1>10. CASE NewBlockProcessor
  BY <1>10, <1>a DEF NewBlockProcessor
<1>11. CASE InitializeState
  <2>1. pc = "ready"
    BY <1>11 DEF InitializeState
  <2>2. CASE UNCHANGED <<store, index>> /\ pc' # "down"
    BY <1>a, <2>1, <2>2
  <2>3. CASE Height > Best(index) /\ Repairable
               /\ Initialized(store \cup {db.hash}, Indexed(index, db.hash))
    <3>1. db.hash \in Chain /\ Len(db.hash) = Height
      BY <2>1, <2>3, Repairs
    <3>2. Height > 0
      BY <1>0, <2>1, <2>3, BestFacts DEF TypeOK, Chain, Height
    <3>3. QED
      BY <1>b, <2>1, <2>3, <3>1, <3>2 DEF Initialized
  <2>4. QED
    BY <1>11, <2>2, <2>3, InitializeCases DEF Initialized
<1>12. CASE EndReplay
  BY <1>12, <1>a DEF EndReplay, disk
<1>13. CASE EndSync
  BY <1>13, <1>a DEF EndSync, disk
<1>14. CASE Rollback
  BY <1>14, <1>a DEF Rollback
<1>15. CASE ServeBlock
  BY <1>15, <1>a DEF ServeBlock, disk, mem
<1>16. CASE Crash
  BY <1>16, <1>c DEF Crash
<1>17. ASSUME NEW v \in Versions, PeersDecide(v) PROVE StoreInv'
  BY <1>0, <1>17 DEF PeersDecide, disk, mem, StoreInv, IsIndexOf, Heights
<1>18. ASSUME NEW h \in 0 .. MaxHeight, LoseStore(h) PROVE StoreInv'
  BY <1>0, <1>18, <1>c DEF LoseStore, mem, StoreInv
<1>19. ASSUME NEW h \in 0 .. MaxHeight, RestoreDatabase(h) PROVE StoreInv'
  BY <1>0, <1>19, <1>c DEF RestoreDatabase, mem, StoreInv
<1>20. QED
  BY <1>1, <1>2, <1>3, <1>4, <1>5, <1>6, <1>7, <1>8, <1>9, <1>10, <1>11, <1>12, <1>13,
     <1>14, <1>15, <1>16, <1>17, <1>18, <1>19, NextSplit

\* Every step keeps what is being committed on top of the last commit.
LEMMA CommitInvStep ==
  IInv /\ [Next]_vars => CommitInv'
<1> SUFFICES ASSUME IInv, [Next]_vars PROVE CommitInv'
  OBVIOUS
<1>0. CommitInv /\ TypeOK
  BY DEF IInv
<1> USE DEF CommitInv, Committing, BeforeCommit
<1>1. CASE UNCHANGED vars
  BY <1>0, <1>1 DEF vars, disk, mem, outside, Height
<1>2. ASSUME NEW b, NEW p, Takes(b, p) PROVE CommitInv'
  <2>1. Len(b) > 0
    BY <1>0, <1>2 DEF Takes, TypeOK, Chain
  <2>2. QED
    BY <1>0, <1>2, <2>1 DEF Takes, Execute, Height
<1>3. CASE RecordIntent
  BY <1>0, <1>3 DEF RecordIntent, Height
<1>4. CASE StoreBlock
  BY <1>0, <1>4 DEF StoreBlock, Height
<1>5. CASE SyncStore
  BY <1>0, <1>5 DEF SyncStore, Height
<1>6. CASE CommitPrepared
  <2>1. prepared = cur /\ cur \in Chain /\ Len(cur) > 0
    BY <1>0, <1>6 DEF CommitPrepared
  <2>2. prepared[Len(prepared)] \in Versions
    BY <2>1, ParentFacts
  <2>3. Height' = Height + 1 /\ Height \in Nat
    BY <1>0, <1>6, <2>2, AppendFacts DEF CommitPrepared, TypeOK, Height, Chain
  <2>4. QED
    BY <1>0, <1>6, <2>3 DEF CommitPrepared
<1>7. CASE SetChainState
  BY <1>0, <1>7 DEF SetChainState, TypeOK
<1>8. CASE FinishCommit
  BY <1>0, <1>8 DEF FinishCommit, Height
<1>9. CASE Open
  BY <1>0, <1>9 DEF Open, Height, Stopped
<1>10. CASE NewBlockProcessor
  <2>1. CASE UNCHANGED db /\ (pc' = "ready" => ~db.dirty) /\ pc' \in {"ready", "failed"}
    BY <1>0, <1>10, <2>1 DEF NewBlockProcessor, Height
  <2>2. CASE db' = [db EXCEPT !.hash = index[Height], !.dirty = FALSE]
    BY <1>0, <1>10, <2>2 DEF NewBlockProcessor, TypeOK
  <2>3. QED
    BY <1>10, <2>1, <2>2 DEF NewBlockProcessor
<1>11. CASE InitializeState
  <2>1. pc = "ready" /\ UNCHANGED db /\ pc' \in {"failed", "idle"}
    BY <1>11 DEF InitializeState, Initialized
  <2>2. QED
    BY <1>0, <2>1
<1>12. CASE EndReplay
  BY <1>0, <1>12 DEF EndReplay, disk, Height
<1>13. CASE EndSync
  BY <1>0, <1>13 DEF EndSync, disk, Height
<1>14. CASE Rollback
  BY <1>0, <1>14 DEF Rollback, Height
<1>15. CASE ServeBlock
  BY <1>0, <1>15 DEF ServeBlock, disk, mem, Height
<1>16. CASE Crash
  BY <1>0, <1>16 DEF Crash, Height
<1>17. ASSUME NEW v \in Versions, PeersDecide(v) PROVE CommitInv'
  BY <1>0, <1>17 DEF PeersDecide, disk, mem, Height
<1>18. ASSUME NEW h \in 0 .. MaxHeight, LoseStore(h) PROVE CommitInv'
  BY <1>0, <1>18 DEF LoseStore, mem, Height
<1>19. ASSUME NEW h \in 0 .. MaxHeight, RestoreDatabase(h) PROVE CommitInv'
  BY <1>0, <1>19 DEF RestoreDatabase, mem
<1>20. QED
  BY <1>1, <1>2, <1>3, <1>4, <1>5, <1>6, <1>7, <1>8, <1>9, <1>10, <1>11, <1>12, <1>13,
     <1>14, <1>15, <1>16, <1>17, <1>18, <1>19, NextSplit

\* Unless a height was rewritten, a commit applies the block that is stored.
LEMMA CommitApplies ==
  ASSUME IInv, CommitPrepared, ~rewritten
  PROVE  /\ db'.app = cur /\ db.app = Parent(cur)
         /\ Height' = Height + 1 /\ Height' = Len(cur) /\ Height \in Nat
         /\ \A n \in 0 .. Height : Prefix(db'.app, n) = Prefix(db.app, n)
<1>1. /\ prepared = cur /\ cur \in Chain /\ Len(cur) > 0
      /\ Parent(cur) = db.hash /\ ~db.dirty
  BY DEF CommitPrepared, IInv, CommitInv, BeforeCommit, Committing
<1>2. db.app = Parent(cur)
  BY <1>1 DEF IInv, HistoryInv
<1>3. db'.app = cur
  BY <1>1, <1>2, ParentFacts DEF CommitPrepared
<1>4. Len(cur) \in Nat /\ Height = Len(cur) - 1 /\ Parent(cur) = Prefix(cur, Height)
  BY <1>1, <1>2, ParentFacts DEF Height, Chain
<1>5. ASSUME NEW n \in 0 .. Height PROVE Prefix(cur, n) = Prefix(Parent(cur), n)
  <2>1. Height \in 0 .. Len(cur)
    BY <1>4
  <2>2. QED
    BY <1>1, <1>4, <2>1, PrefixOfPrefix
<1>6. QED
  BY <1>1, <1>2, <1>3, <1>4, <1>5 DEF Height

\* Every step keeps the one history of the three stores.
LEMMA HistoryStep ==
  IInv /\ [Next]_vars => HistoryInv'
<1> SUFFICES ASSUME IInv, [Next]_vars, ~rewritten' PROVE HistoryInv'
  BY DEF HistoryInv
<1>0. HistoryInv /\ TypeOK /\ CommitInv
  BY DEF IInv
<1>z. Height \in Nat /\ Len(db.app) \in Nat /\ \A b \in store : Len(b) \in Nat
  BY <1>0 DEF TypeOK, Chain, Height
<1> USE DEF Settled, BeforeCommit, Committing
<1>1. CASE UNCHANGED vars
  BY <1>0, <1>1 DEF vars, disk, mem, outside, Height, HistoryInv
<1>2. ASSUME NEW b, NEW p, Takes(b, p) PROVE HistoryInv'
  BY <1>0, <1>2 DEF Takes, Execute, outside, Height, HistoryInv
<1>3. CASE RecordIntent
  BY <1>0, <1>3 DEF RecordIntent, outside, Height, HistoryInv
<1>4. CASE StoreBlock
  <2>1. /\ ~rewritten /\ ~db.dirty /\ UNCHANGED <<db, lc>>
        /\ Len(cur) = Height + 1 /\ \A b \in store : Len(b) = Len(cur) => b = cur
    <3>1. cur \in Chain /\ Len(cur) > 0 /\ Parent(cur) = db.hash /\ ~db.dirty
      BY <1>0, <1>4 DEF StoreBlock, CommitInv
    <3>2. ~rewritten /\ \A b \in store : Len(b) = Len(cur) => b = cur
      BY <1>4 DEF StoreBlock
    <3>3. db.app = Parent(cur)
      BY <1>0, <3>1, <3>2 DEF HistoryInv
    <3>4. Len(cur) = Height + 1
      BY <3>1, <3>3, ParentFacts DEF Height, Chain
    <3>5. QED
      BY <1>4, <3>1, <3>2, <3>4 DEF StoreBlock
  <2>2. \A b, c \in store' : Len(b) = Len(c) => b = c
    BY <1>0, <1>4, <2>1 DEF StoreBlock, HistoryInv
  <2>3. \A b \in store' : Len(b) <= Height' => b = Prefix(db'.app, Len(b))
    BY <1>0, <1>4, <1>z, <2>1 DEF StoreBlock, HistoryInv, Height
  <2>4. QED
    BY <1>0, <1>4, <2>1, <2>2, <2>3 DEF StoreBlock, HistoryInv, Height
<1>5. CASE SyncStore
  BY <1>0, <1>5 DEF SyncStore, outside, Height, HistoryInv
<1>6. CASE CommitPrepared
  <2>1. ~rewritten /\ UNCHANGED <<store, rewritten, cur>> /\ cur \in store
    BY <1>0, <1>6 DEF CommitPrepared, outside, CommitInv
  <2>2. /\ db'.app = cur
        /\ Height' = Height + 1 /\ Height' = Len(cur)
        /\ \A n \in 0 .. Height : Prefix(db'.app, n) = Prefix(db.app, n)
    BY <1>6, <2>1, CommitApplies
  <2>3. ASSUME NEW b \in store, Len(b) <= Height' PROVE b = Prefix(db'.app, Len(b))
    <3>1. CASE Len(b) = Len(cur)
      <4>1. b = cur /\ cur \in Chain
        BY <1>0, <2>1, <3>1 DEF HistoryInv, TypeOK
      <4>2. QED
        BY <2>2, <4>1, PrefixEnds
    <3>2. CASE Len(b) # Len(cur)
      <4>1. Len(b) \in 0 .. Height
        BY <1>z, <2>2, <2>3, <3>2
      <4>2. b = Prefix(db.app, Len(b))
        BY <1>0, <1>z, <2>1, <4>1 DEF HistoryInv
      <4>3. QED
        BY <2>2, <4>1, <4>2
    <3>3. QED
      BY <3>1, <3>2
  <2>4. db'.dirty /\ pc' = "dirty"
    BY <1>6 DEF CommitPrepared
  <2>5. QED
    BY <1>0, <2>1, <2>2, <2>3, <2>4 DEF HistoryInv
<1>7. CASE SetChainState
  <2>1. /\ UNCHANGED <<store, cur, rewritten>> /\ pc = "dirty" /\ pc' = "clean"
        /\ db'.app = db.app /\ db'.hash = cur
    BY <1>0, <1>7 DEF SetChainState, outside, TypeOK
  <2>2. QED
    BY <1>0, <2>1 DEF HistoryInv, Height
<1>8. CASE FinishCommit
  <2>1. cur \in store /\ db.app = cur /\ UNCHANGED <<store, db, rewritten>> /\ lc' = cur /\ pc' = "idle"
    BY <1>0, <1>8 DEF FinishCommit, outside, CommitInv, HistoryInv
  <2>2. QED
    BY <1>0, <2>1 DEF HistoryInv, Height
<1>9. CASE Open
  BY <1>0, <1>9 DEF Open, outside, Height, HistoryInv
<1>10. CASE NewBlockProcessor
  <2>1. UNCHANGED <<store, rewritten>> /\ pc' \in {"ready", "failed"} /\ pc = "opened"
    BY <1>10 DEF NewBlockProcessor, outside
  <2>2. CASE UNCHANGED db
    BY <1>0, <2>1, <2>2 DEF HistoryInv, Height
  <2>3. CASE Height \in DOMAIN index /\ db' = [db EXCEPT !.hash = index[Height], !.dirty = FALSE]
    <3>1. index[Height] \in store /\ Len(index[Height]) = Height
      BY <2>1, <2>3 DEF IInv, StoreInv, IsIndexOf
    <3>2. index[Height] = Prefix(db.app, Height)
      BY <1>0, <1>z, <2>1, <3>1 DEF HistoryInv
    <3>3. index[Height] = db.app
      BY <1>0, <3>2, PrefixEnds DEF TypeOK, Height
    <3>4. db'.app = db.app /\ db'.hash = db.app
      BY <1>0, <2>3, <3>3 DEF TypeOK
    <3>5. QED
      BY <1>0, <2>1, <3>4 DEF HistoryInv, Height
  <2>4. QED
    BY <1>10, <2>2, <2>3 DEF NewBlockProcessor
<1>11. CASE InitializeState
  <2>1. pc = "ready" /\ UNCHANGED <<db, rewritten>> /\ ~db.dirty /\ ~rewritten
    BY <1>0, <1>11 DEF InitializeState, outside, CommitInv
  <2>2. db.hash = db.app /\ db.app \in Chain
    BY <1>0, <2>1 DEF HistoryInv, TypeOK
  <2>3. CASE pc' = "failed" /\ UNCHANGED <<store, lc>>
    BY <1>0, <2>1, <2>3 DEF HistoryInv, Height
  <2>4. CASE /\ Height > Best(index) /\ Repairable
             /\ Initialized(store \cup {db.hash}, Indexed(index, db.hash))
    <3>1. Len(db.app) = Height /\ Height > 0 /\ \A b \in store : Len(b) < Height
      <4>1. Best(index) \in Nat /\ \A h \in DOMAIN index : h <= Best(index)
        BY <2>1, BestFacts DEF IInv
      <4>2. \A b \in store : Len(b) \in DOMAIN index
        BY <2>1 DEF IInv, StoreInv, IsIndexOf, Heights
      <4>3. QED
        BY <1>z, <2>4, <4>1, <4>2 DEF Height
    <3>2. lc' = db.app /\ store' = store \cup {db.app} /\ pc' = "idle"
      BY <2>2, <2>4, <3>1 DEF Initialized, Indexed
    <3>3. \A b, c \in store' : Len(b) = Len(c) => b = c
      BY <1>0, <1>z, <2>1, <3>1, <3>2 DEF HistoryInv
    <3>4. db.app = Prefix(db.app, Len(db.app))
      BY <2>2, PrefixEnds
    <3>5. \A b \in store' : Len(b) <= Height => b = Prefix(db.app, Len(b))
      BY <1>0, <2>1, <3>2, <3>4 DEF HistoryInv
    <3>6. QED
      BY <2>1, <2>2, <3>2, <3>3, <3>5 DEF HistoryInv, Height
  <2>5. CASE /\ Height > 0 => Height \in DOMAIN index
             /\ Initialized(store, index)
    <3>1. UNCHANGED store /\ pc' = "idle"
      BY <2>5 DEF Initialized
    <3>2. CASE Height = 0
      <4>1. db.app = <<>>
        BY <2>2, <3>2, PrefixEnds DEF Height
      <4>2. QED
        BY <1>0, <1>z, <2>1, <2>2, <2>5, <3>1, <3>2, <4>1 DEF Initialized, HistoryInv, Height
    <3>3. CASE Height > 0
      <4>1. index[Height] \in store /\ Len(index[Height]) = Height
        BY <2>1, <2>5, <3>3 DEF IInv, StoreInv, IsIndexOf
      <4>2. index[Height] = Prefix(db.app, Height)
        BY <1>0, <1>z, <2>1, <4>1 DEF HistoryInv
      <4>3. index[Height] = db.app
        BY <2>2, <4>2, PrefixEnds DEF Height
      <4>4. lc' = db.app
        BY <1>z, <2>5, <3>3, <4>3 DEF Initialized
      <4>5. QED
        BY <1>0, <2>1, <2>2, <3>1, <4>1, <4>3, <4>4 DEF HistoryInv, Height
    <3>4. QED
      BY <1>z, <3>2, <3>3
  <2>6. QED
    BY <1>11, <2>3, <2>4, <2>5, InitializeCases
<1>12. CASE EndReplay
  BY <1>0, <1>12 DEF EndReplay, disk, outside, Height, HistoryInv
<1>13. CASE EndSync
  BY <1>0, <1>13 DEF EndSync, disk, outside, Height, HistoryInv
<1>14. CASE Rollback
  BY <1>0, <1>14 DEF Rollback, outside, Height, HistoryInv
<1>15. CASE ServeBlock
  BY <1>0, <1>15 DEF ServeBlock, disk, mem, Height, HistoryInv
<1>16. CASE Crash
  BY <1>0, <1>16 DEF Crash, Height, HistoryInv
<1>17. ASSUME NEW v \in Versions, PeersDecide(v) PROVE HistoryInv'
  BY <1>0, <1>17 DEF PeersDecide, disk, mem, Height, HistoryInv
<1>18. ASSUME NEW h \in 0 .. MaxHeight, LoseStore(h) PROVE HistoryInv'
  BY <1>0, <1>18 DEF LoseStore, mem, Height, HistoryInv
<1>19. ASSUME NEW h \in 0 .. MaxHeight, RestoreDatabase(h) PROVE HistoryInv'
  <2>1. /\ pc = "down" /\ UNCHANGED <<pc, store, rewritten>> /\ h < Len(db.app)
        /\ db'.app = Prefix(db.app, h) /\ db'.hash = db'.app
    BY <1>19 DEF RestoreDatabase, mem
  <2>2. h \in 0 .. Len(db.app)
    BY <1>z, <2>1, RecoveryAssumption
  <2>3. Height' = h
    BY <1>0, <2>1, <2>2, PrefixFacts DEF TypeOK, Height
  <2>4. ASSUME NEW b \in store, Len(b) <= h PROVE b = Prefix(db'.app, Len(b))
    <3>1. Len(b) \in 0 .. h /\ Len(b) <= Height
      BY <1>z, <2>2, <2>4 DEF Height
    <3>2. b = Prefix(db.app, Len(b))
      BY <1>0, <2>1, <3>1 DEF HistoryInv
    <3>3. Prefix(Prefix(db.app, h), Len(b)) = Prefix(db.app, Len(b))
      BY <1>0, <2>2, <3>1, PrefixOfPrefix DEF TypeOK
    <3>4. QED
      BY <2>1, <3>2, <3>3
  <2>5. QED
    BY <1>0, <2>1, <2>3, <2>4 DEF HistoryInv
<1>20. QED
  BY <1>1, <1>2, <1>3, <1>4, <1>5, <1>6, <1>7, <1>8, <1>9, <1>10, <1>11, <1>12, <1>13,
     <1>14, <1>15, <1>16, <1>17, <1>18, <1>19, NextSplit

\* Every step of a follower takes only what its peers decided.
LEMMA FollowerStep ==
  IInv /\ [Next]_vars => FollowerInv'
<1> SUFFICES ASSUME IInv, [Next]_vars, role' = "follower" PROVE FollowerInv'
  BY DEF FollowerInv
<1>0. FollowerInv /\ TypeOK /\ CommitInv
  BY DEF IInv
<1>t. /\ db.app \in Chain /\ peers \in Chain /\ store \subseteq Chain
      /\ Len(db.app) \in Nat /\ \A b \in store : Len(b) \in Nat
  BY <1>0 DEF TypeOK, Chain
<1> USE DEF BeforeCommit, Committing
<1>1. CASE UNCHANGED vars
  BY <1>0, <1>1 DEF vars, disk, mem, outside, FollowerInv
<1>2. ASSUME NEW b, NEW p, Takes(b, p) PROVE FollowerInv'
  BY <1>0, <1>2 DEF Takes, Execute, outside, FollowerInv
<1>3. CASE RecordIntent
  <2>1. role = "follower"
    BY <1>3 DEF RecordIntent, outside
  <2>2. Extends(peers, cur)
    BY <1>0, <1>3, <2>1 DEF RecordIntent, FollowerInv
  <2>3. QED
    BY <1>0, <1>3, <2>1, <2>2 DEF RecordIntent, outside, FollowerInv
<1>4. CASE StoreBlock
  <2>1. role = "follower" /\ Extends(peers, cur) /\ cur \in Chain /\ ~rewritten
    BY <1>0, <1>4 DEF StoreBlock, FollowerInv, CommitInv
  <2>2. \A b \in store : Len(b) = Len(cur) => b = cur
    BY <1>0, <1>t, <2>1, ExtendsFacts DEF FollowerInv
  <2>3. QED
    BY <1>0, <1>4, <2>1, <2>2 DEF StoreBlock, FollowerInv
<1>5. CASE SyncStore
  BY <1>0, <1>5 DEF SyncStore, outside, FollowerInv
<1>6. CASE CommitPrepared
  <2>1. role = "follower" /\ Extends(peers, cur) /\ ~rewritten
    BY <1>0, <1>6 DEF CommitPrepared, outside, FollowerInv
  <2>2. db'.app = cur
    BY <1>6, <2>1, CommitApplies
  <2>3. QED
    BY <1>0, <1>6, <2>1, <2>2 DEF CommitPrepared, outside, FollowerInv
<1>7. CASE SetChainState
  <2>1. db'.app = db.app
    BY <1>0, <1>7 DEF SetChainState, TypeOK
  <2>2. QED
    BY <1>0, <1>7, <2>1 DEF SetChainState, outside, FollowerInv
<1>8. CASE FinishCommit
  BY <1>0, <1>8 DEF FinishCommit, outside, FollowerInv
<1>9. CASE Open
  BY <1>0, <1>9 DEF Open, outside, FollowerInv
<1>10. CASE NewBlockProcessor
  <2>1. db'.app = db.app
    BY <1>0, <1>10 DEF NewBlockProcessor, TypeOK
  <2>2. pc' \in {"ready", "failed"}
    BY <1>10 DEF NewBlockProcessor
  <2>3. QED
    BY <1>0, <1>10, <2>1, <2>2 DEF NewBlockProcessor, outside, FollowerInv
<1>11. CASE InitializeState
  <2>1. pc = "ready" /\ UNCHANGED <<db, cur, role, peers, rewritten, used>>
    BY <1>11 DEF InitializeState, outside
  <2>2. Repairable => Extends(peers, db.hash)
    BY <2>1, Repairs
  <2>3. pc' \in {"idle", "failed"} /\ intent' \in {intent, NoBlock}
    BY <1>11, InitializeCases DEF Initialized
  <2>4. store' = store \/ (Repairable /\ store' = store \cup {db.hash})
    BY <1>11, InitializeCases DEF Initialized
  <2>5. \A b \in store' : Extends(peers, b)
    BY <1>0, <2>1, <2>2, <2>4 DEF FollowerInv
  <2>6. QED
    BY <1>0, <2>1, <2>3, <2>5 DEF FollowerInv
<1>12. CASE EndReplay
  BY <1>0, <1>12 DEF EndReplay, disk, outside, FollowerInv
<1>13. CASE EndSync
  BY <1>0, <1>13 DEF EndSync, disk, outside, FollowerInv
<1>14. CASE Rollback
  BY <1>0, <1>14 DEF Rollback, outside, FollowerInv
<1>15. CASE ServeBlock
  BY <1>0, <1>15 DEF ServeBlock
<1>16. CASE Crash
  BY <1>0, <1>16 DEF Crash, FollowerInv
<1>17. ASSUME NEW v \in Versions, PeersDecide(v) PROVE FollowerInv'
  <2>1. \A b \in Chain : Extends(peers, b) => Extends(peers', b)
    BY <1>17, <1>t, ExtendsFacts DEF PeersDecide
  <2>2. intent # NoBlock => intent \in Chain
    BY <1>0 DEF TypeOK
  <2>3. pc \in Committing => cur \in Chain
    BY <1>0 DEF CommitInv
  <2>4. UNCHANGED <<role, rewritten, db, store, intent, pc, cur>> /\ role = "follower"
    BY <1>17 DEF PeersDecide, disk, mem
  <2>5. QED
    BY <1>0, <1>t, <2>1, <2>2, <2>3, <2>4 DEF FollowerInv
<1>18. ASSUME NEW h \in 0 .. MaxHeight, LoseStore(h) PROVE FollowerInv'
  BY <1>0, <1>18 DEF LoseStore, mem, FollowerInv
<1>19. ASSUME NEW h \in 0 .. MaxHeight, RestoreDatabase(h) PROVE FollowerInv'
  <2>1. h \in 0 .. Len(db.app) /\ db'.app = Prefix(db.app, h)
    BY <1>t, <1>19, RecoveryAssumption DEF RestoreDatabase
  <2>2. role = "follower" /\ Extends(peers, db.app)
    BY <1>0, <1>19 DEF RestoreDatabase, FollowerInv
  <2>3. Extends(peers, db'.app)
    BY <1>t, <2>1, <2>2, ExtendsFacts
  <2>4. QED
    BY <1>0, <1>19, <2>3 DEF RestoreDatabase, mem, FollowerInv
<1>20. QED
  BY <1>1, <1>2, <1>3, <1>4, <1>5, <1>6, <1>7, <1>8, <1>9, <1>10, <1>11, <1>12, <1>13,
     <1>14, <1>15, <1>16, <1>17, <1>18, <1>19, NextSplit

\* Every step keeps a follower's applied blocks durable and its start possible.
LEMMA DurableStep ==
  IInv /\ [Next]_vars => DurableInv'
<1> SUFFICES ASSUME IInv, [Next]_vars, role' = "follower", used'.loss = 0 PROVE DurableInv'
  BY DEF DurableInv
<1>0. DurableInv /\ FollowerInv /\ TypeOK /\ CommitInv /\ HistoryInv
  BY DEF IInv
<1>t. /\ db.app \in Chain /\ peers \in Chain /\ store \subseteq Chain /\ unsynced \subseteq store
      /\ Height \in Nat /\ \A b \in store : Len(b) \in Nat
  BY <1>0 DEF TypeOK, Chain, Height
<1> USE DEF BeforeCommit, Committing, Settled
<1>1. CASE UNCHANGED vars
  BY <1>0, <1>1 DEF vars, disk, mem, outside, DurableInv, Height
<1>2. ASSUME NEW b, NEW p, Takes(b, p) PROVE DurableInv'
  <2>1. role = "follower" /\ pc \in Settled
    BY <1>2 DEF Takes, Execute, outside
  <2>2. Parent(b) = lc /\ lc = db.app /\ ~db.dirty
    BY <1>0, <1>2, <2>1, FollowerSettled DEF Takes, CommitInv
  <2>3. db.hash = db.app
    BY <1>0, <2>1, <2>2 DEF FollowerInv, HistoryInv
  <2>4. pc' = p
    BY <1>2, <2>2, <2>3 DEF Takes, Execute
  <2>5. QED
    BY <1>0, <1>2, <2>1, <2>4 DEF Takes, Execute, outside, DurableInv, Height
<1>3. CASE RecordIntent
  BY <1>0, <1>3 DEF RecordIntent, outside, DurableInv, Height
<1>4. CASE StoreBlock
  <2>1. role = "follower" /\ used.loss = 0 /\ Extends(peers, cur) /\ cur \in Chain /\ ~rewritten
    BY <1>0, <1>4 DEF StoreBlock, FollowerInv, CommitInv
  <2>2. Len(cur) \in Nat /\ Len(cur) > 0 /\ Parent(cur) = db.app /\ Len(cur) = Height + 1
    <3>1. Len(cur) > 0 /\ Parent(cur) = lc /\ lc = db.app
      BY <1>0, <1>4, <2>1, FollowerSettled DEF StoreBlock, CommitInv
    <3>2. QED
      BY <2>1, <3>1, ParentFacts DEF Height, Chain
  <2>3. store' = store \cup {cur} /\ unsynced' = unsynced \cup ({cur} \ store)
        /\ UNCHANGED <<db, role, used>> /\ pc' = "stored"
    BY <1>4 DEF StoreBlock
  <2>4. \A n \in 1 .. Len(cur) : Prefix(cur, n) \in store'
    <3> TAKE n \in 1 .. Len(cur)
    <3>1. CASE n = Len(cur)
      BY <2>1, <2>3, <3>1, PrefixEnds
    <3>2. CASE n # Len(cur)
      <4>1. Height > 0 /\ n \in 1 .. Height /\ n \in 0 .. Height
        BY <1>t, <2>2, <3>2
      <4>2. db.app \in store /\ Len(db.app) = Height
        BY <1>0, <2>1, <4>1 DEF DurableInv, Height
      <4>3. Prefix(db.app, n) \in store
        BY <1>0, <2>1, <4>1, <4>2 DEF DurableInv
      <4>4. db.app = Prefix(cur, Height)
        <5>1. Len(cur) - 1 = Height
          BY <1>t, <2>2
        <5>2. QED
          BY <2>1, <2>2, <5>1, ParentFacts
      <4>5. Height \in 0 .. Len(cur)
        BY <1>t, <2>2
      <4>6. Prefix(db.app, n) = Prefix(cur, n)
        BY <2>1, <4>1, <4>4, <4>5, PrefixOfPrefix
      <4>7. QED
        BY <2>3, <4>3, <4>6
    <3>3. QED
      BY <3>1, <3>2
  <2>5. \A b \in store' : \A n \in 1 .. Len(b) : Prefix(b, n) \in store'
    BY <1>0, <2>1, <2>3, <2>4 DEF DurableInv
  <2>6. ASSUME cur \notin store PROVE \A b \in store : Len(b) <= Height
    <3> SUFFICES ASSUME NEW b \in store, Len(b) > Height PROVE FALSE
      BY <1>t
    <3>1. Len(cur) \in 1 .. Len(b) /\ Len(cur) \in 0 .. Len(b)
      BY <1>t, <2>2
    <3>2. Prefix(b, Len(cur)) \in store
      BY <1>0, <2>1, <3>1 DEF DurableInv
    <3>3. Extends(peers, b)
      BY <1>0, <2>1 DEF FollowerInv
    <3>4. Prefix(b, Len(cur)) = Prefix(peers, Len(cur))
      BY <1>t, <3>1, <3>3, ExtendsFacts
    <3>5. cur = Prefix(peers, Len(cur))
      BY <1>t, <2>1, ExtendsFacts
    <3>6. QED
      BY <2>6, <3>2, <3>4, <3>5
  <2>7. \A b \in unsynced' : Len(b) > Height /\ \A c \in store' : Len(c) <= Len(b)
    <3>1. CASE cur \in store
      BY <1>0, <2>1, <2>3, <3>1 DEF DurableInv
    <3>2. CASE cur \notin store
      <4>1. unsynced = {}
        BY <1>0, <1>t, <2>1, <2>6, <3>2 DEF DurableInv
      <4>2. QED
        BY <1>t, <2>2, <2>3, <2>6, <3>2, <4>1
    <3>3. QED
      BY <3>1, <3>2
  <2>8. QED
    BY <1>0, <2>1, <2>3, <2>5, <2>7 DEF DurableInv, Height
<1>5. CASE SyncStore
  BY <1>0, <1>5 DEF SyncStore, outside, DurableInv, Height
<1>6. CASE CommitPrepared
  <2>1. role = "follower" /\ used.loss = 0 /\ ~rewritten /\ cur \in store /\ unsynced = {}
    BY <1>0, <1>6 DEF CommitPrepared, outside, FollowerInv, CommitInv
  <2>2. db'.app = cur
    BY <1>6, <2>1, CommitApplies
  <2>3. QED
    BY <1>0, <1>6, <2>1, <2>2 DEF CommitPrepared, outside, DurableInv
<1>7. CASE SetChainState
  <2>1. db'.app = db.app
    BY <1>0, <1>7 DEF SetChainState, TypeOK
  <2>2. QED
    BY <1>0, <1>7, <2>1 DEF SetChainState, outside, DurableInv, Height
<1>8. CASE FinishCommit
  BY <1>0, <1>8 DEF FinishCommit, outside, DurableInv, Height
<1>9. CASE Open
  BY <1>0, <1>9 DEF Open, outside, DurableInv, Height
<1>10. CASE NewBlockProcessor
  <2>1. pc = "opened" /\ UNCHANGED <<role, used, store, unsynced>>
    BY <1>10 DEF NewBlockProcessor, outside
  <2>2. ASSUME db.dirty PROVE Height \in DOMAIN index
    <3>1. db.app \in store
      BY <1>0, <2>1, <2>2 DEF CommitInv, DurableInv
    <3>2. QED
      BY <2>1, <3>1 DEF IInv, StoreInv, IsIndexOf, Heights, Height
  <2>3. pc' = "ready" /\ db'.app = db.app
    BY <1>0, <1>10, <2>2 DEF NewBlockProcessor, TypeOK
  <2>4. QED
    BY <1>0, <2>1, <2>3 DEF DurableInv, Height
<1>11. CASE InitializeState
  <2>1. pc = "ready" /\ UNCHANGED <<db, role, used>> /\ ~db.dirty
    BY <1>0, <1>11 DEF InitializeState, outside, CommitInv
  <2>2. ASSUME Height > 0 PROVE Height \in DOMAIN index /\ index[Height] = db.hash
    <3>1. db.app \in store
      BY <1>0, <2>1, <2>2 DEF DurableInv
    <3>2. Height \in DOMAIN index
      BY <2>1, <3>1 DEF IInv, StoreInv, IsIndexOf, Heights, Height
    <3>3. index[Height] \in store /\ Len(index[Height]) = Height
      BY <2>1, <3>2 DEF IInv, StoreInv, IsIndexOf
    <3>4. index[Height] = db.app /\ db.hash = db.app
      BY <1>0, <2>1, <3>1, <3>3 DEF FollowerInv, HistoryInv, Height
    <3>5. QED
      BY <3>2, <3>4
  <2>3. Best(index) \in Nat /\ Height <= Best(index)
    BY <1>t, <2>1, <2>2, BestFacts DEF IInv
  <2>4. ~Mismatch
    BY <2>2 DEF Mismatch
  <2>5. ~(Height \in 1 .. (Best(index) - 1) /\ Height \notin DOMAIN index)
    BY <1>t, <2>2
  <2>6. Initialized(store, index) /\ UNCHANGED unsynced
    BY <1>11, <1>t, <2>3, <2>4, <2>5, InitializeCases
  <2>7. QED
    BY <1>0, <2>1, <2>6 DEF Initialized, DurableInv, Height
<1>12. CASE EndReplay
  BY <1>0, <1>12 DEF EndReplay, disk, outside, DurableInv, Height
<1>13. CASE EndSync
  BY <1>0, <1>13 DEF EndSync, disk, outside, DurableInv, Height
<1>14. CASE Rollback
  BY <1>0, <1>14 DEF Rollback, outside, DurableInv, Height
<1>15. CASE ServeBlock
  BY <1>15 DEF ServeBlock
<1>16. CASE Crash
  <2>1. role = "follower" /\ used.loss = 0
    BY <1>0, <1>16 DEF Crash, TypeOK
  <2>2. PICK lost \in SUBSET unsynced : store' = store \ lost /\ unsynced' = unsynced \ lost
    BY <1>16 DEF Crash
  <2>3. UNCHANGED db /\ pc' = "down"
    BY <1>16 DEF Crash
  <2>4. \A b \in lost : b \in unsynced /\ Len(b) > Height /\ \A c \in store : Len(c) <= Len(b)
    BY <1>0, <2>1, <2>2 DEF DurableInv
  <2>5. Height > 0 => db.app \in store'
    BY <1>0, <1>t, <2>1, <2>2, <2>4 DEF DurableInv, Height
  <2>6. ASSUME NEW b \in store', NEW n \in 1 .. Len(b) PROVE Prefix(b, n) \in store'
    <3>1. b \in store /\ b \in Chain /\ Prefix(b, n) \in store
      BY <1>0, <1>t, <2>1, <2>2 DEF DurableInv
    <3>2. CASE n = Len(b)
      BY <2>6, <3>1, <3>2, PrefixEnds
    <3>3. CASE n # Len(b)
      <4>1. n \in 0 .. Len(b) /\ n < Len(b)
        BY <1>t, <3>1, <3>3
      <4>2. Len(Prefix(b, n)) = n
        BY <3>1, <4>1, PrefixFacts
      <4>3. Prefix(b, n) \notin lost
        BY <1>t, <2>4, <3>1, <4>1, <4>2
      <4>4. QED
        BY <2>2, <3>1, <4>3
    <3>4. QED
      BY <3>2, <3>3
  <2>7. QED
    BY <1>0, <2>1, <2>2, <2>3, <2>5, <2>6 DEF DurableInv, Height
<1>17. ASSUME NEW v \in Versions, PeersDecide(v) PROVE DurableInv'
  BY <1>0, <1>17 DEF PeersDecide, disk, mem, DurableInv, Height
<1>18. ASSUME NEW h \in 0 .. MaxHeight, LoseStore(h) PROVE DurableInv'
  <2>1. used'.loss = used.loss + 1 /\ used.loss \in Nat
    BY <1>0, <1>18 DEF LoseStore, TypeOK
  <2>2. QED
    BY <2>1
<1>19. ASSUME NEW h \in 0 .. MaxHeight, RestoreDatabase(h) PROVE DurableInv'
  <2>1. h \in 0 .. Height /\ h < Height /\ db'.app = Prefix(db.app, h) /\ h \in Nat
    BY <1>t, <1>19, RecoveryAssumption DEF RestoreDatabase, Height
  <2>2. role = "follower" /\ used.loss = 0 /\ UNCHANGED <<store, unsynced, pc>>
    BY <1>0, <1>19 DEF RestoreDatabase, mem, TypeOK
  <2>3. Height' = h
    BY <1>t, <2>1, PrefixFacts DEF Height
  <2>4. h > 0 => db'.app \in store
    <3>1. h > 0 => h \in 1 .. Len(db.app) /\ db.app \in store
      BY <1>0, <1>t, <2>1, <2>2 DEF DurableInv, Height
    <3>2. QED
      BY <1>0, <2>1, <2>2, <3>1 DEF DurableInv
  <2>5. \A b \in unsynced : Len(b) > h
    BY <1>0, <1>t, <2>1, <2>2 DEF DurableInv
  <2>6. QED
    BY <1>0, <2>2, <2>3, <2>4, <2>5 DEF DurableInv
<1>20. QED
  BY <1>1, <1>2, <1>3, <1>4, <1>5, <1>6, <1>7, <1>8, <1>9, <1>10, <1>11, <1>12, <1>13,
     <1>14, <1>15, <1>16, <1>17, <1>18, <1>19, NextSplit

-----------------------------------------------------------------------------
(* The theorems                                                            *)

\* The invariant holds at the start.
LEMMA InitIInv == Init => IInv
<1> SUFFICES ASSUME Init PROVE IInv
  OBVIOUS
<1>1. <<>> \in Chain /\ Len(<<>>) = 0
  BY DEF Chain
<1>2. TypeOK
  BY <1>1 DEF Init, TypeOK
<1>3. StoreInv
  <2>1. DOMAIN index = {}
    BY DEF Init
  <2>2. IsIndexOf(index, store)
    BY <2>1 DEF Init, IsIndexOf, Heights
  <2>3. QED
    BY <2>2 DEF Init, StoreInv
<1>4. CommitInv /\ HistoryInv
  BY <1>1 DEF Init, CommitInv, HistoryInv, Committing, BeforeCommit, Height
<1>5. Extends(<<>>, <<>>)
  BY <1>1, PrefixEnds DEF Extends
<1>6. FollowerInv /\ DurableInv
  BY <1>1, <1>5 DEF Init, FollowerInv, DurableInv, Committing, Height
<1>7. QED
  BY <1>2, <1>3, <1>4, <1>6 DEF IInv

\* The invariant is inductive, through every crash, loss, restore and restart.
THEOREM Inductive == Spec => []IInv
<1>1. IInv /\ [Next]_vars => IInv'
  <2> SUFFICES ASSUME IInv, [Next]_vars PROVE IInv'
    OBVIOUS
  <2>1. QED
    BY TypesStep, StoreStep, CommitInvStep, HistoryStep, FollowerStep, DurableStep DEF IInv
<1>2. QED
  BY <1>1, InitIInv, PTL DEF Spec

\* The stores, the memory of the node and what is unsynced keep their shape
\* (BlockStore, chain state).
THEOREM TypesKept == Spec => []TypeOK
<1>1. IInv => TypeOK
  BY DEF IInv
<1>2. QED
  BY <1>1, Inductive, PTL

\* Wherever the node crashed and however often, a database without the dirty
\* flag has the app hash of its data (SetChainState, NewBlockProcessor).
THEOREM HashFollowsData == Spec => []HashMatchesApp
<1>1. IInv => HashMatchesApp
  BY DEF IInv, HistoryInv, HashMatchesApp
<1>2. QED
  BY <1>1, Inductive, PTL

\* What an idle node serves at its height and builds on is what it applied
\* (repairAppAheadOfStore, NewBlockStore, setLastCommitInfo).
THEOREM ServesApplied == Spec => []ServesWhatItApplied
<1>1. IInv => ServesWhatItApplied
  <2> SUFFICES ASSUME IInv, ~rewritten, pc = "idle", Height > 0
               PROVE  Height \in DOMAIN index /\ index[Height] = db.app /\ lc = db.app
    BY DEF ServesWhatItApplied
  <2>1. lc = db.app /\ db.app \in store
    BY DEF IInv, HistoryInv, Settled
  <2>2. Height \in DOMAIN index
    BY <2>1 DEF IInv, StoreInv, IsIndexOf, Heights, Height
  <2>3. index[Height] \in store /\ Len(index[Height]) = Height
    BY <2>2 DEF IInv, StoreInv, IsIndexOf
  <2>4. index[Height] = db.app
    BY <2>1, <2>3 DEF IInv, HistoryInv, Height
  <2>5. QED
    BY <2>1, <2>2, <2>4
<1>2. QED
  BY <1>1, Inductive, PTL

\* A follower whose disks lost nothing never fails to start, and never meets a
\* block that does not fit (NewBlockProcessor, initializeState, doBlockSync).
THEOREM FollowerStarts == Spec => []AlwaysStarts
<1>1. IInv => AlwaysStarts
  BY DEF IInv, DurableInv, AlwaysStarts
<1>2. QED
  BY <1>1, Inductive, PTL

-----------------------------------------------------------------------------
(* The refinement                                                          *)

\* A step that leaves the database's blocks, the peers, the role and the count
\* of restores alone is invisible in the ledger.
LEMMA Invisible ==
  ASSUME db'.app = db.app, UNCHANGED <<role, peers>>, used'.restore = used.restore
  PROVE  UNCHANGED <<IF role = "follower" THEN peers ELSE <<>>,
                     IF role = "follower" THEN db.app ELSE <<>>, used.restore>>
OBVIOUS

\* Every step of the node is a step of the ledger, or invisible in it.
LEMMA LedgerStep ==
  ASSUME IInv, [Next]_vars
  PROVE  [L!Next]_(<<IF role = "follower" THEN peers ELSE <<>>,
                     IF role = "follower" THEN db.app ELSE <<>>, used.restore>>)
<1>0. TypeOK
  BY DEF IInv
<1>t. /\ db.app \in Chain /\ peers \in Chain /\ Len(db.app) \in Nat /\ Len(peers) \in Nat
  BY <1>0 DEF TypeOK, Chain
<1> DEFINE D == IF role = "follower" THEN peers ELSE <<>>
           A == IF role = "follower" THEN db.app ELSE <<>>
<1>1. CASE UNCHANGED vars
  BY <1>1, Invisible DEF vars, disk, outside
<1>2. ASSUME NEW b, NEW p, Takes(b, p) PROVE [L!Next]_(<<D, A, used.restore>>)
  BY <1>2, Invisible DEF Takes, Execute, outside
<1>3. CASE RecordIntent
  BY <1>3, Invisible DEF RecordIntent, outside
<1>4. CASE StoreBlock
  BY <1>4, Invisible DEF StoreBlock
<1>5. CASE SyncStore
  BY <1>5, Invisible DEF SyncStore, outside
<1>6. CASE CommitPrepared
  <2>1. UNCHANGED <<role, peers, rewritten, used>>
    BY <1>6 DEF CommitPrepared, outside
  <2>2. CASE role = "follower"
    <3>1. ~rewritten /\ Extends(peers, cur) /\ cur \in Chain /\ Len(cur) > 0 /\ prepared = cur
      BY <1>6, <2>2 DEF CommitPrepared, IInv, FollowerInv, CommitInv, Committing, BeforeCommit
    <3>2. Len(cur) = Len(db.app) + 1
      BY <1>6, <3>1, CommitApplies DEF Height
    <3>3. Len(cur) \in 0 .. Len(peers) /\ cur = Prefix(peers, Len(cur))
      BY <1>t, <3>1, ExtendsFacts
    <3>4. cur[Len(cur)] = peers[Len(cur)]
      <4>1. Len(cur) \in 1 .. Len(cur)
        BY <1>t, <3>2
      <4>2. QED
        BY <1>t, <3>3, <4>1, PrefixFacts
    <3>5. db'.app = Append(db.app, peers[Len(db.app) + 1])
      BY <1>6, <3>1, <3>2, <3>4 DEF CommitPrepared
    <3>6. Len(db.app) < Len(peers)
      BY <1>t, <3>2, <3>3
    <3>7. L!Apply
      BY <2>1, <2>2, <3>5, <3>6 DEF L!Apply
    <3>8. QED
      BY <3>7 DEF L!Next
  <2>3. CASE role # "follower"
    BY <2>1, <2>3
  <2>4. QED
    BY <2>2, <2>3
<1>7. CASE SetChainState
  <2>1. db'.app = db.app
    BY <1>0, <1>7 DEF SetChainState, TypeOK
  <2>2. QED
    BY <1>7, <2>1, Invisible DEF SetChainState, outside
<1>8. CASE FinishCommit
  BY <1>8, Invisible DEF FinishCommit, outside
<1>9. CASE Open
  BY <1>9, Invisible DEF Open, outside
<1>10. CASE NewBlockProcessor
  <2>1. db'.app = db.app
    BY <1>0, <1>10 DEF NewBlockProcessor, TypeOK
  <2>2. QED
    BY <1>10, <2>1, Invisible DEF NewBlockProcessor, outside
<1>11. CASE InitializeState
  BY <1>11, Invisible DEF InitializeState, outside
<1>12. CASE EndReplay
  BY <1>12, Invisible DEF EndReplay, disk, outside
<1>13. CASE EndSync
  BY <1>13, Invisible DEF EndSync, disk, outside
<1>14. CASE Rollback
  BY <1>14, Invisible DEF Rollback, outside
<1>15. CASE ServeBlock
  BY <1>15 DEF ServeBlock, disk
<1>16. CASE Crash
  <2>1. used'.restore = used.restore
    BY <1>0, <1>16 DEF Crash, TypeOK
  <2>2. QED
    BY <1>16, <2>1, Invisible DEF Crash
<1>17. ASSUME NEW v \in Versions, PeersDecide(v) PROVE [L!Next]_(<<D, A, used.restore>>)
  <2>1. L!Decide
    BY <1>17 DEF PeersDecide, disk, L!Decide
  <2>2. QED
    BY <2>1 DEF L!Next
<1>18. ASSUME NEW h \in 0 .. MaxHeight, LoseStore(h) PROVE [L!Next]_(<<D, A, used.restore>>)
  <2>1. used'.restore = used.restore
    BY <1>0, <1>18 DEF LoseStore, TypeOK
  <2>2. QED
    BY <1>18, <2>1, Invisible DEF LoseStore
<1>19. ASSUME NEW h \in 0 .. MaxHeight, RestoreDatabase(h)
       PROVE  [L!Next]_(<<D, A, used.restore>>)
  <2>1. /\ used'.restore = used.restore + 1 /\ UNCHANGED <<role, peers>>
        /\ h < Len(db.app) /\ db'.app = SubSeq(db.app, 1, h) /\ h \in Nat
    BY <1>0, <1>19, RecoveryAssumption DEF RestoreDatabase, TypeOK, Prefix
  <2>2. CASE role = "follower"
    <3>1. h \in 0 .. Len(db.app)
      BY <1>t, <2>1
    <3>2. L!Restore
      BY <2>1, <2>2, <3>1 DEF L!Restore
    <3>3. QED
      BY <3>2 DEF L!Next
  <2>3. CASE role # "follower"
    <3>1. SubSeq(<<>>, 1, 0) = <<>>
      BY SubSeqEmpty
    <3>2. Len(<<>>) = 0 /\ 0 \in 0 .. 0
      OBVIOUS
    <3>3. L!Restore
      BY <2>1, <2>3, <3>1, <3>2 DEF L!Restore
    <3>4. QED
      BY <3>3 DEF L!Next
  <2>4. QED
    BY <2>2, <2>3
<1>20. QED
  BY <1>1, <1>2, <1>3, <1>4, <1>5, <1>6, <1>7, <1>8, <1>9, <1>10, <1>11, <1>12, <1>13,
     <1>14, <1>15, <1>16, <1>17, <1>18, <1>19, NextSplit

\* The database of a follower is the decided blocks, applied in order and each
\* of them once, through every crash, loss and recovery: the commit path
\* implements the ledger.
THEOREM CommitImplementsLedger == Spec => ImplementsLedger
<1>1. Init => L!Init
  BY DEF Init, L!Init
<1>2. IInv /\ [Next]_vars =>
        [L!Next]_(<<IF role = "follower" THEN peers ELSE <<>>,
                    IF role = "follower" THEN db.app ELSE <<>>, used.restore>>)
  BY LedgerStep
<1>3. QED
  BY <1>1, <1>2, Inductive, PTL DEF Spec, ImplementsLedger, L!Spec
=============================================================================
