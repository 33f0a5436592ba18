--------------------------- MODULE ConsensusProofs ---------------------------
(***************************************************************************)
(* Theorems about Consensus for any number of nodes, heights, proposals    *)
(* and crashes.                                                            *)
(***************************************************************************)
EXTENDS Consensus, FiniteSetTheorems, TLAPS

-----------------------------------------------------------------------------
(* What the shared state changes do to a node                              *)

\* The highest block that changes the leader names a node.
LEMMA ParamLeaderType ==
  ASSUME NEW c \in Seq(Entry)
  PROVE  ParamLeader(c) \in Validators
<1> DEFINE changes == {i \in DOMAIN c : c[i].blk.newLeader # NoNode}
           last == {i \in changes : \A j \in changes : j <= i}
           k == CHOOSE i \in last : TRUE
<1>1. CASE last = {}
  BY <1>1, NodesAssumption DEF ParamLeader
<1>2. CASE last # {}
  <2>1. k \in changes
    BY <1>2
  <2>2. c[k] \in Entry
    BY <2>1
  <2>3. c[k].blk.newLeader \in Validators
    BY <2>1, <2>2 DEF Entry, Block
  <2> QED BY <2>3, <1>2 DEF ParamLeader
<1> QED BY <1>1, <1>2

\* resetState keeps the chain, the leader and what waits in the channels.
LEMMA ResetFacts ==
  ASSUME NEW s \in NodeState
  PROVE  /\ ResetState(s) \in NodeState
         /\ ResetState(s).chain = s.chain
         /\ ResetState(s).leader = s.leader
         /\ ResetState(s).mode = s.mode
         /\ ResetState(s).prop = NoBlock
         /\ ResetState(s).status = "Committed"
         /\ ResetState(s).pending = s.pending
         /\ ResetState(s).leaderUpdate = NoUpdate
         /\ ResetState(s).leaderFile \in {s.leaderFile, NoUpdate}
<1> DEFINE l == Len(s.chain)
           f == IF s.leaderUpdate = NoUpdate THEN s.leaderFile ELSE NoUpdate
<1>1. s.chain \in Seq(Entry) /\ s.leaderFile \in Update \cup {NoUpdate}
  BY DEF NodeState
<1>2. l \in Nat /\ f \in Update \cup {NoUpdate} /\ f \in {s.leaderFile, NoUpdate}
  BY <1>1
<1> DEFINE t == [s EXCEPT !.prop = NoBlock, !.res = FALSE, !.votes = {},
                          !.status = "Committed", !.hasBlock = l,
                          !.leaderFile = f, !.leaderUpdate = NoUpdate]
<1>3. ResetState(s) = t
  BY DEF ResetState
<1> HIDE DEF l, f
<1>4. t \in NodeState
  BY <1>2 DEF NodeState
<1>5. /\ t.chain = s.chain /\ t.leader = s.leader /\ t.mode = s.mode
      /\ t.prop = NoBlock /\ t.status = "Committed" /\ t.pending = s.pending
      /\ t.leaderUpdate = NoUpdate /\ t.leaderFile = f
  BY DEF NodeState
<1> QED BY <1>2, <1>3, <1>4, <1>5

\* Replacing the leader field keeps a node state a node state.
LEMMA SetLeaderFacts ==
  ASSUME NEW s \in NodeState, NEW l \in Validators
  PROVE  LET u == [s EXCEPT !.leader = l] IN
         /\ u \in NodeState
         /\ u.chain = s.chain /\ u.leader = l /\ u.mode = s.mode /\ u.prop = s.prop
         /\ u.status = s.status /\ u.pending = s.pending
         /\ u.leaderUpdate = s.leaderUpdate /\ u.leaderFile = s.leaderFile
  BY DEF NodeState

\* commit appends the block and takes the leader from the parameters.
LEMMA CommitFacts ==
  ASSUME NEW s \in NodeState, NEW e \in Entry
  PROVE  /\ Commit(s, e) \in NodeState
         /\ Commit(s, e).chain = Append(s.chain, e)
         /\ Commit(s, e).leader = ParamLeader(Append(s.chain, e))
         /\ Commit(s, e).mode = s.mode
         /\ Commit(s, e).prop = NoBlock
         /\ Commit(s, e).status = "Committed"
         /\ Commit(s, e).pending = s.pending
         /\ Commit(s, e).leaderUpdate = NoUpdate
         /\ Commit(s, e).leaderFile \in {s.leaderFile, NoUpdate}
<1> DEFINE c == Append(s.chain, e)
           a == [s EXCEPT !.chain = c]
           t == ResetState(a)
           l == ParamLeader(c)
<1>1. s.chain \in Seq(Entry)
  BY DEF NodeState
<1>2. c \in Seq(Entry)
  BY <1>1
<1>3. l \in Validators
  BY <1>2, ParamLeaderType
<1> HIDE DEF c
<1>4. a \in NodeState /\ a.chain = c /\ a.mode = s.mode /\ a.pending = s.pending
                      /\ a.leaderFile = s.leaderFile
  BY <1>2 DEF NodeState
<1> HIDE DEF a
<1>5. /\ t \in NodeState /\ t.chain = c /\ t.mode = s.mode /\ t.prop = NoBlock
      /\ t.status = "Committed" /\ t.pending = s.pending
      /\ t.leaderUpdate = NoUpdate /\ t.leaderFile \in {s.leaderFile, NoUpdate}
  BY <1>4, ResetFacts
<1>6. Commit(s, e) = [t EXCEPT !.leader = l]
  BY <1>5 DEF Commit, c, a
<1> HIDE DEF t, l
<1> DEFINE u == [t EXCEPT !.leader = l]
<1>7. t \in NodeState
  BY <1>5
<1>8. /\ u \in NodeState
      /\ u.chain = t.chain /\ u.leader = l /\ u.mode = t.mode /\ u.prop = t.prop
      /\ u.status = t.status /\ u.pending = t.pending
      /\ u.leaderUpdate = t.leaderUpdate /\ u.leaderFile = t.leaderFile
  BY <1>3, <1>7, SetLeaderFacts
<1> QED BY <1>5, <1>6, <1>8 DEF c, l

\* applyLeaderUpdates touches the leader and its files only, and nothing when
\* there is no command.
LEMMA ApplyFacts ==
  ASSUME NEW s \in NodeState
  PROVE  /\ ApplyLeaderUpdates(s) \in NodeState
         /\ ApplyLeaderUpdates(s).chain = s.chain
         /\ ApplyLeaderUpdates(s).mode = s.mode
         /\ ApplyLeaderUpdates(s).prop = s.prop
         /\ ApplyLeaderUpdates(s).status = s.status
         /\ ApplyLeaderUpdates(s).pending = s.pending
         /\ s.leaderFile = NoUpdate => ApplyLeaderUpdates(s) = s
<1> DEFINE a == [s EXCEPT !.leaderFile = NoUpdate]
           f == s.leaderFile
           b == [s EXCEPT !.leader = f.cand, !.leaderUpdate = f]
<1>1. a \in NodeState /\ a.chain = s.chain /\ a.mode = s.mode /\ a.prop = s.prop
                      /\ a.status = s.status /\ a.pending = s.pending
  BY DEF NodeState
<1>2. ASSUME f # NoUpdate, f.cand \in Validators
      PROVE  /\ b \in NodeState /\ b.chain = s.chain /\ b.mode = s.mode
             /\ b.prop = s.prop /\ b.status = s.status /\ b.pending = s.pending
  <2>1. f \in Update
    BY <1>2 DEF NodeState
  <2> HIDE DEF f
  <2> QED BY <1>2, <2>1 DEF NodeState
<1>3. \/ ApplyLeaderUpdates(s) = s
      \/ ApplyLeaderUpdates(s) = a /\ f # NoUpdate
      \/ ApplyLeaderUpdates(s) = b /\ f # NoUpdate /\ f.cand \in Validators
  BY DEF ApplyLeaderUpdates
<1>4. s.leaderFile = NoUpdate => ApplyLeaderUpdates(s) = s
  BY DEF ApplyLeaderUpdates
<1> HIDE DEF a, b
<1> QED BY <1>1, <1>2, <1>3, <1>4

\* States t and s agree on everything the proofs below are about.
Alike(t, s) ==
  /\ t \in NodeState
  /\ t.chain = s.chain /\ t.leader = s.leader /\ t.prop = s.prop
  /\ t.status = s.status /\ t.pending = s.pending
  /\ t.leaderUpdate = s.leaderUpdate /\ t.leaderFile = s.leaderFile

\* A signal changes nothing but the channel.
LEMMA SignalFacts ==
  ASSUME NEW s \in NodeState, NEW n \in Nodes
  PROVE  Alike(SignalRound(n, s), s)
<1> DEFINE k == s.newRound + 1
           t == [s EXCEPT !.newRound = k]
<1>1. k \in Nat
  BY DEF NodeState
<1>2. SignalRound(n, s) \in {s, t}
  BY DEF SignalRound
<1> HIDE DEF k
<1>3. Alike(t, s)
  BY <1>1 DEF NodeState, Alike
<1>4. Alike(s, s)
  BY DEF Alike
<1> HIDE DEF t
<1> QED BY <1>2, <1>3, <1>4

\* Halting changes nothing but the mode.
LEMMA HaltFacts ==
  ASSUME NEW s \in NodeState
  PROVE  Alike(Halt(s), s)
BY DEF Halt, NodeState, Alike

\* processAndCommit commits the block or leaves the chain alone.
LEMMA ProcessFacts ==
  ASSUME NEW s \in NodeState, NEW e \in Entry
  PROVE  \/ CanProcess(s, e) /\ ProcessAndCommit(s, e) = Commit(s, e)
         \/ ~CanProcess(s, e) /\ Alike(ProcessAndCommit(s, e), s)
<1> DEFINE h == e.blk.height
           t == [s EXCEPT !.hasBlock = h]
<1>1. h \in Nat
  BY DEF Entry, Block
<1> HIDE DEF h
<1>2. Alike(t, s)
  BY <1>1 DEF NodeState, Alike
<1>3. ~CanProcess(s, e) => ProcessAndCommit(s, e) = t
  BY DEF ProcessAndCommit, h
<1> HIDE DEF t
<1> QED BY <1>2, <1>3 DEF ProcessAndCommit

\* Chain a with the blocks of c behind it up to height k.
Extended(a, c, k) == a \o SubSeq(c, Len(a) + 1, k)

\* An extended chain has length k, and each block is one of a or of c.
LEMMA ExtendFacts ==
  ASSUME NEW a \in Seq(Entry), NEW c \in Seq(Entry),
         NEW k \in Nat, k > Len(a), k <= Len(c)
  PROVE  /\ Extended(a, c, k) \in Seq(Entry)
         /\ Len(Extended(a, c, k)) = k
         /\ \A h \in 1..k : Extended(a, c, k)[h] =
                              IF h <= Len(a) THEN a[h] ELSE c[h]
<1> DEFINE i == Len(a)
           b == SubSeq(c, i + 1, k)
<1>1. i \in Nat /\ Len(c) \in Nat
  OBVIOUS
<1>2. b \in Seq(Entry) /\ Len(b) = k - i
  BY <1>1
<1>3. \A h \in 1..(k - i) : b[h] = c[i + h]
  BY <1>1
<1> HIDE DEF b
<1>4. a \o b \in Seq(Entry) /\ Len(a \o b) = k
  BY <1>1, <1>2
<1>5. ASSUME NEW h \in 1..k
      PROVE  (a \o b)[h] = IF h <= i THEN a[h] ELSE c[h]
  <2>1. CASE h <= i
    BY <1>1, <1>2, <2>1
  <2>2. CASE h > i
    <3>1. (a \o b)[h] = b[h - i]
      BY <1>1, <1>2, <2>2
    <3>2. h - i \in 1..(k - i) /\ i + (h - i) = h
      BY <1>1, <2>2
    <3>3. \A j \in 1..(k - i) : b[j] = c[i + j]
      BY <1>3
    <3>4. b[h - i] = c[i + (h - i)]
      BY <3>2, <3>3
    <3>5. b[h - i] = c[h]
      BY <3>2, <3>4
    <3> QED BY <3>1, <3>5, <1>1, <2>2
  <2>3. h <= i \/ h > i
    BY <1>1
  <2> QED BY <2>1, <2>2, <2>3
<1> QED BY <1>4, <1>5 DEF b, Extended

\* Replaying up to height k extends the chain to it and clears the proposal.
LEMMA ReplayFacts ==
  ASSUME NEW s \in NodeState, NEW c \in Seq(Entry),
         NEW k \in Nat, k > Height(s), k <= Len(c)
  PROVE  /\ Replay(s, c, k) \in NodeState
         /\ Replay(s, c, k).chain = Extended(s.chain, c, k)
         /\ Replay(s, c, k).leader = ParamLeader(Extended(s.chain, c, k))
         /\ Replay(s, c, k).prop = NoBlock
         /\ Replay(s, c, k).status = "Committed"
         /\ Replay(s, c, k).pending = s.pending
         /\ Replay(s, c, k).leaderUpdate = NoUpdate
         /\ Replay(s, c, k).leaderFile \in {s.leaderFile, NoUpdate}
<1> DEFINE d == Extended(s.chain, c, k)
           a == [s EXCEPT !.chain = d]
           t == ResetState(a)
           l == ParamLeader(d)
<1>1. s.chain \in Seq(Entry) /\ Height(s) = Len(s.chain) /\ Height(s) \in Nat
  BY DEF NodeState, Height
<1>2. d \in Seq(Entry)
  BY <1>1, ExtendFacts
<1>3. l \in Validators
  BY <1>2, ParamLeaderType
<1>4. Replay(s, c, k) = [t EXCEPT !.leader = ParamLeader(t.chain)]
  <2>1. ~(k <= Height(s))
    BY <1>1
  <2> QED BY <2>1 DEF Replay, Extended, Height
<1> HIDE DEF d
<1>5. a \in NodeState /\ a.chain = d /\ a.pending = s.pending
                      /\ a.leaderFile = s.leaderFile
  BY <1>2 DEF NodeState
<1> HIDE DEF a
<1>6. /\ t \in NodeState /\ t.chain = d /\ t.prop = NoBlock
      /\ t.status = "Committed" /\ t.pending = s.pending
      /\ t.leaderUpdate = NoUpdate /\ t.leaderFile \in {s.leaderFile, NoUpdate}
  BY <1>5, ResetFacts
<1> HIDE DEF t, l
<1> DEFINE u == [t EXCEPT !.leader = l]
<1>7. u \in NodeState
  <2>1. t \in NodeState
    BY <1>6
  <2> QED BY <1>3, <2>1 DEF NodeState
<1>8. /\ u.chain = t.chain /\ u.leader = l /\ u.prop = t.prop
      /\ u.status = t.status /\ u.pending = t.pending
      /\ u.leaderUpdate = t.leaderUpdate /\ u.leaderFile = t.leaderFile
  BY <1>6 DEF NodeState
<1>9. Replay(s, c, k) = u
  BY <1>4, <1>6 DEF l
<1> QED BY <1>6, <1>7, <1>8, <1>9 DEF l, d

\* The chain of a node that starts on chain c with a peer that has chain p.
StartChain(c, p, k) == IF k <= Len(c) THEN c ELSE Extended(c, p, k)

\* State t is idle, on chain d, under the leader of the parameters if f, the
\* leader file, commands no other.
Idle(t, f, d) ==
  /\ t \in NodeState /\ t.chain = d /\ t.prop = NoBlock
  /\ t.status = "Committed" /\ t.pending = NoBlock
  /\ f = NoUpdate => /\ t.leader = ParamLeader(d)
                     /\ t.leaderFile = NoUpdate
                     /\ t.leaderUpdate = NoUpdate

\* A node starts idle, on its disk's chain or on what its peers added to it.
LEMMA StartFacts ==
  ASSUME NEW n \in Nodes, NEW c \in Seq(Entry), NEW f \in Update \cup {NoUpdate},
         NEW p \in Seq(Entry), NEW k \in Nat, k <= Len(c) \/ k <= Len(p)
  PROVE  Idle(Start(n, c, f, p, k), f, StartChain(c, p, k))
<1> DEFINE d == StartChain(c, p, k)
           t == Start(n, c, f, p, k)
<1>0. d = IF k <= Len(c) THEN c ELSE Extended(c, p, k)
  BY DEF StartChain
<1> HIDE DEF d
<1> DEFINE l == ParamLeader(c)
           w == Len(c)
           s == [chain |-> c, leaderFile |-> f, mode |-> "run",
                 leader |-> l, prop |-> NoBlock, res |-> FALSE,
                 status |-> "Committed", votes |-> {}, leaderUpdate |-> NoUpdate,
                 hasBlock |-> w, pending |-> NoBlock, newRound |-> 0,
                 newProposal |-> 0, catchup |-> NoCatchup, reset |-> 0]
           r == Replay(s, p, k)
           u == ApplyLeaderUpdates(r)
           v == [u EXCEPT !.newProposal = 1]
<1>1. l \in Validators /\ w \in Nat
  BY ParamLeaderType
<1>2. t \in {u, v}
  BY DEF Start
<1> HIDE DEF t
<1>3. l = ParamLeader(c) /\ w = Len(c)
  OBVIOUS
<1> HIDE DEF l, w
<1>4. /\ s \in NodeState /\ s.chain = c /\ s.prop = NoBlock
      /\ s.status = "Committed" /\ s.pending = NoBlock /\ s.leader = l
      /\ s.leaderFile = f /\ s.leaderUpdate = NoUpdate
  BY <1>1 DEF NodeState
<1> HIDE DEF s
<1>5. /\ r \in NodeState /\ r.chain = d /\ r.prop = NoBlock
      /\ r.status = "Committed" /\ r.pending = NoBlock
      /\ r.leader = ParamLeader(d) /\ r.leaderUpdate = NoUpdate
      /\ r.leaderFile \in {f, NoUpdate}
  <2>0. Height(s) = w
    BY <1>3, <1>4 DEF Height
  <2>1. CASE k <= w
    <3>1. r = s /\ d = c
      BY <1>0, <2>0, <2>1, <1>3 DEF Replay
    <3> QED BY <1>3, <1>4, <3>1
  <2>2. CASE k > w
    <3>1. k > Height(s) /\ k <= Len(p) /\ d = Extended(s.chain, p, k)
      BY <1>0, <1>1, <1>3, <1>4, <2>0, <2>2
    <3>2. /\ s.pending = NoBlock /\ s.leaderFile = f
      BY <1>4
    <3> HIDE DEF r
    <3>3. r = Replay(s, p, k)
      BY DEF r
    <3>4. /\ r \in NodeState /\ r.chain = d /\ r.prop = NoBlock
          /\ r.leader = ParamLeader(d)
          /\ r.status = "Committed" /\ r.pending = s.pending
          /\ r.leaderUpdate = NoUpdate /\ r.leaderFile \in {s.leaderFile, NoUpdate}
      <4>1. s \in NodeState
        BY <1>4
      <4> QED BY <4>1, <3>1, <3>3, ReplayFacts
    <3> QED BY <3>2, <3>4
  <2> QED BY <1>1, <2>1, <2>2
<1> HIDE DEF r
<1>6. /\ u \in NodeState /\ u.chain = d /\ u.prop = NoBlock
      /\ u.status = "Committed" /\ u.pending = NoBlock
      /\ f = NoUpdate => u = r
  BY <1>5, ApplyFacts
<1> HIDE DEF u
<1>7. Alike(v, u)
  BY <1>6 DEF NodeState, Alike
<1> HIDE DEF v
<1>8. Idle(t, f, d)
  BY <1>2, <1>5, <1>6, <1>7 DEF Alike, Idle
<1> QED BY <1>8 DEF t, d

-----------------------------------------------------------------------------
(* The two things a step can do to a node that holds no new block          *)

\* From s to t the chain stays, the proposal stays or goes, and the leader
\* stays unless a command was there to change it.
Kept(t, s) ==
  /\ t \in NodeState
  /\ t.chain = s.chain
  /\ t.pending \in {s.pending, NoBlock}
  /\ t.prop \in {s.prop, NoBlock}
  /\ t.status = "Proposed" => s.status = "Proposed" /\ t.prop = s.prop
  /\ s.leaderFile = NoUpdate => t.leaderFile = NoUpdate /\ t.leader = s.leader
  /\ s.leaderFile = NoUpdate /\ s.leaderUpdate = NoUpdate
       => t.leaderUpdate = NoUpdate

\* From s to t the chain became d, the proposal went, and the leader is the one
\* of the parameters unless a command was there to change it.
Grown(t, s, d) ==
  /\ t \in NodeState
  /\ t.chain = d
  /\ t.pending \in {s.pending, NoBlock}
  /\ t.prop = NoBlock
  /\ t.status # "Proposed"
  /\ s.leaderFile = NoUpdate => /\ t.leaderFile = NoUpdate
                                /\ t.leader = ParamLeader(d)
                                /\ t.leaderUpdate = NoUpdate

\* A change the proofs do not see keeps everything.
LEMMA AlikeKept ==
  ASSUME NEW t, NEW s, Alike(t, s)
  PROVE  Kept(t, s)
BY DEF Alike, Kept

\* No change keeps everything.
LEMMA KeptRefl ==
  ASSUME NEW s \in NodeState
  PROVE  Kept(s, s)
BY DEF Kept

\* Two steps that keep everything make one.
LEMMA KeptTrans ==
  ASSUME NEW s, NEW t, NEW u, Kept(t, s), Kept(u, t)
  PROVE  Kept(u, s)
BY DEF Kept

\* A chain that grows after a step that kept it has grown.
LEMMA KeptGrown ==
  ASSUME NEW s, NEW t, NEW u, NEW d, Kept(t, s), Grown(u, t, d)
  PROVE  Grown(u, s, d)
BY DEF Kept, Grown

\* A chain that is kept after it grew has grown.
LEMMA GrownKept ==
  ASSUME NEW s, NEW t, NEW u, NEW d, Grown(t, s, d), Kept(u, t)
  PROVE  Grown(u, s, d)
BY DEF Kept, Grown

\* resetState and rollbackState keep the chain.
LEMMA ResetKept ==
  ASSUME NEW s \in NodeState
  PROVE  Kept(ResetState(s), s) /\ Kept(RollbackState(s), s)
BY ResetFacts DEF Kept, RollbackState

\* applyLeaderUpdates keeps the chain.
LEMMA ApplyKept ==
  ASSUME NEW s \in NodeState
  PROVE  Kept(ApplyLeaderUpdates(s), s)
BY ApplyFacts DEF Kept

\* commit grows the chain by its block.
LEMMA CommitGrown ==
  ASSUME NEW s \in NodeState, NEW e \in Entry
  PROVE  Grown(Commit(s, e), s, Append(s.chain, e))
BY CommitFacts DEF Grown

\* A replay grows the chain by the blocks of the peer.
LEMMA ReplayGrown ==
  ASSUME NEW s \in NodeState, NEW c \in Seq(Entry),
         NEW k \in Nat, k > Height(s), k <= Len(c)
  PROVE  Grown(Replay(s, c, k), s, Extended(s.chain, c, k))
BY ReplayFacts DEF Grown

\* processAndCommit on the state s, or on s rolled back.
LEMMA ProcessKeptGrown ==
  ASSUME NEW s, NEW r \in NodeState, Kept(r, s), NEW e \in Entry
  PROVE  \/ Kept(ProcessAndCommit(r, e), s)
         \/ /\ e.blk.height = Len(s.chain) + 1
            /\ Grown(ProcessAndCommit(r, e), s, Append(s.chain, e))
<1>1. r.chain = s.chain
  BY DEF Kept
<1>2. CASE CanProcess(r, e) /\ ProcessAndCommit(r, e) = Commit(r, e)
  <2>1. e.blk.height = Len(s.chain) + 1
    BY <1>1, <1>2 DEF CanProcess, ValidBlock, Height
  <2>2. Grown(Commit(r, e), s, Append(s.chain, e))
    BY <1>1, CommitGrown, KeptGrown
  <2> QED BY <1>2, <2>1, <2>2
<1>3. CASE Alike(ProcessAndCommit(r, e), r)
  BY <1>3, AlikeKept, KeptTrans
<1> QED BY <1>2, <1>3, ProcessFacts

\* processCurrentBlock commits the block of c at the proposal's height or
\* leaves the chain alone.
LEMMA CurrentKeptGrown ==
  ASSUME NEW n \in Nodes, NEW s \in NodeState, NEW c \in Seq(Entry),
         Waiting(n, s) => /\ s.prop.height = Len(s.chain) + 1
                          /\ s.prop.height <= Len(c),
         NEW t, t = ProcessCurrentBlock(n, s, c)
  PROVE  \/ Kept(t, s)
         \/ /\ Len(c) > Len(s.chain)
            /\ Grown(t, s, Append(s.chain, c[Len(s.chain) + 1]))
<1> DEFINE h == Len(s.chain) + 1
           e == c[h]
           r == RollbackState(s)
           u == IF e.blk = s.prop THEN Commit(s, e) ELSE ProcessAndCommit(r, e)
<1>1. CASE ~Waiting(n, s)
  BY <1>1, KeptRefl DEF ProcessCurrentBlock
<1>2. CASE Waiting(n, s)
  <2>1. Len(s.chain) \in Nat /\ Len(c) \in Nat
    BY DEF NodeState
  <2>2. h \in 1..Len(c)
    BY <1>2, <2>1
  <2>3. e \in Entry
    BY <2>2
  <2>4. t = u \/ t = Halt(u)
    BY <1>2 DEF ProcessCurrentBlock
  <2>5. Kept(r, s) /\ r \in NodeState
    BY ResetKept DEF Kept
  <2> HIDE DEF e, r
  <2>6. Kept(u, s) \/ Grown(u, s, Append(s.chain, e))
    <3>1. Grown(Commit(s, e), s, Append(s.chain, e))
      BY <2>3, CommitGrown
    <3>2. \/ Kept(ProcessAndCommit(r, e), s)
          \/ Grown(ProcessAndCommit(r, e), s, Append(s.chain, e))
      BY <2>3, <2>5, ProcessKeptGrown
    <3> QED BY <3>1, <3>2
  <2> HIDE DEF u
  <2>7. u \in NodeState
    BY <2>6 DEF Kept, Grown
  <2>8. Kept(t, u)
    BY <2>4, <2>7, HaltFacts, AlikeKept, KeptRefl
  <2>9. Kept(t, s) \/ Grown(t, s, Append(s.chain, e))
    BY <2>6, <2>8, KeptTrans, GrownKept
  <2>10. Len(c) > Len(s.chain)
    BY <2>1, <2>2
  <2> QED BY <2>9, <2>10 DEF e
<1> QED BY <1>1, <1>2

-----------------------------------------------------------------------------
(* The inductive invariant of the types                                    *)

\* The proposal a node holds extends its chain, and a node that executes a
\* block has one.  Without it the types of the votes and announcements sent
\* after the execution do not follow.
PropFits(s) ==
  /\ s.status = "Proposed" => s.prop # NoBlock
  /\ s.prop # NoBlock => s.prop.height = Len(s.chain) + 1
                         /\ s.prop.prev = LastId(s)

\* The block at index h of a chain is one of height h: every way to commit a
\* block compares its height with the last commit.
HeightsOK(c) == \A h \in 1..Len(c) : c[h].blk.height = h

NodesOK ==
  /\ node \in [Nodes -> NodeState]
  /\ \A n \in Nodes : PropFits(node[n]) /\ HeightsOK(node[n].chain)

\* The finite set of proposals gives every new block its identity.
NetOK ==
  /\ proposals \subseteq Block
  /\ IsFiniteSet(proposals)
  /\ acks \subseteq Ack
  /\ nacks \subseteq Nack
  /\ anns \subseteq Entry
  /\ resets \subseteq Reset
  /\ used \in Used

TypeInv == NodesOK /\ NetOK

\* Well-formed nodes, one by one.
LEMMA NodeOK ==
  ASSUME TypeInv, NEW n \in Nodes
  PROVE  /\ node[n] \in NodeState
         /\ node[n].chain \in Seq(Entry)
         /\ Height(node[n]) \in Nat
         /\ Len(node[n].chain) \in Nat
         /\ PropFits(node[n])
         /\ HeightsOK(node[n].chain)
         /\ node[n].prop \in Block \cup {NoBlock}
         /\ node[n].pending \in Block \cup {NoBlock}
         /\ node[n].status = "Proposed" => node[n].prop \in Block
<1>1. node[n] \in NodeState
  BY DEF TypeInv, NodesOK
<1>2. /\ node[n].chain \in Seq(Entry) /\ node[n].prop \in Block \cup {NoBlock}
      /\ node[n].pending \in Block \cup {NoBlock}
  BY <1>1 DEF NodeState
<1>3. Height(node[n]) \in Nat /\ Len(node[n].chain) \in Nat
  BY <1>2 DEF Height
<1>4. PropFits(node[n]) /\ HeightsOK(node[n].chain)
  BY DEF TypeInv, NodesOK
<1>5. node[n].status = "Proposed" => node[n].prop # NoBlock
  BY <1>4 DEF PropFits
<1> QED BY <1>1, <1>2, <1>3, <1>4, <1>5

-----------------------------------------------------------------------------
(* The kinds of steps                                                      *)

\* Votes, nacks, resets and the bounds stay well-formed.
SmallNet ==
  acks' \subseteq Ack /\ nacks' \subseteq Nack /\ resets' \subseteq Reset
                      /\ used' \in Used

\* Node n keeps its chain and gets no block.
Stay(n) ==
  /\ \E t \in NodeState : Become(n, t) /\ Kept(t, node[n])
  /\ UNCHANGED <<proposals, anns>>
  /\ SmallNet

\* Chain d is chain a, then blocks of chain c.
Grows(d, a, c) ==
  /\ d \in Seq(Entry)
  /\ Len(d) >= Len(a)
  /\ Len(d) > Len(a) => Len(d) <= Len(c)
  /\ \A h \in 1..Len(d) : d[h] = IF h <= Len(a) THEN a[h] ELSE c[h]

\* Node n commits blocks it fetches from node m, or starts again.
Copy(n) ==
  /\ \E t \in NodeState, m \in Nodes, d \in Seq(Entry) :
       /\ Become(n, t) /\ Grown(t, node[n], d)
       /\ Grows(d, node[n].chain, node[m].chain)
  /\ UNCHANGED <<proposals, anns>>
  /\ SmallNet

\* Node n commits an announced block.
Learn(n) ==
  /\ \E t \in NodeState, e \in anns :
       /\ Become(n, t) /\ Grown(t, node[n], Append(node[n].chain, e))
       /\ e.blk.height = Len(node[n].chain) + 1
  /\ UNCHANGED <<proposals, anns>>
  /\ SmallNet

\* The leader n has v's vote for its proposal: its own, one that it has counted
\* before or one that has just come in.
Backed(n, v) ==
  \/ v = node[n].prop.by
  \/ [from |-> v, ack |-> TRUE] \in node[n].votes
  \/ [from |-> v, blk |-> node[n].prop, ack |-> TRUE] \in acks

\* Node n commits its own proposal on a majority and announces it.
Decide(n) ==
  /\ \E t \in NodeState, e \in Entry :
       /\ Become(n, t) /\ Grown(t, node[n], Append(node[n].chain, e))
       /\ e.blk = node[n].prop
       /\ n \in {node[n].leader, node[n].prop.by}
       /\ anns' = anns \cup {e}
       /\ HasMajority(Cardinality(e.votes)) /\ \A v \in e.votes : Backed(n, v)
  /\ Running(n) /\ node[n].prop # NoBlock
  /\ UNCHANGED proposals
  /\ SmallNet

\* The leader n makes a new block.
Make(n) ==
  /\ \E t \in NodeState, x \in Nat :
       LET b == NewBlock(n, node[n], x) IN
       /\ Become(n, t)
       /\ Alike(t, [node[n] EXCEPT !.prop = b, !.status = "Proposed"])
       /\ proposals' = proposals \cup {b}
  /\ node[n].leader = n
  /\ UNCHANGED anns
  /\ SmallNet

\* Node n starts to execute the proposal it has accepted.
Adopt(n) ==
  /\ \E t \in NodeState, r \in NodeState :
       /\ Become(n, t)
       /\ Kept(r, node[n])
       /\ Alike(t, [r EXCEPT !.prop = node[n].pending, !.status = "Proposed"])
       /\ PropFits(t)
  /\ node[n].pending # NoBlock
  /\ UNCHANGED <<proposals, anns>>
  /\ SmallNet

\* Node n accepts a proposal.
Receive(n) ==
  /\ \E t \in NodeState, b \in proposals :
       Become(n, t) /\ Alike(t, [node[n] EXCEPT !.pending = b])
  /\ UNCHANGED <<proposals, anns>>
  /\ SmallNet

\* The operator of node n commands another leader.
Command(n) ==
  /\ used.promote < MaxPromote
  /\ \E t \in NodeState, f \in Update :
       Become(n, t) /\ Alike(t, [node[n] EXCEPT !.leaderFile = f])
  /\ UNCHANGED <<proposals, anns>>
  /\ SmallNet

\* Node n comes back with an older disk.
Lose(n) ==
  /\ used.loss < MaxLoss
  /\ \E t \in NodeState, m \in Nodes, c, d \in Seq(Entry) :
       /\ Become(n, t) /\ Grown(t, node[n], d)
       /\ HeightsOK(c) /\ Grows(d, c, node[m].chain)
       /\ Len(c) <= Len(node[n].chain)
       /\ \A h \in 1..Len(c) : c[h] = node[n].chain[h]
  /\ UNCHANGED <<proposals, anns>>
  /\ SmallNet

Kinds(n) == \/ Stay(n) \/ Copy(n) \/ Learn(n) \/ Decide(n) \/ Make(n)
            \/ Adopt(n) \/ Receive(n) \/ Command(n) \/ Lose(n)

-----------------------------------------------------------------------------
(* Each action is a step of one of these kinds                             *)

\* A step that sends nothing leaves the network well-formed.
LEMMA QuietNet ==
  ASSUME TypeInv, UNCHANGED <<net, used>>
  PROVE  SmallNet /\ UNCHANGED <<proposals, anns>>
BY DEF TypeInv, NetOK, net, SmallNet

\* newRound: a signal moves on and commands are applied.
LEMMA NewRoundKind ==
  ASSUME TypeInv, NEW n \in Nodes, NewRound(n)
  PROVE  Stay(n)
<1> DEFINE s == node[n]
           k == s.newRound - 1
           r == [s EXCEPT !.newRound = k]
           a == ApplyLeaderUpdates(r)
           p == a.newProposal + 1
           b == [a EXCEPT !.newProposal = p]
<1>1. s \in NodeState
  BY NodeOK
<1>2. k \in Nat
  BY <1>1 DEF NewRound, NodeState
<1>3. Become(n, a) \/ Become(n, b)
  BY DEF NewRound
<1> HIDE DEF k
<1>4. Alike(r, s)
  BY <1>1, <1>2 DEF NodeState, Alike
<1> HIDE DEF r
<1>5. Kept(a, r)
  BY <1>4, ApplyKept DEF Alike
<1> HIDE DEF a
<1>6. a \in NodeState
  BY <1>5 DEF Kept
<1>7. p \in Nat
  BY <1>6 DEF NodeState
<1> HIDE DEF p
<1>8. Alike(b, a)
  BY <1>6, <1>7 DEF NodeState, Alike
<1> HIDE DEF b, s
<1>9. Kept(a, s) /\ Kept(b, s)
  BY <1>4, <1>5, <1>8, AlikeKept, KeptTrans
<1>10. \E t \in NodeState : Become(n, t) /\ Kept(t, s)
  BY <1>3, <1>9 DEF Kept
<1> QED BY <1>10, QuietNet DEF Stay, NewRound, s

\* A stale signal is dropped.
LEMMA DropNewProposalKind ==
  ASSUME TypeInv, NEW n \in Nodes, DropNewProposal(n)
  PROVE  Stay(n)
<1> DEFINE s == node[n]
           k == s.newProposal - 1
           t == [s EXCEPT !.newProposal = k]
<1>1. s \in NodeState
  BY NodeOK
<1>2. k \in Nat
  BY <1>1 DEF DropNewProposal, NodeState
<1>3. Become(n, t)
  BY DEF DropNewProposal
<1> HIDE DEF k
<1>4. Alike(t, s)
  BY <1>1, <1>2 DEF NodeState, Alike
<1> HIDE DEF t
<1>5. t \in NodeState /\ Kept(t, s)
  BY <1>4, AlikeKept DEF Alike
<1> QED BY <1>3, <1>5, QuietNet DEF Stay, DropNewProposal

\* A new block is a block that extends the chain.
LEMMA NewBlockFacts ==
  ASSUME TypeInv, NEW n \in Validators, NEW s \in NodeState, NEW x \in Nat
  PROVE  /\ NewBlock(n, s, x) \in Block
         /\ NewBlock(n, s, x).height = Len(s.chain) + 1
         /\ NewBlock(n, s, x).prev = LastId(s)
         /\ NewBlock(n, s, x).by = n
         /\ s.leaderUpdate = NoUpdate => NewBlock(n, s, x).newLeader = NoNode
<1> DEFINE i == Cardinality(proposals) + 1
           h == Height(s) + 1
           d == LastId(s)
           l == IF s.leaderUpdate = NoUpdate THEN NoNode ELSE s.leaderUpdate.cand
<1>1. i \in Nat
  BY FS_CardinalityType DEF TypeInv, NetOK
<1>2. /\ s.chain \in Seq(Entry)
      /\ s.leaderUpdate # NoUpdate => s.leaderUpdate.cand \in Validators
  BY DEF NodeState
<1>3. h \in Nat \ {0} /\ h = Len(s.chain) + 1
  BY <1>2 DEF Height
<1>4. d \in Nat
  <2>1. s.chain # <<>> => s.chain[Len(s.chain)] \in Entry
    BY <1>2
  <2> QED BY <2>1 DEF LastId, Entry, Block
<1>5. l \in Validators \cup {NoNode}
  BY <1>2
<1>6. NewBlock(n, s, x) = [id |-> i, height |-> h, stamp |-> x, prev |-> d,
                           by |-> n, newLeader |-> l]
  BY DEF NewBlock
<1> HIDE DEF i, h, l
<1>7. [id |-> i, height |-> h, stamp |-> x, prev |-> d, by |-> n, newLeader |-> l] \in Block
  BY <1>1, <1>3, <1>4, <1>5 DEF Block
<1> QED BY <1>3, <1>6, <1>7 DEF l

\* proposeBlock makes a block.
LEMMA ProposeBlockKind ==
  ASSUME TypeInv, NEW n \in Nodes, ProposeBlock(n)
  PROVE  Make(n)
<1> DEFINE s == node[n]
           k == s.newProposal - 1
<1>1. s \in NodeState /\ n \in Validators
  BY NodeOK DEF ProposeBlock, Role, NodeState
<1>2. k \in Nat
  BY <1>1 DEF ProposeBlock, NodeState
<1>3. PICK x \in Stamps(s) :
        LET b == NewBlock(n, s, x)
            p == [s EXCEPT !.newProposal = k, !.prop = b, !.status = "Proposed"]
        IN  /\ proposals' = proposals \cup {b}
            /\ Become(n, IF s.prop # NoBlock /\ s.res THEN Halt(p) ELSE p)
  BY DEF ProposeBlock
<1> DEFINE b == NewBlock(n, s, x)
           p == [s EXCEPT !.newProposal = k, !.prop = b, !.status = "Proposed"]
           q == [s EXCEPT !.prop = b, !.status = "Proposed"]
<1>4. x \in Nat
  BY BoundsAssumption DEF Stamps
<1>5. b \in Block
  BY <1>1, <1>4, NewBlockFacts
<1>6. /\ proposals' = proposals \cup {b}
      /\ Become(n, Halt(p)) \/ Become(n, p)
  BY <1>3
<1> HIDE DEF k, b
<1>7. Alike(p, q)
  BY <1>1, <1>2, <1>5 DEF NodeState, Alike
<1> HIDE DEF p, q
<1>8. Alike(Halt(p), q)
  BY <1>7, HaltFacts DEF Alike
<1>9. \E t \in NodeState : Become(n, t) /\ Alike(t, q)
  BY <1>6, <1>7, <1>8 DEF Alike
<1>10. n = s.leader
  BY DEF ProposeBlock, Role
<1>11. SmallNet /\ UNCHANGED anns
  BY DEF ProposeBlock, SmallNet, TypeInv, NetOK
<1> QED BY <1>4, <1>6, <1>9, <1>10, <1>11 DEF Make, b, q

\* processVotes on a state that is the node's but for the votes: the node
\* stays as it is or commits its proposal.
LEMMA ProcessVotesKind ==
  ASSUME TypeInv, NEW n \in Nodes, NEW s \in NodeState,
         Kept(s, node[n]), s.prop \in Block, s.prop = node[n].prop,
         n \in {node[n].leader, node[n].prop.by},
         Running(n), \A v \in s.votes : v.ack => Backed(n, v.from),
         ProcessVotes(n, s), UNCHANGED <<proposals, acks, nacks, resets, used>>
  PROVE  Stay(n) \/ Decide(n)
<1> DEFINE e == CommitEntry(s)
           c == Commit(s, e)
           r == SignalRound(n, c)
<1>1. e \in Entry /\ e.blk = s.prop
  <2>1. s.votes \subseteq Vote
    BY DEF NodeState
  <2>2. Acked(s) \subseteq Validators
    BY <2>1 DEF Acked, Vote
  <2> QED BY <2>2 DEF CommitEntry, Entry
<1>2. \/ anns' = anns /\ (Become(n, Halt(s)) \/ Become(n, s))
      \/ anns' = anns \cup {e} /\ Become(n, r) /\ Decided(s)
  BY DEF ProcessVotes, Decided
<1>10. /\ Decided(s) => HasMajority(Cardinality(e.votes))
       /\ \A v \in e.votes : Backed(n, v)
  BY DEF Decided, CommitEntry, Acked
<1> HIDE DEF e
<1>3. Grown(c, node[n], Append(node[n].chain, e))
  <2>1. Grown(c, s, Append(s.chain, e))
    BY <1>1, CommitGrown
  <2>2. Grown(c, node[n], Append(s.chain, e))
    BY <2>1, KeptGrown
  <2> QED BY <2>2 DEF Kept
<1> HIDE DEF c
<1>4. c \in NodeState
  BY <1>3 DEF Grown
<1>5. Grown(r, node[n], Append(node[n].chain, e))
  BY <1>3, <1>4, SignalFacts, AlikeKept, GrownKept
<1> HIDE DEF r
<1>6. Kept(Halt(s), node[n])
  BY HaltFacts, AlikeKept, KeptTrans
<1>7. SmallNet
  BY DEF SmallNet, TypeInv, NetOK
<1>8. CASE anns' = anns /\ (Become(n, Halt(s)) \/ Become(n, s))
  <2>1. \E t \in NodeState : Become(n, t) /\ Kept(t, node[n])
    BY <1>6, <1>8 DEF Kept
  <2> QED BY <1>7, <1>8, <2>1 DEF Stay
<1>9. CASE anns' = anns \cup {e} /\ Become(n, r) /\ Decided(s)
  <2>1. r \in NodeState
    BY <1>5 DEF Grown
  <2>2. node[n].prop # NoBlock
    BY NilAssumption
  <2> QED BY <1>1, <1>5, <1>7, <1>9, <1>10, <2>1, <2>2 DEF Decide
<1> QED BY <1>2, <1>8, <1>9

\* proposeBlock's own vote.
LEMMA FinishProposalKind ==
  ASSUME TypeInv, NEW n \in Nodes, FinishProposal(n)
  PROVE  Stay(n) \/ Decide(n)
<1> DEFINE s == node[n]
           v == s.votes \cup {[from |-> n, ack |-> TRUE]}
           t == [s EXCEPT !.status = "Executed", !.res = TRUE, !.votes = v]
<1>1. s \in NodeState /\ s.prop \in Block /\ n \in Validators
  BY NodeOK DEF FinishProposal, Executing, Block
<1>2. v \in SUBSET Vote
  <2>1. s.votes \subseteq Vote
    BY <1>1 DEF NodeState
  <2>2. [from |-> n, ack |-> TRUE] \in Vote
    BY <1>1 DEF Vote
  <2> QED BY <2>1, <2>2
<1>3. ProcessVotes(n, t)
  BY DEF FinishProposal
<1>7. \A w \in v : w.ack => Backed(n, w.from)
  <2>1. ASSUME NEW w \in s.votes, w.ack PROVE Backed(n, w.from)
    <3>1. w = [from |-> w.from, ack |-> TRUE]
      BY <1>1, <2>1 DEF NodeState, Vote
    <3> QED BY <2>1, <3>1 DEF Backed
  <2>2. Backed(n, n)
    BY DEF Backed, FinishProposal
  <2> QED BY <2>1, <2>2
<1> HIDE DEF v
<1>4. t \in NodeState /\ t.prop = s.prop /\ t.votes = v
  BY <1>1, <1>2 DEF NodeState
<1>5. Kept(t, s)
  <2>1. t \in NodeState
    BY <1>4
  <2> QED BY <1>1, <2>1 DEF NodeState, Kept
<1> HIDE DEF t
<1>6. UNCHANGED <<proposals, acks, nacks, resets, used>> /\ s.prop.by = n /\ Running(n)
  BY DEF FinishProposal
<1> QED BY <1>1, <1>3, <1>4, <1>5, <1>6, <1>7, ProcessVotesKind

\* addVote.
LEMMA AddVoteKind ==
  ASSUME TypeInv, NEW n \in Nodes, NEW a \in acks, AddVote(n, a)
  PROVE  Stay(n) \/ Decide(n)
<1> DEFINE s == node[n]
           v == s.votes \cup {[from |-> a.from, ack |-> a.ack]}
           t == [s EXCEPT !.votes = v]
<1>1. s \in NodeState
  BY NodeOK
<1>2. a \in Ack
  BY DEF TypeInv, NetOK
<1>3. s.prop \in Block
  BY <1>2 DEF AddVote, Ack
<1>4. v \in SUBSET Vote
  <2>1. s.votes \subseteq Vote
    BY <1>1 DEF NodeState
  <2>2. [from |-> a.from, ack |-> a.ack] \in Vote
    BY <1>2 DEF Vote, Ack, AddVote
  <2> QED BY <2>1, <2>2
<1>5. ProcessVotes(n, t)
  BY DEF AddVote
<1>9. \A w \in v : w.ack => Backed(n, w.from)
  <2>1. ASSUME NEW w \in s.votes, w.ack PROVE Backed(n, w.from)
    <3>1. w = [from |-> w.from, ack |-> TRUE]
      BY <1>1, <2>1 DEF NodeState, Vote
    <3> QED BY <2>1, <3>1 DEF Backed
  <2>2. ASSUME a.ack PROVE Backed(n, a.from)
    <3>1. a = [from |-> a.from, blk |-> s.prop, ack |-> TRUE]
      BY <1>2, <2>2 DEF Ack, AddVote
    <3> QED BY <3>1 DEF Backed
  <2> QED BY <2>1, <2>2
<1> HIDE DEF v
<1>10. t.votes = v
  BY <1>1 DEF NodeState
<1>6. Alike(t, s)
  BY <1>1, <1>4 DEF NodeState, Alike
<1> HIDE DEF t
<1>7. Kept(t, s) /\ t \in NodeState /\ t.prop = s.prop
  BY <1>6, AlikeKept DEF Alike
<1>8. UNCHANGED <<proposals, acks, nacks, resets, used>> /\ s.leader = n /\ Running(n)
  BY DEF AddVote, Role, Ready
<1> QED BY <1>3, <1>5, <1>7, <1>8, <1>9, <1>10, ProcessVotesKind

\* CancelBlockExecution rolls back or leaves the proposal there.
LEMMA CancelBlockExecutionKind ==
  ASSUME TypeInv, NEW n \in Nodes, CancelBlockExecution(n)
  PROVE  Stay(n)
<1> DEFINE s == node[n]
           r == RollbackState(s)
           k == r.newProposal + 1
           a == [r EXCEPT !.newProposal = k]
           b == [s EXCEPT !.status = "Executed"]
<1>1. s \in NodeState /\ Height(s) \in Nat
  BY NodeOK
<1>2. \/ Become(n, a) /\ resets' = resets \cup {[from |-> n, height |-> Height(s)]}
      \/ Become(n, b) /\ resets' = resets
  BY DEF CancelBlockExecution
<1>3. resets' \subseteq Reset
  BY <1>1, <1>2 DEF TypeInv, NetOK, Reset
<1>4. Kept(r, s)
  BY <1>1, ResetKept
<1> HIDE DEF r
<1>5. r \in NodeState /\ k \in Nat
  BY <1>4 DEF Kept, NodeState
<1> HIDE DEF k
<1>6. Alike(a, r)
  BY <1>5 DEF NodeState, Alike
<1>7. Kept(b, s)
  BY <1>1 DEF NodeState, Kept
<1> HIDE DEF a, b
<1>8. Kept(a, s)
  BY <1>4, <1>6, AlikeKept, KeptTrans
<1>9. \E t \in NodeState : Become(n, t) /\ Kept(t, s)
  BY <1>2, <1>7, <1>8 DEF Kept
<1>10. used' \in Used
  BY DEF TypeInv, NetOK, CancelBlockExecution, Used
<1>11. SmallNet /\ UNCHANGED <<proposals, anns>>
  BY <1>3, <1>10 DEF SmallNet, TypeInv, NetOK, CancelBlockExecution
<1> QED BY <1>9, <1>11 DEF Stay

\* doCatchup of a leader.
LEMMA LeaderCatchupKind ==
  ASSUME TypeInv, NEW n \in Nodes, LeaderCatchup(n)
  PROVE  Stay(n)
<1> DEFINE t == ApplyLeaderUpdates(node[n])
<1>1. Kept(t, node[n])
  BY NodeOK, ApplyKept
<1>2. Become(n, t)
  BY DEF LeaderCatchup
<1> HIDE DEF t
<1>3. t \in NodeState
  BY <1>1 DEF Kept
<1> QED BY <1>1, <1>2, <1>3, QuietNet DEF Stay, LeaderCatchup

\* beginOutOfSyncCatchup marks the catch-up.
LEMMA BeginCatchupKind ==
  ASSUME TypeInv, NEW n \in Nodes, NEW x \in nacks, BeginCatchup(n, x)
  PROVE  Stay(n)
<1> DEFINE s == node[n]
           h == x.best.height
           k == Height(s) + 1
           q == s.prop
           old == [s.catchup EXCEPT !.end = h]
           new == [blk |-> q, next |-> k, end |-> h, stage |-> "probe"]
           a == [s EXCEPT !.catchup = old]
           b == [s EXCEPT !.catchup = new]
<1>1. s \in NodeState /\ Height(s) \in Nat
  BY NodeOK
<1>2. x \in Nack
  BY DEF TypeInv, NetOK
<1>3. h \in Nat /\ q \in Block /\ k \in Nat \ {0}
  BY <1>1, <1>2 DEF Nack, Block, BeginCatchup
<1>4. \/ Become(n, a) /\ s.catchup \in CatchupRun
      \/ Become(n, b)
  <2>1. s.catchup \in CatchupRun \cup {NoCatchup}
    BY <1>1 DEF NodeState
  <2> QED BY <2>1 DEF BeginCatchup
<1> HIDE DEF h, q, k
<1>5. new \in CatchupRun
  BY <1>3 DEF CatchupRun
<1>6. s.catchup \in CatchupRun => old \in CatchupRun
  BY <1>3 DEF CatchupRun
<1> HIDE DEF new, old
<1>7. new \in CatchupRun => Alike(b, s)
  BY <1>1 DEF NodeState, Alike
<1>8. old \in CatchupRun => Alike(a, s)
  BY <1>1 DEF NodeState, Alike
<1> HIDE DEF a, b
<1>9. \E t \in NodeState : Become(n, t) /\ Kept(t, s)
  BY <1>4, <1>5, <1>6, <1>7, <1>8, AlikeKept DEF Alike
<1> QED BY <1>9, QuietNet DEF Stay, BeginCatchup

\* catchUpFromOutOfSync gives up or rolls the proposal back.
LEMMA ProbeCatchupKind ==
  ASSUME TypeInv, NEW n \in Nodes, ProbeCatchup(n)
  PROVE  Stay(n)
<1> DEFINE s == node[n]
           r == RollbackState(s)
           d == [r.catchup EXCEPT !.stage = "sync"]
           a == [r EXCEPT !.catchup = d]
           b == [s EXCEPT !.catchup = NoCatchup]
<1>1. s \in NodeState
  BY NodeOK
<1>2. Become(n, a) \/ Become(n, b)
  BY DEF ProbeCatchup
<1>3. r.catchup = s.catchup
  BY <1>1 DEF RollbackState, ResetState, NodeState
<1>4. s.catchup \in CatchupRun
  BY <1>1 DEF NodeState, ProbeCatchup
<1>5. Kept(r, s)
  BY <1>1, ResetKept
<1> HIDE DEF r
<1>6. d \in CatchupRun
  BY <1>3, <1>4 DEF CatchupRun
<1> HIDE DEF d
<1>7. Alike(a, r)
  <2>1. r \in NodeState
    BY <1>5 DEF Kept
  <2> QED BY <1>6, <2>1 DEF NodeState, Alike
<1>8. Alike(b, s)
  BY <1>1 DEF NodeState, Alike
<1> HIDE DEF a, b
<1>9. Kept(a, s) /\ Kept(b, s)
  BY <1>5, <1>7, <1>8, AlikeKept, KeptTrans
<1>10. \E t \in NodeState : Become(n, t) /\ Kept(t, s)
  BY <1>2, <1>9 DEF Kept
<1> QED BY <1>10, QuietNet DEF Stay, ProbeCatchup

\* endOutOfSyncCatchup and the signal after it.
LEMMA EndCatchupKind ==
  ASSUME TypeInv, NEW n \in Nodes, EndCatchup(n)
  PROVE  Stay(n)
<1> DEFINE s == node[n]
           a == [s EXCEPT !.catchup = NoCatchup]
           t == SignalRound(n, a)
<1>1. s \in NodeState
  BY NodeOK
<1>2. Become(n, t)
  BY DEF EndCatchup
<1>3. Alike(a, s)
  BY <1>1 DEF NodeState, Alike
<1> HIDE DEF a
<1>4. Alike(t, a)
  BY <1>3, SignalFacts DEF Alike
<1> HIDE DEF t
<1>5. Kept(t, s) /\ t \in NodeState
  BY <1>3, <1>4, AlikeKept, KeptTrans DEF Alike
<1> QED BY <1>2, <1>5, QuietNet DEF Stay, EndCatchup

\* processAndCommit leaves a running catch-up alone.
LEMMA ProcessKeepsCatchup ==
  ASSUME NEW s \in NodeState, NEW e \in Entry
  PROVE  ProcessAndCommit(s, e).catchup = s.catchup
<1> DEFINE c == Append(s.chain, e)
           a == [s EXCEPT !.chain = c]
           r == ResetState(a)
           h == e.blk.height
<1>1. c \in Seq(Entry)
  BY DEF NodeState
<1>2. Commit(s, e) = [r EXCEPT !.leader = ParamLeader(r.chain)]
  BY DEF Commit
<1>3. ProcessAndCommit(s, e) \in {Commit(s, e), [s EXCEPT !.hasBlock = h]}
  BY DEF ProcessAndCommit
<1> HIDE DEF c, h
<1>4. a \in NodeState /\ a.catchup = s.catchup
  BY <1>1 DEF NodeState
<1> HIDE DEF a
<1>5. r.catchup = a.catchup /\ r \in NodeState
  <2>1. a \in NodeState
    BY <1>4
  <2>2. r.catchup = a.catchup
    BY <2>1 DEF ResetState, NodeState
  <2> QED BY <2>1, <2>2, ResetFacts
<1> HIDE DEF r
<1>6. [r EXCEPT !.leader = ParamLeader(r.chain)].catchup = r.catchup
  BY <1>5 DEF NodeState
<1>7. [s EXCEPT !.hasBlock = h].catchup = s.catchup
  BY DEF NodeState
<1> QED BY <1>2, <1>3, <1>4, <1>5, <1>6, <1>7

\* A chain with the next block of c appended is the chain, then blocks of c.
LEMMA AppendGrows ==
  ASSUME NEW a \in Seq(Entry), NEW c \in Seq(Entry), Len(c) > Len(a)
  PROVE  /\ Append(a, c[Len(a) + 1]) \in Seq(Entry)
         /\ Grows(Append(a, c[Len(a) + 1]), a, c)
<1> DEFINE e == c[Len(a) + 1]
           d == Append(a, e)
<1>1. Len(a) \in Nat /\ Len(c) \in Nat
  OBVIOUS
<1>2. e \in Entry
  BY <1>1
<1>3. e = c[Len(a) + 1]
  OBVIOUS
<1> HIDE DEF e
<1>4. d \in Seq(Entry) /\ Len(d) = Len(a) + 1
  BY <1>2
<1>5. ASSUME NEW h \in 1..Len(d)
      PROVE  d[h] = IF h <= Len(a) THEN a[h] ELSE c[h]
  <2>1. CASE h <= Len(a)
    BY <1>1, <1>2, <2>1
  <2>2. CASE h = Len(a) + 1
    BY <1>1, <1>2, <1>3, <2>2
  <2> QED BY <1>1, <1>4, <2>1, <2>2
<1> HIDE DEF d
<1>6. Grows(d, a, c)
  BY <1>1, <1>4, <1>5 DEF Grows
<1> QED BY <1>4, <1>6 DEF d, e

\* An extended chain is the chain, then blocks of c.
LEMMA ExtendedGrows ==
  ASSUME NEW a \in Seq(Entry), NEW c \in Seq(Entry),
         NEW k \in Nat, k > Len(a), k <= Len(c)
  PROVE  Extended(a, c, k) \in Seq(Entry) /\ Grows(Extended(a, c, k), a, c)
<1> DEFINE d == Extended(a, c, k)
<1>1. /\ d \in Seq(Entry) /\ Len(d) = k
      /\ \A h \in 1..k : d[h] = IF h <= Len(a) THEN a[h] ELSE c[h]
  BY ExtendFacts
<1> HIDE DEF d
<1>2. Len(a) \in Nat
  OBVIOUS
<1>3. Grows(d, a, c)
  BY <1>1, <1>2 DEF Grows
<1> QED BY <1>1, <1>3 DEF d

\* Growing twice by blocks of c is growing by blocks of c.
LEMMA GrowsTrans ==
  ASSUME NEW a \in Seq(Entry), NEW c \in Seq(Entry), NEW d, NEW e,
         Grows(d, a, c), Grows(e, d, c)
  PROVE  Grows(e, a, c)
<1>1. Len(a) \in Nat /\ Len(d) \in Nat /\ Len(e) \in Nat /\ Len(c) \in Nat
  BY DEF Grows
<1>2. ASSUME NEW h \in 1..Len(e)
      PROVE  e[h] = IF h <= Len(a) THEN a[h] ELSE c[h]
  <2>1. e[h] = IF h <= Len(d) THEN d[h] ELSE c[h]
    BY DEF Grows
  <2>2. h <= Len(d) => d[h] = IF h <= Len(a) THEN a[h] ELSE c[h]
    BY <1>1 DEF Grows
  <2>3. Len(d) >= Len(a)
    BY DEF Grows
  <2> QED BY <1>1, <2>1, <2>2, <2>3
<1>3. e \in Seq(Entry) /\ Len(e) >= Len(a) /\ (Len(e) > Len(a) => Len(e) <= Len(c))
  BY <1>1 DEF Grows
<1> QED BY <1>2, <1>3 DEF Grows

\* Every chain grows by nothing.
LEMMA GrowsRefl ==
  ASSUME NEW a \in Seq(Entry), NEW c
  PROVE  Grows(a, a, c)
<1>1. Len(a) \in Nat
  OBVIOUS
<1> QED BY <1>1 DEF Grows

\* A block of syncBlocksUntilHeight is committed, or the node halts with its
\* chain as it was.
LEMMA ApplyCatchupKind ==
  ASSUME TypeInv, NEW n \in Nodes, NEW m \in Nodes, ApplyCatchup(n, m)
  PROVE  Stay(n) \/ Copy(n)
<1> DEFINE s == node[n]
           c == node[m].chain
           h == s.catchup.next
           e == c[h]
           r == ProcessAndCommit(s, e)
           k == h + 1
           d == [r.catchup EXCEPT !.next = k]
           t == [r EXCEPT !.catchup = d]
<1>1. s \in NodeState /\ s.chain \in Seq(Entry) /\ c \in Seq(Entry)
  BY NodeOK
<1>2. s.catchup \in CatchupRun
  BY <1>1 DEF ApplyCatchup, NodeState
<1>3. h \in 1..Len(c)
  <2>1. h <= Len(c)
    BY DEF ApplyCatchup
  <2>2. h \in Nat \ {0}
    BY <1>2 DEF CatchupRun
  <2> QED BY <1>1, <2>1, <2>2
<1>4. e \in Entry /\ k \in Nat \ {0}
  BY <1>1, <1>3
<1>5. IF CanProcess(s, e) THEN Become(n, t) ELSE Become(n, Halt(t))
  BY DEF ApplyCatchup
<1>6. e = c[h]
  OBVIOUS
<1> HIDE DEF k, e
<1>7. r.catchup = s.catchup
  BY <1>1, <1>4, ProcessKeepsCatchup
<1>8. \/ CanProcess(s, e) /\ r = Commit(s, e)
      \/ ~CanProcess(s, e) /\ Alike(r, s)
  BY <1>1, <1>4, ProcessFacts
<1>9. r \in NodeState
  BY <1>1, <1>4, <1>8, CommitFacts DEF Alike
<1> HIDE DEF r
<1>10. d \in CatchupRun
  BY <1>2, <1>4, <1>7 DEF CatchupRun
<1> HIDE DEF d
<1>11. Alike(t, r)
  BY <1>9, <1>10 DEF NodeState, Alike
<1> HIDE DEF t
<1>12. t \in NodeState /\ Kept(t, r)
  BY <1>11, AlikeKept DEF Alike
<1>13. Kept(Halt(t), r)
  BY <1>12, HaltFacts, AlikeKept, KeptTrans
<1>14. SmallNet /\ UNCHANGED <<proposals, anns>>
  BY QuietNet DEF ApplyCatchup
<1>15. CASE CanProcess(s, e)
  <2>1. Become(n, t) /\ r = Commit(s, e)
    BY <1>5, <1>8, <1>15
  <2>2. Grown(r, s, Append(s.chain, e))
    BY <1>1, <1>4, <2>1, CommitGrown
  <2>3. Grown(t, s, Append(s.chain, e))
    BY <1>12, <2>2, GrownKept
  <2>4. h = Len(s.chain) + 1
    <3>1. e.blk.height = Len(s.chain) + 1
      BY <1>15 DEF CanProcess, ValidBlock, Height
    <3>2. HeightsOK(c)
      BY NodeOK
    <3>3. e.blk.height = h
      BY <1>3, <1>6, <3>2 DEF HeightsOK
    <3> QED BY <3>1, <3>3
  <2>5. Len(c) > Len(s.chain)
    BY <1>1, <1>3, <2>4
  <2>6. /\ Append(s.chain, e) \in Seq(Entry)
        /\ Grows(Append(s.chain, e), s.chain, c)
    BY <1>1, <1>6, <2>4, <2>5, AppendGrows
  <2> QED BY <1>12, <1>14, <2>1, <2>3, <2>6 DEF Copy
<1>16. CASE ~CanProcess(s, e)
  <2>1. Become(n, Halt(t)) /\ Kept(r, s)
    BY <1>5, <1>8, <1>16, AlikeKept
  <2>2. Kept(Halt(t), s)
    BY <1>13, <2>1, KeptTrans
  <2>3. Halt(t) \in NodeState
    BY <2>2 DEF Kept
  <2> QED BY <1>14, <2>1, <2>2, <2>3 DEF Stay
<1> QED BY <1>15, <1>16

\* AcceptProposal fills the proposal slot.
LEMMA AcceptProposalKind ==
  ASSUME TypeInv, NEW n \in Nodes, NEW b \in proposals, AcceptProposal(n, b)
  PROVE  Receive(n)
<1> DEFINE t == [node[n] EXCEPT !.pending = b]
<1>1. b \in Block /\ node[n] \in NodeState
  BY NodeOK DEF TypeInv, NetOK
<1>2. Become(n, t)
  BY DEF AcceptProposal
<1>3. t \in NodeState
  BY <1>1 DEF NodeState
<1>4. Alike(t, t)
  BY <1>3 DEF Alike
<1> QED BY <1>2, <1>3, <1>4, QuietNet DEF Receive, AcceptProposal

\* An out-of-sync nack carries the header of a committed block.
LEMMA SendOutOfSyncNackKind ==
  ASSUME TypeInv, NEW n \in Nodes, NEW b \in proposals, SendOutOfSyncNack(n, b)
  PROVE  Stay(n)
<1> DEFINE s == node[n]
           h == Height(s)
           k == s.chain[h].blk
           x == [from |-> n, blk |-> b, best |-> k]
<1>1. b \in Block /\ s \in NodeState /\ s.chain \in Seq(Entry)
  BY NodeOK DEF TypeInv, NetOK
<1>2. h \in 1..Len(s.chain)
  <2>1. b.height \in Nat /\ b.height < h
    BY <1>1 DEF SendOutOfSyncNack, Block
  <2> QED BY <1>1, <2>1 DEF Height
<1>3. s.chain[h] \in Entry
  BY <1>1, <1>2
<1>4. k \in Block
  BY <1>3 DEF Entry
<1>5. nacks' = nacks \cup {x}
  BY DEF SendOutOfSyncNack
<1> HIDE DEF k
<1>6. x \in Nack
  BY <1>1, <1>4 DEF Nack
<1>7. nacks' \subseteq Nack
  BY <1>5, <1>6 DEF TypeInv, NetOK
<1>8. SmallNet /\ UNCHANGED <<proposals, anns>>
  BY <1>7 DEF SendOutOfSyncNack, SmallNet, TypeInv, NetOK
<1>9. Become(n, s)
  BY DEF SendOutOfSyncNack, Become, TypeInv, NodesOK
<1> QED BY <1>1, <1>8, <1>9, KeptRefl DEF Stay

\* An ignored proposal frees the slot.
LEMMA IgnoreProposalKind ==
  ASSUME TypeInv, NEW n \in Nodes, IgnoreProposal(n)
  PROVE  Stay(n)
<1> DEFINE t == [node[n] EXCEPT !.pending = NoBlock]
<1>1. node[n] \in NodeState
  BY NodeOK
<1>2. Become(n, t)
  BY DEF IgnoreProposal
<1>3. Kept(t, node[n])
  BY <1>1 DEF NodeState, Kept
<1> HIDE DEF t
<1>4. t \in NodeState
  BY <1>3 DEF Kept
<1> QED BY <1>2, <1>3, <1>4, QuietNet DEF Stay, IgnoreProposal

\* processBlockProposal refuses the proposal or starts to execute it.
LEMMA ProcessBlockProposalKind ==
  ASSUME TypeInv, NEW n \in Nodes, ProcessBlockProposal(n)
  PROVE  Stay(n) \/ Adopt(n)
<1> DEFINE b == node[n].pending
           r == [node[n] EXCEPT !.pending = NoBlock]
           s == IF r.prop = NoBlock THEN r ELSE RollbackState(r)
           t == [s EXCEPT !.prop = b, !.res = FALSE, !.status = "Proposed"]
           u == [s EXCEPT !.prop = b, !.status = "Proposed"]
           x == [from |-> n, blk |-> b, ack |-> FALSE]
<1>1. node[n] \in NodeState /\ b \in Block
  BY NodeOK DEF ProcessBlockProposal
<1>2. \/ Become(n, s) /\ (acks' = acks \/ acks' = acks \cup {x})
      \/ Become(n, t) /\ ValidBlock(s, b) /\ acks' = acks
  BY DEF ProcessBlockProposal
<1>3. SmallNet /\ UNCHANGED <<proposals, anns>>
  <2>1. x \in Ack
    BY <1>1 DEF Ack
  <2>2. acks' \subseteq Ack
    BY <1>2, <2>1 DEF TypeInv, NetOK
  <2> QED BY <2>2 DEF ProcessBlockProposal, SmallNet, TypeInv, NetOK
<1>4. Kept(r, node[n])
  BY <1>1 DEF NodeState, Kept
<1> HIDE DEF r
<1>5. Kept(s, node[n])
  <2>1. r \in NodeState
    BY <1>4 DEF Kept
  <2>2. Kept(RollbackState(r), node[n])
    BY <1>4, <2>1, ResetKept, KeptTrans
  <2> QED BY <1>4, <2>2
<1> HIDE DEF s
<1>6. s \in NodeState
  BY <1>5 DEF Kept
<1> HIDE DEF b
<1>7. Alike(t, u) /\ t.prop = b /\ t.chain = s.chain /\ t.status = "Proposed"
  BY <1>1, <1>6 DEF NodeState, Alike
<1> HIDE DEF t
<1>8. CASE Become(n, s)
  BY <1>3, <1>5, <1>6, <1>8 DEF Stay
<1>9. CASE Become(n, t) /\ ValidBlock(s, b)
  <2>1. PropFits(t)
    <3>1. b.height = Len(s.chain) + 1 /\ b.prev = LastId(s) /\ b # NoBlock
      BY <1>1, <1>9, NilAssumption DEF ValidBlock, Height
    <3>2. LastId(t) = LastId(s)
      BY <1>7 DEF LastId
    <3> QED BY <1>7, <3>1, <3>2 DEF PropFits
  <2>2. t \in NodeState
    BY <1>7 DEF Alike
  <2>3. b # NoBlock
    BY <1>1, NilAssumption
  <2> QED BY <1>3, <1>5, <1>6, <1>7, <1>9, <2>1, <2>2, <2>3 DEF Adopt, b
<1> QED BY <1>2, <1>8, <1>9

\* processBlockProposal's ack.
LEMMA FinishExecutionKind ==
  ASSUME TypeInv, NEW n \in Nodes, FinishExecution(n)
  PROVE  Stay(n)
<1> DEFINE s == node[n]
           t == [s EXCEPT !.status = "Executed", !.res = TRUE]
           x == [from |-> n, blk |-> s.prop, ack |-> TRUE]
<1>1. s \in NodeState /\ s.prop \in Block
  BY NodeOK DEF FinishExecution, Executing
<1>2. Become(n, t) /\ acks' = acks \cup {x}
  BY DEF FinishExecution
<1>3. SmallNet /\ UNCHANGED <<proposals, anns>>
  <2>1. x \in Ack
    BY <1>1 DEF Ack
  <2>2. acks' \subseteq Ack
    BY <1>2, <2>1 DEF TypeInv, NetOK
  <2> QED BY <2>2 DEF FinishExecution, SmallNet, TypeInv, NetOK
<1>4. Kept(t, s)
  BY <1>1 DEF NodeState, Kept
<1> HIDE DEF t
<1>5. t \in NodeState
  BY <1>4 DEF Kept
<1> QED BY <1>2, <1>3, <1>4, <1>5 DEF Stay

\* commitBlock commits the announced block or leaves the chain alone.
LEMMA CommittedFacts ==
  ASSUME NEW n \in Nodes, NEW s \in NodeState, PropFits(s), NEW e \in Entry
  PROVE  \/ Kept(Committed(n, s, e), s)
         \/ /\ e.blk.height = Len(s.chain) + 1
            /\ Grown(Committed(n, s, e), s, Append(s.chain, e))
<1> DEFINE r == RollbackState(s)
           h == e.blk.height
           p == [s EXCEPT !.mode = "panicked"]
           q == [s EXCEPT !.hasBlock = h]
           c == Committed(n, s, e)
<1>1. h \in Nat
  BY DEF Entry, Block
<1>2. \/ c = ProcessAndCommit(s, e)
      \/ c = ProcessAndCommit(r, e)
      \/ c = p
      \/ c = Commit(s, e) /\ s.prop = e.blk /\ s.prop # NoBlock
      \/ c = q
  BY DEF Committed
<1>3. Kept(r, s)
  BY ResetKept
<1> HIDE DEF r, c
<1>4. r \in NodeState
  BY <1>3 DEF Kept
<1>5. CASE c = ProcessAndCommit(s, e)
  BY <1>5, KeptRefl, ProcessKeptGrown DEF c
<1>6. CASE c = ProcessAndCommit(r, e)
  BY <1>3, <1>4, <1>6, ProcessKeptGrown DEF c
<1>7. CASE c = p
  <2>1. Alike(p, s)
    BY DEF NodeState, Alike
  <2> QED BY <1>7, <2>1, AlikeKept DEF c
<1>8. CASE c = Commit(s, e) /\ s.prop = e.blk /\ s.prop # NoBlock
  <2>1. e.blk.height = Len(s.chain) + 1
    BY <1>8 DEF PropFits
  <2>2. Grown(Commit(s, e), s, Append(s.chain, e))
    BY CommitGrown
  <2> QED BY <1>8, <2>1, <2>2 DEF c
<1>9. CASE c = q
  <2> HIDE DEF h
  <2>1. Alike(q, s)
    BY <1>1 DEF NodeState, Alike
  <2> QED BY <1>9, <2>1, AlikeKept DEF c
<1> QED BY <1>2, <1>5, <1>6, <1>7, <1>8, <1>9

\* A block announcement.
LEMMA CommitBlockKind ==
  ASSUME TypeInv, NEW n \in Nodes, NEW e \in anns, CommitBlock(n, e)
  PROVE  Stay(n) \/ Learn(n)
<1> DEFINE s == node[n]
           t == Committed(n, s, e)
           u == ApplyLeaderUpdates(t)
           v == SignalRound(n, u)
<1>1. s \in NodeState /\ PropFits(s) /\ e \in Entry
  BY NodeOK DEF TypeInv, NetOK
<1>2. Become(n, t) \/ Become(n, u) \/ Become(n, v)
  BY DEF CommitBlock
<1>3. \/ Kept(t, s)
      \/ /\ e.blk.height = Len(s.chain) + 1
         /\ Grown(t, s, Append(s.chain, e))
  BY <1>1, CommittedFacts
<1> HIDE DEF t
<1>4. t \in NodeState
  BY <1>3 DEF Kept, Grown
<1>5. Kept(u, t)
  BY <1>4, ApplyKept
<1> HIDE DEF u
<1>6. u \in NodeState
  BY <1>5 DEF Kept
<1>7. Kept(v, t)
  BY <1>5, <1>6, SignalFacts, AlikeKept, KeptTrans
<1> HIDE DEF v
<1>8. PICK w \in {t, u, v} : Become(n, w) /\ Kept(w, t)
  BY <1>2, <1>4, <1>5, <1>7, KeptRefl
<1>9. w \in NodeState
  BY <1>8 DEF Kept
<1>10. SmallNet /\ UNCHANGED <<proposals, anns>>
  BY QuietNet DEF CommitBlock
<1>11. CASE Kept(t, s)
  <2>1. Kept(w, s)
    BY <1>8, <1>11, KeptTrans
  <2> QED BY <1>8, <1>9, <1>10, <2>1 DEF Stay
<1>12. CASE /\ e.blk.height = Len(s.chain) + 1
            /\ Grown(t, s, Append(s.chain, e))
  <2>1. Grown(w, s, Append(s.chain, e))
    BY <1>8, <1>12, GrownKept
  <2> QED BY <1>8, <1>9, <1>10, <1>12, <2>1 DEF Learn
<1> QED BY <1>3, <1>11, <1>12

\* reannounceMsgs.
LEMMA ReannounceAckKind ==
  ASSUME TypeInv, NEW n \in Nodes, ReannounceAck(n)
  PROVE  Stay(n)
<1> DEFINE s == node[n]
           t == [s EXCEPT !.mode = "panicked"]
           x == [from |-> n, blk |-> s.prop, ack |-> TRUE]
<1>1. s \in NodeState /\ s.prop \in Block
  BY NodeOK DEF ReannounceAck
<1>2. \/ Become(n, t) /\ acks' = acks
      \/ node' = node /\ acks' = acks \cup {x}
  BY DEF ReannounceAck
<1>3. SmallNet /\ UNCHANGED <<proposals, anns>>
  <2>1. x \in Ack
    BY <1>1 DEF Ack
  <2>2. acks' \subseteq Ack
    BY <1>2, <2>1 DEF TypeInv, NetOK
  <2> QED BY <2>2 DEF ReannounceAck, SmallNet, TypeInv, NetOK
<1>4. Alike(t, s)
  BY <1>1 DEF NodeState, Alike
<1> HIDE DEF t
<1>5. t \in NodeState /\ Kept(t, s)
  BY <1>4, AlikeKept DEF Alike
<1>6. node' = node => Become(n, s)
  BY DEF Become, TypeInv, NodesOK
<1> QED BY <1>1, <1>2, <1>3, <1>5, <1>6, KeptRefl DEF Stay

\* A chain that grew and grew again has grown.
LEMMA GrownTrans ==
  ASSUME NEW s, NEW t, NEW u, NEW d, NEW e, Grown(t, s, d), Grown(u, t, e)
  PROVE  Grown(u, s, e)
BY DEF Grown

\* doCatchup: the block the node waits on, then blocks of a peer.
LEMMA DoCatchupKind ==
  ASSUME TypeInv, NEW n \in Nodes, NEW m \in Nodes, NEW k \in Nat,
         DoCatchup(n, m, k)
  PROVE  Stay(n) \/ Copy(n)
<1> DEFINE s == node[n]
           c == node[m].chain
           a == s.chain
           t == ProcessCurrentBlock(n, s, c)
           y == Replay(t, c, k)
           u == ApplyLeaderUpdates(y)
           v == SignalRound(n, u)
           d == Append(a, c[Len(a) + 1])
           x == Extended(t.chain, c, k)
<1>1. s \in NodeState /\ PropFits(s) /\ a \in Seq(Entry) /\ c \in Seq(Entry)
  BY NodeOK
<1>2. Become(n, t) \/ Become(n, Halt(t)) \/ Become(n, v)
  BY DEF DoCatchup
<1>3. k \in Height(t)..Len(c) \cup {Height(t)}
  BY DEF DoCatchup
<1>4. Kept(t, s) \/ (Len(c) > Len(a) /\ Grown(t, s, d))
  <2>1. Waiting(n, s) => s.prop.height = Len(a) + 1 /\ s.prop.height <= Len(c)
    BY <1>1 DEF DoCatchup, Waiting, PropFits
  <2> HIDE DEF t
  <2>2. t = ProcessCurrentBlock(n, s, c)
    BY DEF t
  <2> QED BY <1>1, <2>1, <2>2, CurrentKeptGrown
<1>5. Len(c) > Len(a) => d \in Seq(Entry) /\ Grows(d, a, c)
  BY <1>1, AppendGrows
<1> HIDE DEF s, t, d, a, c
<1>6. t \in NodeState
  BY <1>4 DEF Kept, Grown
<1>7. t.chain \in Seq(Entry) /\ Grows(t.chain, a, c)
  BY <1>1, <1>4, <1>5, GrowsRefl DEF Kept, Grown, a
<1>8. Kept(t, s) \/ Grown(t, s, t.chain)
  BY <1>4 DEF Grown
<1>9. y = t \/ (Grown(y, t, x) /\ x \in Seq(Entry) /\ Grows(x, a, c))
  <2>1. Height(t) = Len(t.chain) /\ Height(t) \in Nat /\ Len(c) \in Nat
    BY <1>1, <1>7 DEF Height
  <2>2. CASE k <= Height(t)
    BY <2>2 DEF Replay
  <2>3. CASE k > Height(t)
    <3>1. k <= Len(c) /\ k > Len(t.chain)
      BY <1>3, <2>1, <2>3
    <3>2. Grown(y, t, x)
      BY <1>1, <1>6, <2>3, <3>1, ReplayGrown
    <3>3. x \in Seq(Entry) /\ Grows(x, t.chain, c)
      BY <1>1, <1>7, <3>1, ExtendedGrows
    <3>4. Grows(x, a, c)
      BY <1>1, <1>7, <3>3, GrowsTrans
    <3> QED BY <3>2, <3>3, <3>4
  <2> QED BY <2>1, <2>2, <2>3
<1> HIDE DEF y, x
<1>10. y \in NodeState
  BY <1>6, <1>9 DEF Grown
<1>11. Kept(v, y)
  <2>1. Kept(u, y)
    BY <1>10, ApplyKept
  <2> HIDE DEF u
  <2>2. u \in NodeState
    BY <2>1 DEF Kept
  <2> QED BY <2>1, <2>2, SignalFacts, AlikeKept, KeptTrans
<1>12. Kept(t, t) /\ Kept(Halt(t), t)
  BY <1>6, KeptRefl, HaltFacts, AlikeKept
<1> HIDE DEF v
<1>13. PICK w : /\ Become(n, w)
                /\ \/ Kept(w, t)
                   \/ Grown(w, t, x) /\ x \in Seq(Entry) /\ Grows(x, a, c)
  <2>1. Kept(v, t) \/ (Grown(v, t, x) /\ x \in Seq(Entry) /\ Grows(x, a, c))
    BY <1>9, <1>11, GrownKept
  <2> QED BY <1>2, <1>12, <2>1
<1>14. w \in NodeState
  BY <1>13 DEF Kept, Grown
<1>15. \/ Kept(w, s)
       \/ Grown(w, s, t.chain)
       \/ Grown(w, s, x) /\ x \in Seq(Entry) /\ Grows(x, a, c)
  BY <1>8, <1>13, KeptTrans, GrownKept, KeptGrown, GrownTrans
<1>16. SmallNet /\ UNCHANGED <<proposals, anns>>
  BY QuietNet DEF DoCatchup
<1>17. Kept(w, s) => Stay(n)
  BY <1>13, <1>14, <1>16 DEF Stay, s
<1>18. \A e \in Seq(Entry) : Grown(w, s, e) /\ Grows(e, a, c) => Copy(n)
  BY <1>13, <1>14, <1>16 DEF Copy, s, a, c
<1> QED BY <1>7, <1>15, <1>17, <1>18

\* NotifyResetState and cancelBlock.
LEMMA CancelBlockKind ==
  ASSUME TypeInv, NEW n \in Nodes, NEW r \in resets, CancelBlock(n, r)
  PROVE  Stay(n)
<1> DEFINE h == r.height
           s == [node[n] EXCEPT !.reset = h]
           t == [s EXCEPT !.status = "Executed"]
<1>1. node[n] \in NodeState /\ h \in Nat
  BY NodeOK DEF TypeInv, NetOK, Reset
<1>2. Become(n, s) \/ Become(n, t)
  BY DEF CancelBlock
<1> HIDE DEF h
<1>3. Kept(s, node[n])
  BY <1>1 DEF NodeState, Kept
<1> HIDE DEF s
<1>4. s \in NodeState
  BY <1>3 DEF Kept
<1>5. Kept(t, s)
  BY <1>4 DEF NodeState, Kept
<1> HIDE DEF t
<1>6. Kept(t, node[n])
  BY <1>3, <1>5, KeptTrans
<1>7. \E u \in NodeState : Become(n, u) /\ Kept(u, node[n])
  BY <1>2, <1>3, <1>6 DEF Kept
<1> QED BY <1>7, QuietNet DEF Stay, CancelBlock

\* resetBlockProp.
LEMMA ResetBlockPropKind ==
  ASSUME TypeInv, NEW n \in Nodes, ResetBlockProp(n)
  PROVE  Stay(n)
<1> DEFINE s == RollbackState(node[n])
           t == [s EXCEPT !.reset = 0]
<1>1. Kept(s, node[n])
  BY NodeOK, ResetKept
<1>2. Become(n, t)
  BY DEF ResetBlockProp
<1> HIDE DEF s
<1>3. s \in NodeState
  BY <1>1 DEF Kept
<1>4. Alike(t, s)
  BY <1>3 DEF NodeState, Alike
<1> HIDE DEF t
<1>5. Kept(t, node[n]) /\ t \in NodeState
  BY <1>1, <1>4, AlikeKept, KeptTrans DEF Alike
<1> QED BY <1>2, <1>5, QuietNet DEF Stay, ResetBlockProp

\* PromoteLeader writes the leader file.
LEMMA PromoteLeaderKind ==
  ASSUME TypeInv, NEW n \in Nodes, NEW c \in Nodes, NEW h \in Nat,
         PromoteLeader(n, c, h)
  PROVE  Command(n)
<1> DEFINE f == [cand |-> c, height |-> h]
           t == [node[n] EXCEPT !.leaderFile = f]
<1>1. node[n] \in NodeState
  BY NodeOK
<1>2. Become(n, t)
  BY DEF PromoteLeader
<1>3. f \in Update
  BY DEF Update
<1> HIDE DEF f
<1>4. t \in NodeState
  BY <1>1, <1>3 DEF NodeState
<1>5. Alike(t, t)
  BY <1>4 DEF Alike
<1>6. used' \in Used
  BY DEF PromoteLeader, Used, TypeInv, NetOK
<1>7. SmallNet /\ UNCHANGED <<proposals, anns>>
  BY <1>6 DEF PromoteLeader, SmallNet, TypeInv, NetOK, net
<1>8. used.promote < MaxPromote
  BY DEF PromoteLeader
<1> QED BY <1>2, <1>3, <1>4, <1>5, <1>7, <1>8 DEF Command

\* A crash leaves the disk alone.
LEMMA CrashKind ==
  ASSUME TypeInv, NEW n \in Nodes, Crash(n)
  PROVE  Stay(n)
<1> DEFINE t == [node[n] EXCEPT !.mode = "down"]
<1>1. node[n] \in NodeState
  BY NodeOK
<1>2. Become(n, t)
  BY DEF Crash
<1>3. Alike(t, node[n])
  BY <1>1 DEF NodeState, Alike
<1> HIDE DEF t
<1>4. Kept(t, node[n]) /\ t \in NodeState
  BY <1>3, AlikeKept DEF Alike
<1>5. used' \in Used
  BY DEF Crash, Used, TypeInv, NetOK
<1>6. SmallNet /\ UNCHANGED <<proposals, anns>>
  BY <1>5 DEF Crash, SmallNet, TypeInv, NetOK, net
<1> QED BY <1>2, <1>4, <1>6 DEF Stay

\* A node that starts on chain c holds c and blocks of its peer.
LEMMA ReopenFacts ==
  ASSUME TypeInv, NEW n \in Nodes, NEW m \in Nodes, NEW k \in Nat,
         NEW c \in Seq(Entry), Reopen(n, c, m, k)
  PROVE  \E t \in NodeState, d \in Seq(Entry) :
           /\ Become(n, t) /\ Grown(t, node[n], d)
           /\ Grows(d, c, node[m].chain)
<1> DEFINE f == node[n].leaderFile
           p == node[m].chain
           t == Start(n, c, f, p, k)
           d == StartChain(c, p, k)
<1>1. p \in Seq(Entry) /\ f \in Update \cup {NoUpdate}
  BY NodeOK DEF NodeState
<1>2. Become(n, t)
  BY DEF Reopen
<1>3. Len(c) \in Nat /\ Len(p) \in Nat
  BY <1>1
<1>4. k <= Len(c) \/ k <= Len(p)
  BY <1>3 DEF Reopen
<1>5. d \in Seq(Entry) /\ Grows(d, c, p)
  <2>1. CASE k <= Len(c)
    BY <2>1, GrowsRefl DEF StartChain
  <2>2. CASE k > Len(c)
    BY <1>1, <1>3, <1>4, <2>2, ExtendedGrows DEF StartChain
  <2> QED BY <1>3, <2>1, <2>2
<1>6. Grown(t, node[n], d)
  <2>1. Idle(t, f, d)
    BY <1>1, <1>4, StartFacts
  <2> HIDE DEF t, d
  <2> QED BY <2>1 DEF Grown, Idle
<1> HIDE DEF t, d
<1>7. t \in NodeState
  BY <1>6 DEF Grown
<1> QED BY <1>2, <1>5, <1>6, <1>7

\* New and Start after a crash.
LEMMA RestartKind ==
  ASSUME TypeInv, NEW n \in Nodes, NEW m \in Nodes, NEW k \in Nat,
         Restart(n, m, k)
  PROVE  Copy(n)
<1>1. Reopen(n, node[n].chain, m, k) /\ node[n].chain \in Seq(Entry)
  BY NodeOK DEF Restart
<1>2. SmallNet /\ UNCHANGED <<proposals, anns>>
  BY QuietNet DEF Restart
<1>3. \E t \in NodeState, d \in Seq(Entry) :
        /\ Become(n, t) /\ Grown(t, node[n], d)
        /\ Grows(d, node[n].chain, node[m].chain)
  BY <1>1, ReopenFacts
<1> QED BY <1>2, <1>3 DEF Copy

\* Start on an older copy of the disk.
LEMMA RestoreOldKind ==
  ASSUME TypeInv, NEW n \in Nodes, NEW m \in Nodes, NEW j \in Nat, NEW k \in Nat,
         RestoreOld(n, j, m, k)
  PROVE  Lose(n)
<1> DEFINE a == node[n].chain
           c == SubSeq(a, 1, j)
<1>1. a \in Seq(Entry) /\ HeightsOK(a) /\ Len(a) \in Nat /\ j < Len(a)
  BY NodeOK DEF RestoreOld, Height
<1>2. /\ Reopen(n, c, m, k) /\ used.loss < MaxLoss
      /\ used' = [used EXCEPT !.loss = @ + 1] /\ UNCHANGED net
  BY DEF RestoreOld
<1> HIDE DEF a
<1>3. c \in Seq(Entry) /\ Len(c) = j
  BY <1>1
<1>4. \A h \in 1..j : c[h] = a[h]
  BY <1>1
<1> HIDE DEF c
<1>5. HeightsOK(c)
  BY <1>1, <1>3, <1>4 DEF HeightsOK
<1>6. used' \in Used
  BY <1>2 DEF Used, TypeInv, NetOK
<1>7. SmallNet /\ UNCHANGED <<proposals, anns>>
  BY <1>2, <1>6 DEF SmallNet, TypeInv, NetOK, net
<1>8. \E t \in NodeState, d \in Seq(Entry) :
        /\ Become(n, t) /\ Grown(t, node[n], d)
        /\ Grows(d, c, node[m].chain)
  BY <1>2, <1>3, ReopenFacts
<1> QED BY <1>1, <1>2, <1>3, <1>4, <1>5, <1>7, <1>8 DEF Lose, a

\* Every step of a node is of one of the kinds.
LEMMA StepKinds ==
  ASSUME TypeInv, NEW n \in Nodes,
         LeaderStep(n) \/ FollowerStep(n) \/ EnvironmentStep(n)
  PROVE  Kinds(n)
<1>2. 0..MaxHeight \subseteq Nat /\ 1..MaxHeight \subseteq Nat
  BY BoundsAssumption
<1>3. CASE LeaderStep(n)
  BY <1>3, NewRoundKind, DropNewProposalKind, ProposeBlockKind,
     FinishProposalKind, AddVoteKind, CancelBlockExecutionKind,
     LeaderCatchupKind, BeginCatchupKind, ProbeCatchupKind, ApplyCatchupKind,
     EndCatchupKind DEF LeaderStep, Kinds
<1>4. CASE FollowerStep(n)
  BY <1>2, <1>4, AcceptProposalKind, SendOutOfSyncNackKind, IgnoreProposalKind,
     ProcessBlockProposalKind, FinishExecutionKind, CommitBlockKind,
     ReannounceAckKind, DoCatchupKind, CancelBlockKind, ResetBlockPropKind
     DEF FollowerStep, Kinds
<1>5. CASE EnvironmentStep(n)
  BY <1>2, <1>5, PromoteLeaderKind, CrashKind, RestartKind, RestoreOldKind
     DEF EnvironmentStep, Kinds
<1> QED BY <1>3, <1>4, <1>5

\* So every step of the system is.
LEMMA NextKinds ==
  ASSUME TypeInv, Next
  PROVE  \E n \in Nodes : Kinds(n)
BY StepKinds DEF Next

-----------------------------------------------------------------------------
(* Type correctness, and the proposal on top of the chain                  *)

\* LastId reads the chain only.
LEMMA LastIdChain ==
  ASSUME NEW s, NEW t, s.chain = t.chain
  PROVE  LastId(s) = LastId(t)
BY DEF LastId

\* The step of one node to a well-formed state keeps all nodes well-formed.
LEMMA BecomeOK ==
  ASSUME TypeInv, NEW n \in Nodes, NEW t \in NodeState, Become(n, t),
         PropFits(t), HeightsOK(t.chain)
  PROVE  NodesOK'
<1>1. node' = [node EXCEPT ![n] = t]
  BY DEF Become
<1>2. node' \in [Nodes -> NodeState]
  BY <1>1 DEF TypeInv, NodesOK
<1>3. \A m \in Nodes : node'[m] = IF m = n THEN t ELSE node[m]
  BY <1>1 DEF TypeInv, NodesOK
<1>4. \A m \in Nodes : PropFits(node'[m]) /\ HeightsOK(node'[m].chain)
  BY <1>3 DEF TypeInv, NodesOK
<1> QED BY <1>2, <1>4 DEF NodesOK

\* A state with the chain and the proposal of a fitting one, or none, fits.
LEMMA KeptFits ==
  ASSUME NEW s, NEW t, Kept(t, s), PropFits(s), HeightsOK(s.chain)
  PROVE  PropFits(t) /\ HeightsOK(t.chain)
<1>1. t.chain = s.chain /\ t.prop \in {s.prop, NoBlock}
      /\ (t.status = "Proposed" => s.status = "Proposed" /\ t.prop = s.prop)
  BY DEF Kept
<1>2. LastId(t) = LastId(s)
  BY <1>1, LastIdChain
<1> QED BY <1>1, <1>2 DEF PropFits

\* A state without a proposal fits.
LEMMA GrownFits ==
  ASSUME NEW s, NEW t, NEW d, Grown(t, s, d), HeightsOK(d)
  PROVE  PropFits(t) /\ HeightsOK(t.chain)
BY DEF Grown, PropFits

\* Blocks of well-formed chains make a well-formed chain.
LEMMA GrowsHeights ==
  ASSUME NEW a \in Seq(Entry), NEW c \in Seq(Entry), NEW d, Grows(d, a, c),
         HeightsOK(a), HeightsOK(c)
  PROVE  HeightsOK(d)
<1>1. Len(a) \in Nat /\ Len(c) \in Nat /\ Len(d) \in Nat
  BY DEF Grows
<1>2. ASSUME NEW h \in 1..Len(d)
      PROVE  d[h].blk.height = h
  <2>1. d[h] = IF h <= Len(a) THEN a[h] ELSE c[h]
    BY DEF Grows
  <2>2. CASE h <= Len(a)
    BY <1>1, <2>1, <2>2 DEF HeightsOK
  <2>3. CASE h > Len(a)
    <3>1. h <= Len(c)
      BY <1>1, <2>3 DEF Grows
    <3>2. d[h] = c[h] /\ h \in 1..Len(c)
      BY <1>1, <2>1, <2>3, <3>1
    <3> QED BY <3>2 DEF HeightsOK
  <2> QED BY <1>1, <2>2, <2>3
<1> QED BY <1>2 DEF HeightsOK

\* So does the block that comes next.
LEMMA AppendHeights ==
  ASSUME NEW a \in Seq(Entry), NEW e \in Entry, HeightsOK(a),
         e.blk.height = Len(a) + 1
  PROVE  Append(a, e) \in Seq(Entry) /\ HeightsOK(Append(a, e))
<1> DEFINE d == Append(a, e)
<1>1. Len(a) \in Nat /\ d \in Seq(Entry) /\ Len(d) = Len(a) + 1
  OBVIOUS
<1>2. ASSUME NEW h \in 1..Len(d)
      PROVE  d[h].blk.height = h
  <2>1. CASE h <= Len(a)
    <3>1. d[h] = a[h] /\ h \in 1..Len(a)
      BY <1>1, <2>1
    <3> QED BY <3>1 DEF HeightsOK
  <2>2. CASE h = Len(a) + 1
    <3>1. d[h] = e
      BY <1>1, <2>2
    <3> QED BY <2>2, <3>1
  <2> QED BY <1>1, <2>1, <2>2
<1> QED BY <1>1, <1>2 DEF HeightsOK

\* Every kind of step keeps the invariant.
LEMMA KindsType ==
  ASSUME TypeInv, NEW n \in Nodes, Kinds(n)
  PROVE  TypeInv'
<1> DEFINE s == node[n]
<1>1. /\ s \in NodeState /\ s.chain \in Seq(Entry) /\ PropFits(s)
      /\ HeightsOK(s.chain) /\ s.prop \in Block \cup {NoBlock}
      /\ s.pending \in Block \cup {NoBlock}
  BY NodeOK
<1>2. ASSUME SmallNet, proposals' \subseteq Block, IsFiniteSet(proposals'),
             anns' \subseteq Entry
      PROVE  NetOK'
  BY <1>2 DEF SmallNet, NetOK
<1>3. ASSUME SmallNet, UNCHANGED <<proposals, anns>>
      PROVE  NetOK'
  BY <1>3 DEF SmallNet, NetOK, TypeInv
<1>4. CASE Stay(n)
  <2>1. NodesOK'
    BY <1>1, <1>4, KeptFits, BecomeOK DEF Stay
  <2> QED BY <1>3, <1>4, <2>1 DEF Stay, TypeInv
<1>5. CASE Copy(n)
  <2>1. PICK t \in NodeState, m \in Nodes, d \in Seq(Entry) :
          /\ Become(n, t) /\ Grown(t, s, d)
          /\ Grows(d, s.chain, node[m].chain)
    BY <1>5 DEF Copy
  <2>2. HeightsOK(d)
    BY <1>1, <2>1, NodeOK, GrowsHeights
  <2>3. NodesOK'
    BY <2>1, <2>2, GrownFits, BecomeOK
  <2> QED BY <1>3, <1>5, <2>3 DEF Copy, TypeInv
<1>6. CASE Learn(n)
  <2>1. PICK t \in NodeState, e \in anns :
          /\ Become(n, t) /\ Grown(t, s, Append(s.chain, e))
          /\ e.blk.height = Len(s.chain) + 1
    BY <1>6 DEF Learn
  <2>2. HeightsOK(Append(s.chain, e))
    BY <1>1, <2>1, AppendHeights DEF TypeInv, NetOK
  <2>3. NodesOK'
    BY <2>1, <2>2, GrownFits, BecomeOK
  <2> QED BY <1>3, <1>6, <2>3 DEF Learn, TypeInv
<1>7. CASE Decide(n)
  <2>1. PICK t \in NodeState, e \in Entry :
          /\ Become(n, t) /\ Grown(t, s, Append(s.chain, e))
          /\ e.blk = s.prop
          /\ anns' = anns \cup {e}
    BY <1>7 DEF Decide
  <2>2. e.blk.height = Len(s.chain) + 1
    BY <1>1, <1>7, <2>1 DEF Decide, PropFits
  <2>3. HeightsOK(Append(s.chain, e))
    BY <1>1, <2>2, AppendHeights
  <2>4. NodesOK'
    BY <2>1, <2>3, GrownFits, BecomeOK
  <2>5. anns' \subseteq Entry
    BY <2>1 DEF TypeInv, NetOK
  <2>6. NetOK'
    BY <1>2, <1>7, <2>5 DEF Decide, TypeInv, NetOK
  <2> QED BY <2>4, <2>6 DEF TypeInv
<1>8. CASE Make(n)
  <2>1. PICK t \in NodeState, x \in Nat :
          /\ Become(n, t)
          /\ Alike(t, [s EXCEPT !.prop = NewBlock(n, s, x), !.status = "Proposed"])
          /\ proposals' = proposals \cup {NewBlock(n, s, x)}
    BY <1>8 DEF Make
  <2> DEFINE b == NewBlock(n, s, x)
             q == [s EXCEPT !.prop = b, !.status = "Proposed"]
  <2>0. n \in Validators
    BY <1>1, <1>8 DEF Make, NodeState
  <2>2. /\ b \in Block /\ b.height = Len(s.chain) + 1 /\ b.prev = LastId(s)
    BY <1>1, <2>0, NewBlockFacts
  <2>3. Alike(t, q) /\ proposals' = proposals \cup {b}
    BY <2>1
  <2> HIDE DEF b
  <2>4. q.prop = b /\ q.chain = s.chain
    BY <1>1 DEF NodeState
  <2> HIDE DEF q
  <2>5. t.prop = b /\ t.chain = s.chain
    BY <2>3, <2>4 DEF Alike
  <2>6. LastId(t) = LastId(s) /\ b # NoBlock
    BY <2>2, <2>5, LastIdChain, NilAssumption
  <2>7. PropFits(t) /\ HeightsOK(t.chain)
    BY <1>1, <2>2, <2>5, <2>6 DEF PropFits
  <2>8. NodesOK'
    BY <2>1, <2>7, BecomeOK
  <2>9. IsFiniteSet(proposals') /\ proposals' \subseteq Block
    BY <2>2, <2>3, FS_AddElement DEF TypeInv, NetOK
  <2>10. NetOK'
    BY <1>2, <1>8, <2>9 DEF Make, TypeInv, NetOK
  <2> QED BY <2>8, <2>10 DEF TypeInv
<1>9. CASE Adopt(n)
  <2>1. PICK t \in NodeState, r \in NodeState :
          /\ Become(n, t) /\ Kept(r, s) /\ PropFits(t)
          /\ Alike(t, [r EXCEPT !.prop = s.pending, !.status = "Proposed"])
    BY <1>9 DEF Adopt
  <2>2. t.chain = s.chain
    BY <2>1 DEF Alike, Kept, NodeState
  <2>3. NodesOK'
    BY <1>1, <2>1, <2>2, BecomeOK
  <2> QED BY <1>3, <1>9, <2>3 DEF Adopt, TypeInv
<1>10. CASE Receive(n)
  <2>1. PICK t \in NodeState, b \in proposals :
          Become(n, t) /\ Alike(t, [s EXCEPT !.pending = b])
    BY <1>10 DEF Receive
  <2>2. t.chain = s.chain /\ t.prop = s.prop /\ t.status = s.status
    BY <1>1, <2>1 DEF Alike, NodeState
  <2>3. PropFits(t)
    BY <1>1, <2>2, LastIdChain DEF PropFits
  <2>4. NodesOK'
    BY <1>1, <2>1, <2>2, <2>3, BecomeOK
  <2> QED BY <1>3, <1>10, <2>4 DEF Receive, TypeInv
<1>11. CASE Command(n)
  <2>1. PICK t \in NodeState, f \in Update :
          Become(n, t) /\ Alike(t, [s EXCEPT !.leaderFile = f])
    BY <1>11 DEF Command
  <2>2. t.chain = s.chain /\ t.prop = s.prop /\ t.status = s.status
    BY <1>1, <2>1 DEF Alike, NodeState
  <2>3. PropFits(t)
    BY <1>1, <2>2, LastIdChain DEF PropFits
  <2>4. NodesOK'
    BY <1>1, <2>1, <2>2, <2>3, BecomeOK
  <2> QED BY <1>3, <1>11, <2>4 DEF Command, TypeInv
<1>12. CASE Lose(n)
  <2>1. PICK t \in NodeState, m \in Nodes, c \in Seq(Entry), d \in Seq(Entry) :
          /\ Become(n, t) /\ Grown(t, s, d)
          /\ HeightsOK(c) /\ Grows(d, c, node[m].chain)
    BY <1>12 DEF Lose
  <2>2. HeightsOK(d)
    BY <2>1, NodeOK, GrowsHeights
  <2>3. NodesOK'
    BY <2>1, <2>2, GrownFits, BecomeOK
  <2> QED BY <1>3, <1>12, <2>3 DEF Lose, TypeInv
<1> QED BY <1>4, <1>5, <1>6, <1>7, <1>8, <1>9, <1>10, <1>11, <1>12 DEF Kinds

\* The genesis state is well-formed and idle.
LEMMA InitType ==
  ASSUME Init
  PROVE  /\ TypeInv
         /\ \A n \in Nodes : Idle(node[n], NoUpdate, <<>>)
<1>1. ASSUME NEW n \in Nodes
      PROVE  Idle(node[n], NoUpdate, <<>>)
  <2>1. node[n] = Start(n, <<>>, NoUpdate, <<>>, 0)
    BY DEF Init
  <2>2. <<>> \in Seq(Entry) /\ 0 <= Len(<<>>)
    OBVIOUS
  <2>3. Idle(Start(n, <<>>, NoUpdate, <<>>, 0), NoUpdate, StartChain(<<>>, <<>>, 0))
    BY <2>2, StartFacts
  <2>4. StartChain(<<>>, <<>>, 0) = <<>>
    BY <2>2 DEF StartChain
  <2> QED BY <2>1, <2>3, <2>4
<1>2. ASSUME NEW n \in Nodes
      PROVE  node[n] \in NodeState /\ PropFits(node[n]) /\ HeightsOK(node[n].chain)
  BY <1>1 DEF Idle, PropFits, HeightsOK
<1>3. NodesOK
  <2>1. node \in [Nodes -> NodeState]
    BY <1>2 DEF Init
  <2> QED BY <1>2, <2>1 DEF NodesOK
<1>4. NetOK
  BY FS_EmptySet DEF Init, NetOK, Used
<1> QED BY <1>1, <1>3, <1>4 DEF TypeInv

\* The invariant holds always.
LEMMA TypeInvariant == Spec => []TypeInv
<1>1. Init => TypeInv
  BY InitType
<1>2. TypeInv /\ [Next]_vars => TypeInv'
  <2>1. ASSUME TypeInv, Next PROVE TypeInv'
    BY <2>1, NextKinds, KindsType
  <2>2. ASSUME TypeInv, UNCHANGED vars PROVE TypeInv'
    BY <2>2 DEF vars, TypeInv, NodesOK, NetOK
  <2> QED BY <2>1, <2>2
<1> QED BY <1>1, <1>2, PTL DEF Spec

\* Every reachable state is well typed, with any number of nodes, heights,
\* crashes, disk losses, replace-leader commands and cancellations.
THEOREM TypeCorrect == Spec => []TypeOK
<1>1. TypeInv => TypeOK
  BY DEF TypeInv, NodesOK, NetOK, TypeOK
<1> QED BY <1>1, TypeInvariant, PTL

\* The block a node executes or waits on extends the node's last commit: no
\* commit, replay, reset or restart leaves an overtaken proposal behind
\* (nextState, rollbackState, doCatchup, resetBlockProp, processBlockProposal).
THEOREM ProposalOnTop == Spec => []ProposalExtendsCommit
<1>1. TypeInv => ProposalExtendsCommit
  BY DEF TypeInv, NodesOK, PropFits, ProposalExtendsCommit, Height
<1> QED BY <1>1, TypeInvariant, PTL

-----------------------------------------------------------------------------
(* Agreement while the operators replace no leader and no disk goes back   *)

\* Chain a is the beginning of chain b.
PrefixOf(a, b) == Len(a) <= Len(b) /\ \A h \in 1..Len(a) : a[h] = b[h]

\* No block of chain c changes the leader.
SameLeader(c) == \A h \in 1..Len(c) : c[h].blk.newLeader = NoNode

FromGenesis(b) == b = NoBlock \/ (b.by = Genesis /\ b.newLeader = NoNode)

LedByGenesis(s) ==
  /\ s.leader = Genesis /\ s.leaderFile = NoUpdate /\ s.leaderUpdate = NoUpdate
  /\ FromGenesis(s.prop) /\ FromGenesis(s.pending)

InChain(e, c) == e.blk.height \in 1..Len(c) /\ c[e.blk.height] = e

\* One leader makes every block, its chain holds everything that was ever
\* announced, and every other chain is a beginning of its chain.
FixedInv ==
  /\ TypeInv
  /\ \A n \in Nodes : LedByGenesis(node[n])
  /\ \A b \in proposals : FromGenesis(b)
  /\ \A n \in Nodes : PrefixOf(node[n].chain, node[Genesis].chain)
  /\ SameLeader(node[Genesis].chain)
  /\ \A e \in anns : InChain(e, node[Genesis].chain)

\* Without a change in the chain the genesis leader leads.
LEMMA SameLeaderGenesis ==
  ASSUME NEW c \in Seq(Entry), SameLeader(c)
  PROVE  ParamLeader(c) = Genesis
<1>1. {i \in DOMAIN c : c[i].blk.newLeader # NoNode} = {}
  BY DEF SameLeader
<1> QED BY <1>1 DEF ParamLeader

\* A beginning of a chain without a change has none.
LEMMA PrefixSameLeader ==
  ASSUME NEW a \in Seq(Entry), NEW b \in Seq(Entry), PrefixOf(a, b), SameLeader(b)
  PROVE  SameLeader(a)
<1>1. Len(a) \in Nat /\ Len(b) \in Nat
  OBVIOUS
<1> QED BY <1>1 DEF PrefixOf, SameLeader

\* Beginnings of beginnings.
LEMMA PrefixTrans ==
  ASSUME NEW a \in Seq(Entry), NEW b \in Seq(Entry), NEW c \in Seq(Entry),
         PrefixOf(a, b), PrefixOf(b, c)
  PROVE  PrefixOf(a, c)
<1>1. Len(a) \in Nat /\ Len(b) \in Nat /\ Len(c) \in Nat
  OBVIOUS
<1> QED BY <1>1 DEF PrefixOf

\* What is in a chain is in what it is a beginning of.
LEMMA PrefixInChain ==
  ASSUME NEW a \in Seq(Entry), NEW b \in Seq(Entry), PrefixOf(a, b),
         NEW e, InChain(e, a)
  PROVE  InChain(e, b)
<1>1. Len(a) \in Nat /\ Len(b) \in Nat
  OBVIOUS
<1> QED BY <1>1 DEF PrefixOf, InChain

\* A step of one node keeps the invariant if the leader's chain only grows and
\* the chain of another node stays a beginning of it.
LEMMA FixedStep ==
  ASSUME FixedInv, TypeInv', NEW n \in Nodes, NEW t \in NodeState, Become(n, t),
         LedByGenesis(t),
         \A b \in proposals' : FromGenesis(b),
         n = Genesis => PrefixOf(node[n].chain, t.chain) /\ SameLeader(t.chain),
         n # Genesis => PrefixOf(t.chain, node[Genesis].chain),
         \A e \in anns' : e \in anns \/ (n = Genesis /\ InChain(e, t.chain))
  PROVE  FixedInv'
<1> DEFINE g == node[Genesis].chain
           k == node'[Genesis].chain
<1>1. \A m \in Nodes : node'[m] = IF m = n THEN t ELSE node[m]
  BY DEF Become, FixedInv, TypeInv, NodesOK
<1>2. Genesis \in Nodes
  BY NodesAssumption
<1>3. \A m \in Nodes : node[m].chain \in Seq(Entry)
  BY NodeOK DEF FixedInv
<1>4. t.chain \in Seq(Entry)
  BY DEF NodeState
<1>5. g \in Seq(Entry) /\ k \in Seq(Entry)
  BY <1>1, <1>2, <1>3, <1>4
<1>6. PrefixOf(g, k) /\ SameLeader(k)
  <2>1. CASE n = Genesis
    BY <1>1, <1>2, <2>1
  <2>2. CASE n # Genesis
    <3>1. k = g
      BY <1>1, <1>2, <2>2
    <3>2. PrefixOf(g, g) /\ SameLeader(g)
      BY <1>2 DEF FixedInv
    <3> QED BY <3>1, <3>2
  <2> QED BY <2>1, <2>2
<1>7. ASSUME NEW m \in Nodes
      PROVE  PrefixOf(node'[m].chain, k) /\ LedByGenesis(node'[m])
  <2>1. LedByGenesis(node'[m])
    BY <1>1 DEF FixedInv
  <2>2. CASE m # n
    <3>1. PrefixOf(node[m].chain, g)
      BY DEF FixedInv
    <3>2. PrefixOf(node[m].chain, k)
      BY <1>3, <1>5, <1>6, <3>1, PrefixTrans
    <3> QED BY <1>1, <2>1, <2>2, <3>2
  <2>3. CASE m = n /\ n = Genesis
    <3>1. node'[m].chain = k
      BY <2>3
    <3>2. PrefixOf(k, k)
      <4>1. Len(k) \in Nat
        BY <1>5
      <4> QED BY <4>1 DEF PrefixOf
    <3> QED BY <2>1, <3>1, <3>2
  <2>4. CASE m = n /\ n # Genesis
    <3>1. k = g /\ node'[m].chain = t.chain
      BY <1>1, <1>2, <2>4
    <3> QED BY <2>1, <2>4, <3>1
  <2> QED BY <2>2, <2>3, <2>4
<1>8. ASSUME NEW e \in anns'
      PROVE  InChain(e, k)
  <2>1. CASE e \in anns
    <3>1. InChain(e, g)
      BY <2>1 DEF FixedInv
    <3> QED BY <1>5, <1>6, <3>1, PrefixInChain
  <2>2. CASE n = Genesis /\ InChain(e, t.chain)
    BY <1>1, <1>2, <2>2
  <2> QED BY <2>1, <2>2
<1> QED BY <1>6, <1>7, <1>8 DEF FixedInv

\* Every kind of step keeps it, if no command and no loss is possible.
LEMMA KindsFixed ==
  ASSUME MaxPromote = 0, MaxLoss = 0, FixedInv, TypeInv', NEW n \in Nodes, Kinds(n)
  PROVE  FixedInv'
<1> DEFINE s == node[n]
           g == node[Genesis].chain
<1>1. /\ s \in NodeState /\ s.chain \in Seq(Entry) /\ g \in Seq(Entry)
      /\ Len(s.chain) \in Nat /\ Len(g) \in Nat
  BY NodeOK, NodesAssumption DEF FixedInv
<1>2. /\ LedByGenesis(s) /\ PrefixOf(s.chain, g) /\ SameLeader(g)
      /\ \A b \in proposals : FromGenesis(b)
      /\ n = Genesis => s.chain = g
  BY DEF FixedInv
<1>3. SameLeader(s.chain) /\ PrefixOf(s.chain, s.chain)
  BY <1>1, <1>2, PrefixSameLeader DEF PrefixOf
<1>4. used.promote \in Nat /\ used.loss \in Nat
  BY DEF FixedInv, TypeInv, NetOK, Used
<1>5. ASSUME NEW t \in NodeState, Become(n, t), UNCHANGED <<proposals, anns>>,
             t.chain = s.chain, LedByGenesis(t)
      PROVE  FixedInv'
  BY <1>2, <1>3, <1>5, FixedStep
<1>6. ASSUME NEW t, NEW d \in Seq(Entry), Grown(t, s, d), SameLeader(d)
      PROVE  LedByGenesis(t) /\ t.chain = d
  BY <1>2, <1>6, SameLeaderGenesis DEF Grown, LedByGenesis, FromGenesis
<1>7. CASE Stay(n)
  <2>1. PICK t \in NodeState : Become(n, t) /\ Kept(t, s)
    BY <1>7 DEF Stay
  <2>2. LedByGenesis(t) /\ t.chain = s.chain
    BY <1>2, <2>1 DEF Kept, LedByGenesis, FromGenesis
  <2> QED BY <1>5, <1>7, <2>1, <2>2 DEF Stay
<1>8. CASE Copy(n)
  <2>1. PICK t \in NodeState, m \in Nodes, d \in Seq(Entry) :
          /\ Become(n, t) /\ Grown(t, s, d)
          /\ Grows(d, s.chain, node[m].chain)
    BY <1>8 DEF Copy
  <2> DEFINE c == node[m].chain
  <2>2. PrefixOf(c, g) /\ c \in Seq(Entry) /\ Len(c) \in Nat
    BY NodeOK DEF FixedInv
  <2>3. Len(d) \in Nat /\ Grows(d, s.chain, c)
    BY <2>1
  <2> HIDE DEF c
  <2>4. PrefixOf(d, g)
    <3>1. Len(d) <= Len(g)
      BY <1>1, <1>2, <2>2, <2>3 DEF Grows, PrefixOf
    <3>2. ASSUME NEW h \in 1..Len(d)
          PROVE  d[h] = g[h]
      <4>1. d[h] = IF h <= Len(s.chain) THEN s.chain[h] ELSE c[h]
        BY <2>3 DEF Grows
      <4>2. h <= Len(s.chain) => s.chain[h] = g[h]
        BY <1>1, <1>2 DEF PrefixOf
      <4>3. h > Len(s.chain) => h \in 1..Len(c)
        BY <1>1, <2>2, <2>3 DEF Grows
      <4>4. h > Len(s.chain) => c[h] = g[h]
        BY <2>2, <4>3 DEF PrefixOf
      <4> QED BY <1>1, <4>1, <4>2, <4>4
    <3> QED BY <3>1, <3>2 DEF PrefixOf
  <2>5. SameLeader(d)
    BY <1>1, <1>2, <2>4, PrefixSameLeader
  <2>6. LedByGenesis(t) /\ t.chain = d
    BY <1>6, <2>1, <2>5
  <2>7. n = Genesis => PrefixOf(s.chain, d)
    <3>1. \A h \in 1..Len(s.chain) : d[h] = s.chain[h]
      BY <1>1, <2>3 DEF Grows
    <3> QED BY <2>3, <3>1 DEF Grows, PrefixOf
  <2> QED BY <1>2, <1>8, <2>1, <2>4, <2>5, <2>6, <2>7, FixedStep DEF Copy
<1>9. CASE Learn(n)
  <2>1. PICK t \in NodeState, e \in anns :
          /\ Become(n, t) /\ Grown(t, s, Append(s.chain, e))
          /\ e.blk.height = Len(s.chain) + 1
    BY <1>9 DEF Learn
  <2> DEFINE d == Append(s.chain, e)
  <2>2. e \in Entry /\ InChain(e, g)
    BY DEF FixedInv, TypeInv, NetOK
  <2>3. d \in Seq(Entry) /\ Len(d) = Len(s.chain) + 1 /\ d[Len(d)] = e
        /\ \A h \in 1..Len(s.chain) : d[h] = s.chain[h]
    BY <1>1, <2>2
  <2>4. n # Genesis
    BY <1>1, <1>2, <2>1, <2>2 DEF InChain
  <2>5. Grown(t, s, d)
    BY <2>1
  <2> HIDE DEF d
  <2>6. PrefixOf(d, g)
    <3>1. Len(d) <= Len(g) /\ g[Len(d)] = e
      BY <2>1, <2>2, <2>3 DEF InChain
    <3>2. ASSUME NEW h \in 1..Len(d)
          PROVE  d[h] = g[h]
      <4>1. CASE h = Len(d)
        BY <2>3, <3>1, <4>1
      <4>2. CASE h \in 1..Len(s.chain)
        BY <1>2, <2>3, <4>2 DEF PrefixOf
      <4> QED BY <1>1, <2>3, <4>1, <4>2
    <3> QED BY <3>1, <3>2 DEF PrefixOf
  <2>7. SameLeader(d)
    BY <1>1, <1>2, <2>3, <2>6, PrefixSameLeader
  <2>8. LedByGenesis(t) /\ t.chain = d
    BY <1>6, <2>3, <2>5, <2>7
  <2> QED BY <1>2, <1>9, <2>1, <2>4, <2>6, <2>8, FixedStep DEF Learn
<1>10. CASE Decide(n)
  <2>1. PICK t \in NodeState, e \in Entry :
          /\ Become(n, t) /\ Grown(t, s, Append(s.chain, e))
          /\ e.blk = s.prop /\ n \in {s.leader, s.prop.by}
          /\ anns' = anns \cup {e}
    BY <1>10 DEF Decide
  <2> DEFINE d == Append(s.chain, e)
  <2>2. s.prop # NoBlock /\ proposals' = proposals
    BY <1>10 DEF Decide
  <2>3. n = Genesis /\ e.blk.newLeader = NoNode
    BY <1>2, <2>1, <2>2 DEF LedByGenesis, FromGenesis
  <2>4. e.blk.height = Len(s.chain) + 1
    BY <2>1, <2>2, NodeOK DEF PropFits, FixedInv
  <2>5. d \in Seq(Entry) /\ Len(d) = Len(s.chain) + 1 /\ d[Len(d)] = e
        /\ \A h \in 1..Len(s.chain) : d[h] = s.chain[h]
    BY <1>1
  <2>6. Grown(t, s, d)
    BY <2>1
  <2> HIDE DEF d
  <2>7. PrefixOf(s.chain, d) /\ InChain(e, d)
    BY <1>1, <2>4, <2>5 DEF PrefixOf, InChain
  <2>8. SameLeader(d)
    <3>1. ASSUME NEW h \in 1..Len(d)
          PROVE  d[h].blk.newLeader = NoNode
      <4>1. CASE h = Len(d)
        BY <2>3, <2>5, <4>1
      <4>2. CASE h \in 1..Len(s.chain)
        BY <1>3, <2>5, <4>2 DEF SameLeader
      <4> QED BY <1>1, <2>5, <4>1, <4>2
    <3> QED BY <3>1 DEF SameLeader
  <2>9. LedByGenesis(t) /\ t.chain = d
    BY <1>6, <2>5, <2>6, <2>8
  <2> QED BY <1>2, <2>1, <2>2, <2>3, <2>7, <2>8, <2>9, FixedStep
<1>11. CASE Make(n)
  <2>1. PICK t \in NodeState, x \in Nat :
          /\ Become(n, t)
          /\ Alike(t, [s EXCEPT !.prop = NewBlock(n, s, x), !.status = "Proposed"])
          /\ proposals' = proposals \cup {NewBlock(n, s, x)}
    BY <1>11 DEF Make
  <2> DEFINE b == NewBlock(n, s, x)
             q == [s EXCEPT !.prop = b, !.status = "Proposed"]
  <2>2. n = Genesis
    BY <1>2, <1>11 DEF Make, LedByGenesis
  <2>3. FromGenesis(b)
    BY <1>1, <1>2, <2>2, NewBlockFacts, NodesAssumption DEF LedByGenesis, FromGenesis, FixedInv
  <2>4. Alike(t, q) /\ proposals' = proposals \cup {b} /\ anns' = anns
    BY <1>11, <2>1 DEF Make
  <2> HIDE DEF b
  <2>5. /\ q.prop = b /\ q.chain = s.chain /\ q.leader = s.leader
        /\ q.pending = s.pending /\ q.leaderFile = s.leaderFile
        /\ q.leaderUpdate = s.leaderUpdate
    BY <1>1 DEF NodeState
  <2> HIDE DEF q
  <2>6. LedByGenesis(t) /\ t.chain = s.chain
    BY <1>2, <2>3, <2>4, <2>5 DEF Alike, LedByGenesis
  <2>7. \A y \in proposals' : FromGenesis(y)
    BY <1>2, <2>3, <2>4
  <2> QED BY <1>2, <1>3, <2>1, <2>2, <2>4, <2>6, <2>7, FixedStep
<1>12. CASE Adopt(n)
  <2>1. PICK t \in NodeState, r \in NodeState :
          /\ Become(n, t) /\ Kept(r, s)
          /\ Alike(t, [r EXCEPT !.prop = s.pending, !.status = "Proposed"])
    BY <1>12 DEF Adopt
  <2>2. LedByGenesis(r) /\ r.chain = s.chain
    BY <1>2, <2>1 DEF Kept, LedByGenesis, FromGenesis
  <2>3. /\ t.prop = s.pending /\ t.chain = r.chain /\ t.leader = r.leader
        /\ t.pending = r.pending /\ t.leaderFile = r.leaderFile
        /\ t.leaderUpdate = r.leaderUpdate
    BY <2>1 DEF NodeState, Alike
  <2>4. LedByGenesis(t) /\ t.chain = s.chain
    BY <1>2, <2>2, <2>3 DEF LedByGenesis
  <2> QED BY <1>5, <1>12, <2>1, <2>4 DEF Adopt
<1>13. CASE Receive(n)
  <2>1. PICK t \in NodeState, b \in proposals :
          Become(n, t) /\ Alike(t, [s EXCEPT !.pending = b])
    BY <1>13 DEF Receive
  <2>2. /\ t.prop = s.prop /\ t.chain = s.chain /\ t.leader = s.leader
        /\ t.pending = b /\ t.leaderFile = s.leaderFile
        /\ t.leaderUpdate = s.leaderUpdate
    BY <1>1, <2>1 DEF NodeState, Alike
  <2>3. LedByGenesis(t)
    BY <1>2, <2>2 DEF LedByGenesis
  <2> QED BY <1>5, <1>13, <2>1, <2>2, <2>3 DEF Receive
<1>14. CASE Command(n)
  BY <1>4, <1>14 DEF Command
<1>15. CASE Lose(n)
  BY <1>4, <1>15 DEF Lose
<1> QED BY <1>7, <1>8, <1>9, <1>10, <1>11, <1>12, <1>13, <1>14, <1>15 DEF Kinds

\* The invariant holds always.
LEMMA FixedInvariant ==
  ASSUME MaxPromote = 0, MaxLoss = 0
  PROVE  Spec => []FixedInv
<1>1. Init => FixedInv
  <2>1. ASSUME Init PROVE FixedInv
    <3>1. TypeInv /\ \A n \in Nodes : Idle(node[n], NoUpdate, <<>>)
      BY <2>1, InitType
    <3>2. SameLeader(<<>>) /\ PrefixOf(<<>>, <<>>) /\ ParamLeader(<<>>) = Genesis
      <4>1. <<>> \in Seq(Entry) /\ Len(<<>>) = 0 /\ 1..0 = {}
        OBVIOUS
      <4>2. SameLeader(<<>>) /\ PrefixOf(<<>>, <<>>)
        BY <4>1 DEF SameLeader, PrefixOf
      <4>3. ParamLeader(<<>>) = Genesis
        BY <4>1, <4>2, SameLeaderGenesis
      <4> QED BY <4>2, <4>3
    <3>3. \A n \in Nodes : LedByGenesis(node[n]) /\ node[n].chain = <<>>
      BY <3>1, <3>2 DEF Idle, LedByGenesis, FromGenesis
    <3> QED BY <2>1, <3>1, <3>2, <3>3, NodesAssumption DEF FixedInv, Init
  <2> QED BY <2>1
<1>2. FixedInv /\ [Next]_vars => FixedInv'
  <2>1. ASSUME FixedInv, Next PROVE FixedInv'
    <3>1. PICK n \in Nodes : Kinds(n)
      BY <2>1, NextKinds DEF FixedInv
    <3>2. TypeInv'
      BY <2>1, <3>1, KindsType DEF FixedInv
    <3> QED BY <2>1, <3>1, <3>2, KindsFixed
  <2>2. ASSUME FixedInv, UNCHANGED vars PROVE FixedInv'
    BY <2>2 DEF vars, FixedInv, TypeInv, NodesOK, NetOK
  <2> QED BY <2>1, <2>2
<1> QED BY <1>1, <1>2, PTL DEF Spec

\* Two nodes never commit different blocks at one height, with any number of
\* nodes, heights, proposals, crashes and cancellations, as long as no leader
\* is replaced and no disk goes back (commit, processVotes, commitBlock,
\* processAndCommit, doCatchup, catchUpFromOutOfSync).
THEOREM AgreementUnderOneLeader ==
  ASSUME MaxPromote = 0, MaxLoss = 0
  PROVE  Spec => []Agreement
<1>1. FixedInv => Agreement
  <2>1. ASSUME FixedInv, NEW m \in Nodes, NEW n \in Nodes,
               NEW h \in DOMAIN node[m].chain \cap DOMAIN node[n].chain
        PROVE  node[m].chain[h].blk = node[n].chain[h].blk
    <3>1. node[m].chain \in Seq(Entry) /\ node[n].chain \in Seq(Entry)
      BY <2>1, NodeOK DEF FixedInv
    <3>2. h \in 1..Len(node[m].chain) /\ h \in 1..Len(node[n].chain)
      BY <3>1
    <3>3. /\ PrefixOf(node[m].chain, node[Genesis].chain)
          /\ PrefixOf(node[n].chain, node[Genesis].chain)
      BY <2>1 DEF FixedInv
    <3> QED BY <3>2, <3>3 DEF PrefixOf
  <2> QED BY <2>1 DEF Agreement
<1> QED BY <1>1, FixedInvariant, PTL

\* A block is never proposed at a height that was announced as committed, under
\* the same conditions (proposeBlock, processVotes).
THEOREM NoReproposalUnderOneLeader ==
  ASSUME MaxPromote = 0, MaxLoss = 0
  PROVE  Spec => NoReproposal
<1> DEFINE Step == \A b \in proposals' \ proposals : \A e \in anns :
                     e.blk.height < b.height
<1>1. FixedInv /\ [Next]_vars => Step
  <2>1. ASSUME FixedInv, Next, NEW b \in proposals' \ proposals, NEW e \in anns
        PROVE  e.blk.height < b.height
    <3>1. PICK n \in Nodes : Kinds(n)
      BY <2>1, NextKinds DEF FixedInv
    <3>2. Make(n)
      BY <2>1, <3>1 DEF Kinds, Stay, Copy, Learn, Decide, Adopt, Receive,
                        Command, Lose
    <3>3. n = Genesis
      BY <2>1, <3>2 DEF Make, FixedInv, LedByGenesis
    <3>4. PICK x \in Nat : proposals' = proposals \cup {NewBlock(n, node[n], x)}
      BY <3>2 DEF Make
    <3>5. b = NewBlock(n, node[n], x) /\ node[n] \in NodeState
      BY <2>1, <3>4, NodeOK DEF FixedInv
    <3>6. b.height = Len(node[n].chain) + 1
      BY <2>1, <3>3, <3>5, NewBlockFacts, NodesAssumption DEF FixedInv
    <3>7. e.blk.height \in 1..Len(node[n].chain)
      BY <2>1, <3>3 DEF FixedInv, InChain
    <3>8. Len(node[n].chain) \in Nat
      BY <2>1, NodeOK DEF FixedInv
    <3> QED BY <3>6, <3>7, <3>8
  <2>2. ASSUME UNCHANGED vars PROVE Step
    BY <2>2 DEF vars
  <2> QED BY <2>1, <2>2
<1>2. [Next]_vars /\ Step => [Step]_vars
  OBVIOUS
<1> QED BY <1>1, <1>2, FixedInvariant, PTL DEF Spec, NoReproposal
-----------------------------------------------------------------------------
(* What the shared state changes do to votes, signals and catch-ups        *)

\* States t and s have the same signals, catch-up, reset and mode.
SameRound(t, s) ==
  /\ t.newRound = s.newRound /\ t.newProposal = s.newProposal
  /\ t.catchup = s.catchup /\ t.reset = s.reset /\ t.mode = s.mode

\* resetState forgets the votes and the result and takes no signal.
LEMMA ResetFields ==
  ASSUME NEW s \in NodeState
  PROVE  /\ ResetState(s).votes = {} /\ ResetState(s).res = FALSE
         /\ SameRound(ResetState(s), s)
BY DEF ResetState, SameRound, NodeState

\* So does commit.
LEMMA CommitFields ==
  ASSUME NEW s \in NodeState, NEW e \in Entry
  PROVE  Commit(s, e).votes = {} /\ SameRound(Commit(s, e), s)
<1> DEFINE c == Append(s.chain, e)
           a == [s EXCEPT !.chain = c]
           t == ResetState(a)
           l == ParamLeader(t.chain)
<1>1. c \in Seq(Entry)
  BY DEF NodeState
<1>2. Commit(s, e) = [t EXCEPT !.leader = l]
  BY DEF Commit
<1> HIDE DEF c
<1>3. a \in NodeState /\ SameRound(a, s)
  BY <1>1 DEF NodeState, SameRound
<1> HIDE DEF a
<1>4. t \in NodeState /\ t.votes = {} /\ SameRound(t, a)
  BY <1>3, ResetFields, ResetFacts
<1> HIDE DEF t, l
<1>5. [t EXCEPT !.leader = l].votes = {} /\ SameRound([t EXCEPT !.leader = l], t)
  BY <1>4 DEF NodeState, SameRound
<1> QED BY <1>2, <1>3, <1>4, <1>5 DEF SameRound

\* applyLeaderUpdates touches neither.
LEMMA ApplyFields ==
  ASSUME NEW s \in NodeState
  PROVE  /\ ApplyLeaderUpdates(s).votes = s.votes
         /\ ApplyLeaderUpdates(s).res = s.res
         /\ SameRound(ApplyLeaderUpdates(s), s)
<1> DEFINE f == s.leaderFile
           a == [s EXCEPT !.leaderFile = NoUpdate]
           b == [s EXCEPT !.leader = f.cand, !.leaderUpdate = f]
<1>1. ApplyLeaderUpdates(s) \in {s, a, b}
  BY DEF ApplyLeaderUpdates
<1>2. a.votes = s.votes /\ a.res = s.res /\ SameRound(a, s)
  BY DEF NodeState, SameRound
<1>3. b.votes = s.votes /\ b.res = s.res /\ SameRound(b, s)
  BY DEF NodeState, SameRound
<1>4. SameRound(s, s)
  BY DEF SameRound
<1> HIDE DEF a, b
<1> QED BY <1>1, <1>2, <1>3, <1>4

\* A signal is one more on newRound, if the node leads.
LEMMA SignalFields ==
  ASSUME NEW s \in NodeState, NEW n \in Nodes
  PROVE  LET t == SignalRound(n, s) IN
         /\ t.votes = s.votes /\ t.res = s.res /\ t.prop = s.prop
         /\ t.mode = s.mode /\ t.newProposal = s.newProposal
         /\ t.catchup = s.catchup /\ t.reset = s.reset /\ t.leader = s.leader
         /\ t.newRound = IF s.leader = n THEN s.newRound + 1 ELSE s.newRound
<1> DEFINE k == s.newRound + 1
           t == [s EXCEPT !.newRound = k]
<1>1. SignalRound(n, s) = IF s.leader = n THEN t ELSE s
  BY DEF SignalRound, Role
<1> HIDE DEF k
<1>2. /\ t.votes = s.votes /\ t.res = s.res /\ t.prop = s.prop
      /\ t.mode = s.mode /\ t.newProposal = s.newProposal
      /\ t.catchup = s.catchup /\ t.reset = s.reset /\ t.leader = s.leader
      /\ t.newRound = k
  BY DEF NodeState
<1> HIDE DEF t
<1> QED BY <1>1, <1>2 DEF k

\* Halting keeps everything but the mode.
LEMMA HaltFields ==
  ASSUME NEW s \in NodeState
  PROVE  Halt(s).mode # "run"
BY DEF Halt, NodeState

-----------------------------------------------------------------------------
(* Every commit is certified                                               *)

\* Validator v has voted for block b, by proposing it or by one of the acks A.
Cast(b, v, A) == v = b.by \/ [from |-> v, blk |-> b, ack |-> TRUE] \in A

Certified(e, A) ==
  HasMajority(Cardinality(e.votes)) /\ \A v \in e.votes : Cast(e.blk, v, A)

CertifiedChain(c, A) == \A h \in 1..Len(c) : Certified(c[h], A)

\* The votes a running node holds are votes for the proposal it has executed.
VotesFit(s, A) ==
  s.mode = "run" =>
    \A v \in s.votes : /\ s.prop # NoBlock /\ s.res
                       /\ v.ack => Cast(s.prop, v.from, A)

CertInv ==
  /\ TypeInv
  /\ \A n \in Nodes : VotesFit(node[n], acks) /\ CertifiedChain(node[n].chain, acks)
  /\ \A e \in anns : Certified(e, acks)

\* More acks certify no less.
LEMMA MoreAcks ==
  ASSUME NEW A, NEW B, A \subseteq B
  PROVE  /\ \A e : Certified(e, A) => Certified(e, B)
         /\ \A c : CertifiedChain(c, A) => CertifiedChain(c, B)
         /\ \A s : VotesFit(s, A) => VotesFit(s, B)
<1>1. \A b, v : Cast(b, v, A) => Cast(b, v, B)
  BY DEF Cast
<1>2. \A e : Certified(e, A) => Certified(e, B)
  BY <1>1 DEF Certified
<1>3. \A c : CertifiedChain(c, A) => CertifiedChain(c, B)
  BY <1>2 DEF CertifiedChain
<1>4. \A s : VotesFit(s, A) => VotesFit(s, B)
  BY <1>1 DEF VotesFit
<1> QED BY <1>2, <1>3, <1>4

\* A state without votes, or of a node that does not run, fits.
LEMMA NoVotesFit ==
  ASSUME NEW s, NEW A, s.votes = {} \/ s.mode # "run"
  PROVE  VotesFit(s, A)
BY DEF VotesFit

\* A state with the votes, the proposal and the result of one that fits.
LEMMA SameVotesFit ==
  ASSUME NEW s, NEW t, NEW A, VotesFit(s, A), t.votes = s.votes, t.prop = s.prop,
         s.res => t.res, t.mode = "run" => s.mode = "run"
  PROVE  VotesFit(t, A)
BY DEF VotesFit

\* applyLeaderUpdates keeps the votes.
LEMMA ApplyFit ==
  ASSUME NEW s \in NodeState, NEW A, VotesFit(s, A)
  PROVE  VotesFit(ApplyLeaderUpdates(s), A)
<1> DEFINE t == ApplyLeaderUpdates(s)
<1>1. t.votes = s.votes /\ t.prop = s.prop /\ t.res = s.res /\ t.mode = s.mode
  BY ApplyFields, ApplyFacts DEF SameRound
<1> QED BY <1>1, SameVotesFit

\* So does a signal.
LEMMA SignalFit ==
  ASSUME NEW s \in NodeState, NEW n \in Nodes, NEW A, VotesFit(s, A)
  PROVE  VotesFit(SignalRound(n, s), A)
<1> DEFINE t == SignalRound(n, s)
<1>1. t.votes = s.votes /\ t.prop = s.prop /\ t.res = s.res /\ t.mode = s.mode
  BY SignalFields
<1> QED BY <1>1, SameVotesFit

\* processAndCommit keeps the votes or forgets them.
LEMMA ProcessFit ==
  ASSUME NEW s \in NodeState, NEW e \in Entry, NEW A, VotesFit(s, A)
  PROVE  VotesFit(ProcessAndCommit(s, e), A)
<1> DEFINE h == e.blk.height
           t == [s EXCEPT !.hasBlock = h]
<1>1. ProcessAndCommit(s, e) \in {Commit(s, e), t}
  BY DEF ProcessAndCommit
<1>2. VotesFit(Commit(s, e), A)
  BY CommitFields, NoVotesFit
<1> HIDE DEF h
<1>3. t.votes = s.votes /\ t.prop = s.prop /\ t.res = s.res /\ t.mode = s.mode
  BY DEF NodeState
<1> HIDE DEF t
<1>4. VotesFit(t, A)
  BY <1>3, SameVotesFit
<1> QED BY <1>1, <1>2, <1>4

\* A replay keeps them or forgets them.
LEMMA ReplayFit ==
  ASSUME NEW s \in NodeState, NEW c \in Seq(Entry), NEW k \in Nat,
         k <= Height(s) \/ k <= Len(c), NEW A, VotesFit(s, A)
  PROVE  VotesFit(Replay(s, c, k), A) /\ Replay(s, c, k) \in NodeState
<1> DEFINE d == Extended(s.chain, c, k)
           a == [s EXCEPT !.chain = d]
           t == ResetState(a)
           l == ParamLeader(t.chain)
<1>1. s.chain \in Seq(Entry) /\ Height(s) = Len(s.chain) /\ Height(s) \in Nat
  BY DEF NodeState, Height
<1>2. CASE k <= Height(s)
  BY <1>2 DEF Replay
<1>3. CASE k > Height(s)
  <2>1. k <= Len(c)
    BY <1>1, <1>3
  <2>2. d \in Seq(Entry)
    BY <1>1, <1>3, <2>1, ExtendFacts
  <2>3. Replay(s, c, k) = [t EXCEPT !.leader = l]
    <3>1. ~(k <= Height(s))
      BY <1>1, <1>3
    <3> QED BY <3>1 DEF Replay, Extended, Height
  <2>4. Replay(s, c, k) \in NodeState
    BY <1>3, <2>1, ReplayFacts
  <2> HIDE DEF d
  <2>5. a \in NodeState
    BY <2>2 DEF NodeState
  <2> HIDE DEF a
  <2>6. t \in NodeState /\ t.votes = {}
    BY <2>5, ResetFields, ResetFacts
  <2> HIDE DEF t, l
  <2>7. [t EXCEPT !.leader = l].votes = {}
    BY <2>6 DEF NodeState
  <2> QED BY <2>3, <2>4, <2>7, NoVotesFit
<1> QED BY <1>1, <1>2, <1>3

\* A node starts without votes.
LEMMA StartNoVotes ==
  ASSUME NEW n \in Nodes, NEW c \in Seq(Entry), NEW f \in Update \cup {NoUpdate},
         NEW p \in Seq(Entry), NEW k \in Nat, k <= Len(c) \/ k <= Len(p), NEW A
  PROVE  VotesFit(Start(n, c, f, p, k), A)
<1> DEFINE l == ParamLeader(c)
           w == Len(c)
           s == [chain |-> c, leaderFile |-> f, mode |-> "run",
                 leader |-> l, prop |-> NoBlock, res |-> FALSE,
                 status |-> "Committed", votes |-> {}, leaderUpdate |-> NoUpdate,
                 hasBlock |-> w, pending |-> NoBlock, newRound |-> 0,
                 newProposal |-> 0, catchup |-> NoCatchup, reset |-> 0]
           r == Replay(s, p, k)
           u == ApplyLeaderUpdates(r)
           v == [u EXCEPT !.newProposal = 1]
<1>1. l \in Validators /\ w \in Nat /\ w = Len(c)
  BY ParamLeaderType
<1>2. Start(n, c, f, p, k) \in {u, v}
  BY DEF Start
<1> HIDE DEF l, w
<1>3. s \in NodeState /\ s.votes = {} /\ s.chain = c
  BY <1>1 DEF NodeState
<1> HIDE DEF s
<1>4. VotesFit(s, A) /\ (k <= Height(s) \/ k <= Len(p))
  BY <1>1, <1>3, NoVotesFit DEF Height
<1>5. VotesFit(r, A) /\ r \in NodeState
  BY <1>3, <1>4, ReplayFit
<1> HIDE DEF r
<1>6. VotesFit(u, A) /\ u \in NodeState
  BY <1>5, ApplyFit, ApplyFacts
<1> HIDE DEF u
<1>7. v.votes = u.votes /\ v.prop = u.prop /\ v.res = u.res /\ v.mode = u.mode
  BY <1>6 DEF NodeState
<1> HIDE DEF v
<1>8. VotesFit(v, A)
  BY <1>6, <1>7, SameVotesFit
<1> QED BY <1>2, <1>6, <1>8

\* No step takes an ack back.
LEMMA AcksGrow ==
  ASSUME Next
  PROVE  acks \subseteq acks'
<1>1. PICK n \in Nodes : LeaderStep(n) \/ FollowerStep(n) \/ EnvironmentStep(n)
  BY DEF Next
<1>2. CASE LeaderStep(n)
  BY <1>2 DEF LeaderStep, NewRound, DropNewProposal, ProposeBlock, FinishProposal,
              AddVote, CancelBlockExecution, LeaderCatchup, BeginCatchup,
              ProbeCatchup, ApplyCatchup, EndCatchup, net
<1>3. CASE FollowerStep(n)
  BY <1>3 DEF FollowerStep, AcceptProposal, SendOutOfSyncNack, IgnoreProposal,
              ProcessBlockProposal, FinishExecution, CommitBlock, ReannounceAck,
              DoCatchup, CancelBlock, ResetBlockProp, net
<1>4. CASE EnvironmentStep(n)
  BY <1>4 DEF EnvironmentStep, PromoteLeader, Crash, Restart, RestoreOld, net
<1> QED BY <1>1, <1>2, <1>3, <1>4

\* What CertInv says of one node.
LEMMA CertNode ==
  ASSUME CertInv, NEW n \in Nodes
  PROVE  /\ node[n] \in NodeState /\ VotesFit(node[n], acks) /\ TypeInv
         /\ \A t : Become(n, t) => node'[n] = t
BY NodeOK DEF CertInv, TypeInv, NodesOK, Become

\* newRound.
LEMMA NewRoundFit ==
  ASSUME CertInv, NEW n \in Nodes, NewRound(n)
  PROVE  VotesFit(node'[n], acks)
<1> DEFINE s == node[n]
           k == s.newRound - 1
           r == [s EXCEPT !.newRound = k]
           a == ApplyLeaderUpdates(r)
           p == a.newProposal + 1
           b == [a EXCEPT !.newProposal = p]
<1>1. s \in NodeState /\ VotesFit(s, acks)
  BY CertNode
<1>2. k \in Nat
  BY <1>1 DEF NewRound, NodeState
<1>3. node'[n] = a \/ node'[n] = b
  BY CertNode DEF NewRound
<1> HIDE DEF k
<1>4. /\ r \in NodeState /\ r.votes = s.votes /\ r.prop = s.prop /\ r.res = s.res
      /\ r.mode = s.mode
  BY <1>1, <1>2 DEF NodeState
<1> HIDE DEF r
<1>5. VotesFit(r, acks)
  BY <1>1, <1>4, SameVotesFit
<1>6. a \in NodeState /\ VotesFit(a, acks)
  BY <1>4, <1>5, ApplyFit, ApplyFacts
<1> HIDE DEF a, p
<1>7. b.votes = a.votes /\ b.prop = a.prop /\ b.res = a.res /\ b.mode = a.mode
  BY <1>6 DEF NodeState
<1> HIDE DEF b
<1>8. VotesFit(b, acks)
  BY <1>6, <1>7, SameVotesFit
<1> QED BY <1>3, <1>6, <1>8

\* The steps that touch signals, catch-ups, marks or the mode only.
LEMMA SmallStepsFit ==
  ASSUME CertInv, NEW n \in Nodes,
         \/ DropNewProposal(n)
         \/ \E x \in nacks : BeginCatchup(n, x)
         \/ \E b \in proposals : AcceptProposal(n, b) \/ SendOutOfSyncNack(n, b)
         \/ IgnoreProposal(n)
         \/ FinishExecution(n)
         \/ ReannounceAck(n)
         \/ \E r \in resets : CancelBlock(n, r)
         \/ \E c \in Nodes, h \in Nat : PromoteLeader(n, c, h)
         \/ Crash(n)
  PROVE  VotesFit(node'[n], acks)
<1> DEFINE s == node[n]
           Same(t) == /\ t.votes = s.votes /\ t.prop = s.prop
                      /\ s.res => t.res
                      /\ t.mode = "run" => s.mode = "run"
<1>1. s \in NodeState /\ VotesFit(s, acks) /\ \A t : Become(n, t) => node'[n] = t
  BY CertNode
<1>2. DropNewProposal(n) => Same(node'[n])
  BY <1>1 DEF DropNewProposal, NodeState
<1>3. ASSUME NEW x \in nacks, BeginCatchup(n, x)
      PROVE  Same(node'[n])
  <2>1. \E c : Become(n, [s EXCEPT !.catchup = c])
    BY <1>3 DEF BeginCatchup
  <2> QED BY <1>1, <2>1 DEF NodeState
<1>4. ASSUME NEW b \in proposals, AcceptProposal(n, b)
      PROVE  Same(node'[n])
  BY <1>1, <1>4 DEF AcceptProposal, NodeState
<1>5. ASSUME NEW b \in proposals, SendOutOfSyncNack(n, b)
      PROVE  Same(node'[n])
  BY <1>1, <1>5 DEF SendOutOfSyncNack
<1>6. IgnoreProposal(n) => Same(node'[n])
  BY <1>1 DEF IgnoreProposal, NodeState
<1>7. FinishExecution(n) => Same(node'[n])
  BY <1>1 DEF FinishExecution, NodeState, Running
<1>8. ReannounceAck(n) => Same(node'[n])
  <2>1. ReannounceAck(n) => node' = node \/ Become(n, [s EXCEPT !.mode = "panicked"])
    BY DEF ReannounceAck
  <2> QED BY <1>1, <2>1 DEF NodeState
<1>9. ASSUME NEW r \in resets, CancelBlock(n, r)
      PROVE  Same(node'[n])
  <2> DEFINE h == r.height
             u == [s EXCEPT !.reset = h]
             v == [u EXCEPT !.status = "Executed"]
  <2>1. Become(n, u) \/ Become(n, v)
    BY <1>9 DEF CancelBlock
  <2> HIDE DEF h
  <2>2. Same(u) /\ Same(v)
    BY <1>1 DEF NodeState
  <2> HIDE DEF u, v
  <2> QED BY <1>1, <2>1, <2>2
<1>10. ASSUME NEW c \in Nodes, NEW h \in Nat, PromoteLeader(n, c, h)
       PROVE  Same(node'[n])
  BY <1>1, <1>10 DEF PromoteLeader, NodeState
<1>11. Crash(n) => Same(node'[n])
  BY <1>1 DEF Crash, NodeState
<1>12. Same(node'[n])
  BY <1>2, <1>3, <1>4, <1>5, <1>6, <1>7, <1>8, <1>9, <1>10, <1>11
<1> QED BY <1>1, <1>12, SameVotesFit

\* proposeBlock: a node that holds votes has executed its proposal, and the
\* database stops it.
LEMMA ProposeBlockFit ==
  ASSUME CertInv, NEW n \in Nodes, ProposeBlock(n)
  PROVE  VotesFit(node'[n], acks)
<1> DEFINE s == node[n]
           k == s.newProposal - 1
<1>1. s \in NodeState /\ VotesFit(s, acks) /\ \A t : Become(n, t) => node'[n] = t
  BY CertNode
<1>2. PICK b : LET p == [s EXCEPT !.newProposal = k, !.prop = b, !.status = "Proposed"]
               IN  Become(n, IF s.prop # NoBlock /\ s.res THEN Halt(p) ELSE p)
  BY DEF ProposeBlock
<1> HIDE DEF k
<1> DEFINE p == [s EXCEPT !.newProposal = k, !.prop = b, !.status = "Proposed"]
<1>3. p.votes = s.votes /\ Halt(p).mode = "halted"
  BY <1>1 DEF NodeState, Halt
<1>4. node'[n] = IF s.prop # NoBlock /\ s.res THEN Halt(p) ELSE p
  BY <1>1, <1>2
<1> HIDE DEF p
<1>5. CASE s.prop # NoBlock /\ s.res
  BY <1>3, <1>4, <1>5, NoVotesFit
<1>6. CASE ~(s.prop # NoBlock /\ s.res)
  <2>1. s.votes = {}
    BY <1>1, <1>6 DEF VotesFit, ProposeBlock, Ready, Running
  <2> QED BY <1>3, <1>4, <1>6, <2>1, NoVotesFit
<1> QED BY <1>5, <1>6

\* processVotes keeps the votes, or forgets them with the commit.
LEMMA ProcessVotesFit ==
  ASSUME CertInv, NEW n \in Nodes, NEW s \in NodeState, VotesFit(s, acks),
         s.prop \in Block, ProcessVotes(n, s)
  PROVE  VotesFit(node'[n], acks)
<1> DEFINE e == CommitEntry(s)
           c == Commit(s, e)
<1>1. e \in Entry
  <2>1. s.votes \subseteq Vote
    BY DEF NodeState
  <2>2. Acked(s) \subseteq Validators
    BY <2>1 DEF Acked, Vote
  <2> QED BY <2>2 DEF CommitEntry, Entry
<1>2. node'[n] \in {Halt(s), SignalRound(n, c), s}
  BY CertNode DEF ProcessVotes
<1> HIDE DEF e
<1>3. c \in NodeState /\ VotesFit(c, acks)
  BY <1>1, CommitFacts, CommitFields, NoVotesFit
<1> HIDE DEF c
<1>4. VotesFit(SignalRound(n, c), acks)
  BY <1>3, SignalFit
<1>5. VotesFit(Halt(s), acks)
  BY HaltFields, NoVotesFit
<1> QED BY <1>2, <1>4, <1>5

\* The leader's own vote is for its proposal.
LEMMA FinishProposalFit ==
  ASSUME CertInv, NEW n \in Nodes, FinishProposal(n)
  PROVE  VotesFit(node'[n], acks)
<1> DEFINE s == node[n]
           w == [from |-> n, ack |-> TRUE]
           v == s.votes \cup {w}
           t == [s EXCEPT !.status = "Executed", !.res = TRUE, !.votes = v]
<1>1. s \in NodeState /\ s.prop \in Block /\ VotesFit(s, acks) /\ s.mode = "run"
  BY CertNode, NodeOK DEF FinishProposal, Executing, Running
<1>2. v \in SUBSET Vote
  <2>1. s.votes \subseteq Vote
    BY <1>1 DEF NodeState
  <2>2. w \in Vote
    BY <1>1 DEF Vote, Block, FinishProposal
  <2> QED BY <2>1, <2>2
<1>3. ProcessVotes(n, t)
  BY DEF FinishProposal
<1>4. \A x \in v : x.ack => Cast(s.prop, x.from, acks)
  BY <1>1 DEF VotesFit, Cast, FinishProposal
<1> HIDE DEF v
<1>5. t \in NodeState /\ t.prop = s.prop /\ t.votes = v /\ t.res = TRUE
  BY <1>1, <1>2 DEF NodeState
<1> HIDE DEF t
<1>6. VotesFit(t, acks)
  BY <1>1, <1>4, <1>5, NilAssumption DEF VotesFit
<1> QED BY <1>1, <1>3, <1>5, <1>6, ProcessVotesFit

\* A vote is counted for the proposal it names.
LEMMA AddVoteFit ==
  ASSUME CertInv, NEW n \in Nodes, NEW a \in acks, AddVote(n, a)
  PROVE  VotesFit(node'[n], acks)
<1> DEFINE s == node[n]
           w == [from |-> a.from, ack |-> a.ack]
           v == s.votes \cup {w}
           t == [s EXCEPT !.votes = v]
<1>1. s \in NodeState /\ VotesFit(s, acks) /\ s.mode = "run"
  BY CertNode DEF AddVote, Ready, Running
<1>2. a \in Ack
  BY DEF CertInv, TypeInv, NetOK
<1>3. s.prop \in Block /\ s.prop = a.blk /\ s.res
  BY <1>2 DEF AddVote, Ack
<1>4. v \in SUBSET Vote
  <2>1. s.votes \subseteq Vote
    BY <1>1 DEF NodeState
  <2>2. w \in Vote
    BY <1>2 DEF Vote, Ack, AddVote
  <2> QED BY <2>1, <2>2
<1>5. ProcessVotes(n, t)
  BY DEF AddVote
<1>6. \A x \in v : x.ack => Cast(s.prop, x.from, acks)
  <2>1. ASSUME NEW x \in s.votes, x.ack PROVE Cast(s.prop, x.from, acks)
    BY <1>1, <2>1 DEF VotesFit
  <2>2. ASSUME w.ack PROVE Cast(s.prop, w.from, acks)
    <3>1. a = [from |-> a.from, blk |-> s.prop, ack |-> TRUE]
      BY <1>2, <1>3, <2>2 DEF Ack
    <3>2. w.from = a.from
      OBVIOUS
    <3> HIDE DEF w
    <3> QED BY <3>1, <3>2 DEF Cast
  <2> QED BY <2>1, <2>2
<1> HIDE DEF v
<1>7. t \in NodeState /\ t.prop = s.prop /\ t.votes = v /\ t.res = s.res
  BY <1>1, <1>4 DEF NodeState
<1> HIDE DEF t
<1>8. VotesFit(t, acks)
  BY <1>3, <1>6, <1>7, NilAssumption DEF VotesFit
<1> QED BY <1>3, <1>5, <1>7, <1>8, ProcessVotesFit

\* CancelBlockExecution and resetBlockProp forget the votes with the proposal,
\* or leave both.
LEMMA RollbackStepsFit ==
  ASSUME CertInv, NEW n \in Nodes,
         CancelBlockExecution(n) \/ ProbeCatchup(n) \/ ResetBlockProp(n)
  PROVE  VotesFit(node'[n], acks)
<1> DEFINE s == node[n]
           r == RollbackState(s)
           b == [s EXCEPT !.status = "Executed"]
           d == [s EXCEPT !.catchup = NoCatchup]
<1>1. s \in NodeState /\ VotesFit(s, acks) /\ \A t : Become(n, t) => node'[n] = t
  BY CertNode
<1>2. \/ \E x : node'[n] = [r EXCEPT !.newProposal = x]
      \/ \E x : node'[n] = [r EXCEPT !.catchup = x]
      \/ \E x : node'[n] = [r EXCEPT !.reset = x]
      \/ node'[n] = b
      \/ node'[n] = d
  BY <1>1 DEF CancelBlockExecution, ProbeCatchup, ResetBlockProp
<1>3. r \in NodeState /\ r.votes = {}
  BY <1>1, ResetFacts, ResetFields DEF RollbackState
<1> HIDE DEF r
<1>4. ASSUME NEW x
      PROVE  /\ [r EXCEPT !.newProposal = x].votes = {}
             /\ [r EXCEPT !.catchup = x].votes = {}
             /\ [r EXCEPT !.reset = x].votes = {}
  BY <1>3 DEF NodeState
<1>5. b.votes = s.votes /\ b.prop = s.prop /\ b.res = s.res /\ b.mode = s.mode
  BY <1>1 DEF NodeState
<1>6. d.votes = s.votes /\ d.prop = s.prop /\ d.res = s.res /\ d.mode = s.mode
  BY <1>1 DEF NodeState
<1> HIDE DEF b, d
<1>7. VotesFit(b, acks) /\ VotesFit(d, acks)
  BY <1>1, <1>5, <1>6, SameVotesFit
<1>8. node'[n].votes = {} => VotesFit(node'[n], acks)
  BY NoVotesFit
<1> QED BY <1>2, <1>4, <1>7, <1>8

\* doCatchup of a leader, and the end of an out-of-sync catch-up.
LEMMA EndStepsFit ==
  ASSUME CertInv, NEW n \in Nodes, LeaderCatchup(n) \/ EndCatchup(n)
  PROVE  VotesFit(node'[n], acks)
<1> DEFINE s == node[n]
           d == [s EXCEPT !.catchup = NoCatchup]
<1>1. s \in NodeState /\ VotesFit(s, acks) /\ \A t : Become(n, t) => node'[n] = t
  BY CertNode
<1>2. node'[n] = ApplyLeaderUpdates(s) \/ node'[n] = SignalRound(n, d)
  BY <1>1 DEF LeaderCatchup, EndCatchup
<1>3. d \in NodeState
  BY <1>1 DEF NodeState
<1>4. d.votes = s.votes /\ d.prop = s.prop /\ d.res = s.res /\ d.mode = s.mode
  BY <1>1 DEF NodeState
<1> HIDE DEF d
<1>5. VotesFit(d, acks)
  BY <1>1, <1>4, SameVotesFit
<1>6. VotesFit(SignalRound(n, d), acks) /\ VotesFit(ApplyLeaderUpdates(s), acks)
  BY <1>1, <1>3, <1>5, SignalFit, ApplyFit
<1> QED BY <1>2, <1>6

\* A block of the out-of-sync catch-up.
LEMMA ApplyCatchupFit ==
  ASSUME CertInv, NEW n \in Nodes, NEW m \in Nodes, ApplyCatchup(n, m)
  PROVE  VotesFit(node'[n], acks)
<1> DEFINE s == node[n]
           h == s.catchup.next
           c == node[m].chain
           e == c[h]
           p == ProcessAndCommit(s, e)
<1>1. s \in NodeState /\ VotesFit(s, acks) /\ \A t : Become(n, t) => node'[n] = t
  BY CertNode
<1>2. PICK x : \/ node'[n] = [p EXCEPT !.catchup = x]
               \/ node'[n] = Halt([p EXCEPT !.catchup = x])
  BY <1>1 DEF ApplyCatchup
<1>3. e \in Entry
  <2>1. h \in Nat \ {0}
    BY <1>1 DEF ApplyCatchup, NodeState, CatchupRun
  <2>2. c \in Seq(Entry) /\ h <= Len(c)
    BY NodeOK, CertNode DEF ApplyCatchup
  <2> QED BY <2>1, <2>2
<1> HIDE DEF e
<1>4. p \in NodeState
  BY <1>1, <1>3, ProcessFacts, CommitFacts DEF Alike
<1>5. VotesFit(p, acks)
  BY <1>1, <1>3, ProcessFit
<1> HIDE DEF p
<1> DEFINE q == [p EXCEPT !.catchup = x]
<1>6. /\ q.votes = p.votes /\ q.prop = p.prop /\ q.res = p.res /\ q.mode = p.mode
      /\ Halt(q).mode = "halted"
  BY <1>4 DEF NodeState, Halt
<1>7. node'[n] = q \/ node'[n] = Halt(q)
  BY <1>2
<1> HIDE DEF q
<1>8. VotesFit(q, acks) /\ VotesFit(Halt(q), acks)
  BY <1>5, <1>6, SameVotesFit, NoVotesFit
<1> QED BY <1>7, <1>8

\* processBlockProposal rolls the replaced proposal back with its votes.
LEMMA ProcessBlockProposalFit ==
  ASSUME CertInv, NEW n \in Nodes, ProcessBlockProposal(n)
  PROVE  VotesFit(node'[n], acks)
<1> DEFINE b == node[n].pending
           r == [node[n] EXCEPT !.pending = NoBlock]
           s == IF r.prop = NoBlock THEN r ELSE RollbackState(r)
           t == [s EXCEPT !.prop = b, !.res = FALSE, !.status = "Proposed"]
<1>1. /\ node[n] \in NodeState /\ VotesFit(node[n], acks)
      /\ \A x : Become(n, x) => node'[n] = x
  BY CertNode
<1>2. node'[n] = s \/ node'[n] = t
  BY <1>1 DEF ProcessBlockProposal
<1> HIDE DEF b
<1>3. r \in NodeState
  BY <1>1 DEF NodeState
<1>4. r.prop = node[n].prop /\ r.votes = node[n].votes
  BY <1>1 DEF NodeState
<1> HIDE DEF r
<1>5. RollbackState(r).votes = {} /\ RollbackState(r) \in NodeState
  BY <1>3, ResetFields, ResetFacts DEF RollbackState
<1>6. r.prop = NoBlock => r.votes = {}
  BY <1>1, <1>4 DEF VotesFit, ProcessBlockProposal, Ready, Running
<1>7. s.votes = {} /\ s \in NodeState
  BY <1>3, <1>5, <1>6
<1> HIDE DEF s
<1>8. t.votes = {}
  BY <1>7 DEF NodeState
<1> HIDE DEF t
<1> QED BY <1>2, <1>7, <1>8, NoVotesFit

\* A block announcement.
LEMMA CommitBlockFit ==
  ASSUME CertInv, NEW n \in Nodes, NEW e \in anns, CommitBlock(n, e)
  PROVE  VotesFit(node'[n], acks)
<1> DEFINE s == node[n]
           r == RollbackState(s)
           h == e.blk.height
           p == [s EXCEPT !.mode = "panicked"]
           q == [s EXCEPT !.hasBlock = h]
           t == Committed(n, s, e)
           u == ApplyLeaderUpdates(t)
           v == SignalRound(n, u)
<1>1. /\ s \in NodeState /\ VotesFit(s, acks) /\ PropFits(s)
      /\ \A x : Become(n, x) => node'[n] = x
  BY CertNode, NodeOK
<1>2. e \in Entry
  BY DEF CertInv, TypeInv, NetOK
<1>3. node'[n] \in {t, u, v}
  BY <1>1 DEF CommitBlock
<1>4. t \in {ProcessAndCommit(s, e), ProcessAndCommit(r, e), p, Commit(s, e), q}
  BY DEF Committed
<1>5. t \in NodeState
  BY <1>1, <1>2, CommittedFacts DEF Kept, Grown
<1> HIDE DEF t, h
<1>6. r \in NodeState /\ VotesFit(r, acks)
  BY <1>1, ResetFacts, ResetFields, NoVotesFit DEF RollbackState
<1> HIDE DEF r
<1>7. VotesFit(ProcessAndCommit(s, e), acks) /\ VotesFit(ProcessAndCommit(r, e), acks)
  BY <1>1, <1>2, <1>6, ProcessFit
<1>8. VotesFit(Commit(s, e), acks)
  BY <1>1, <1>2, CommitFields, NoVotesFit
<1>9. q.votes = s.votes /\ q.prop = s.prop /\ q.res = s.res /\ q.mode = s.mode
  BY <1>1 DEF NodeState
<1>10. p.mode # "run"
  BY <1>1 DEF NodeState
<1> HIDE DEF p, q
<1>11. VotesFit(p, acks) /\ VotesFit(q, acks)
  BY <1>1, <1>9, <1>10, SameVotesFit, NoVotesFit
<1>12. VotesFit(t, acks)
  BY <1>4, <1>7, <1>8, <1>11
<1>13. u \in NodeState /\ VotesFit(u, acks)
  BY <1>5, <1>12, ApplyFit, ApplyFacts
<1> HIDE DEF u
<1>14. VotesFit(v, acks)
  BY <1>13, SignalFit
<1> QED BY <1>3, <1>12, <1>13, <1>14

\* doCatchup.
LEMMA DoCatchupFit ==
  ASSUME CertInv, NEW n \in Nodes, NEW m \in Nodes, NEW k \in Nat,
         DoCatchup(n, m, k)
  PROVE  VotesFit(node'[n], acks)
<1> DEFINE s == node[n]
           c == node[m].chain
           r == RollbackState(s)
           e == c[s.prop.height]
           t == ProcessCurrentBlock(n, s, c)
           y == Replay(t, c, k)
           u == ApplyLeaderUpdates(y)
           v == SignalRound(n, u)
           w == IF e.blk = s.prop THEN Commit(s, e) ELSE ProcessAndCommit(r, e)
<1>1. /\ s \in NodeState /\ VotesFit(s, acks) /\ PropFits(s)
      /\ c \in Seq(Entry) /\ Len(s.chain) \in Nat
      /\ \A x : Become(n, x) => node'[n] = x
  BY CertNode, NodeOK
<1>2. node'[n] \in {t, Halt(t), v}
  BY <1>1 DEF DoCatchup
<1>3. k \in Height(t)..Len(c) \cup {Height(t)}
  BY DEF DoCatchup
<1>4. Waiting(n, s) => s.prop.height = Len(s.chain) + 1 /\ s.prop.height <= Len(c)
  BY <1>1 DEF DoCatchup, Waiting, PropFits
<1>5. t \in NodeState
  <2> HIDE DEF t
  <2>1. t = ProcessCurrentBlock(n, s, c)
    BY DEF t
  <2>2. \/ Kept(t, s)
        \/ Grown(t, s, Append(s.chain, c[Len(s.chain) + 1]))
    BY <1>1, <1>4, <2>1, CurrentKeptGrown
  <2> QED BY <2>2 DEF Kept, Grown
<1>6. VotesFit(t, acks)
  <2>1. CASE ~Waiting(n, s)
    BY <1>1, <2>1 DEF ProcessCurrentBlock
  <2>2. CASE Waiting(n, s)
    <3>1. t = w \/ t = Halt(w)
      BY <2>2 DEF ProcessCurrentBlock
    <3>2. e \in Entry
      BY <1>1, <1>4, <2>2
    <3>3. r \in NodeState /\ VotesFit(r, acks)
      BY <1>1, ResetFacts, ResetFields, NoVotesFit DEF RollbackState
    <3> HIDE DEF e, r
    <3>4. VotesFit(Commit(s, e), acks) /\ Commit(s, e) \in NodeState
      BY <1>1, <3>2, CommitFacts, CommitFields, NoVotesFit
    <3>5. VotesFit(ProcessAndCommit(r, e), acks) /\ ProcessAndCommit(r, e) \in NodeState
      BY <3>2, <3>3, ProcessFit, ProcessFacts, CommitFacts DEF Alike
    <3>6. VotesFit(w, acks) /\ w \in NodeState
      BY <3>4, <3>5
    <3> HIDE DEF w
    <3>7. VotesFit(Halt(w), acks)
      BY <3>6, HaltFields, NoVotesFit
    <3> HIDE DEF t
    <3> QED BY <3>1, <3>6, <3>7
  <2> QED BY <2>1, <2>2
<1> HIDE DEF t, w, e, r
<1>7. k <= Height(t) \/ k <= Len(c)
  <2>1. Height(t) \in Nat /\ Len(c) \in Nat
    BY <1>1, <1>5 DEF Height, NodeState
  <2> QED BY <1>3, <2>1
<1>8. y \in NodeState /\ VotesFit(y, acks)
  BY <1>1, <1>5, <1>6, <1>7, ReplayFit
<1> HIDE DEF y
<1>9. u \in NodeState /\ VotesFit(u, acks)
  BY <1>8, ApplyFit, ApplyFacts
<1> HIDE DEF u
<1>10. VotesFit(v, acks) /\ VotesFit(Halt(t), acks)
  BY <1>5, <1>9, SignalFit, HaltFields, NoVotesFit
<1> QED BY <1>2, <1>6, <1>10

\* A start.
LEMMA ReopenFit ==
  ASSUME CertInv, NEW n \in Nodes, NEW m \in Nodes, NEW k \in Nat,
         NEW c \in Seq(Entry), Reopen(n, c, m, k)
  PROVE  VotesFit(node'[n], acks)
<1> DEFINE f == node[n].leaderFile
           p == node[m].chain
<1>1. p \in Seq(Entry) /\ f \in Update \cup {NoUpdate}
  BY CertNode, NodeOK DEF NodeState
<1>2. Len(c) \in Nat /\ Len(p) \in Nat
  BY <1>1
<1>3. k <= Len(c) \/ k <= Len(p)
  BY <1>2 DEF Reopen
<1>4. node'[n] = Start(n, c, f, p, k)
  BY CertNode DEF Reopen
<1> QED BY <1>1, <1>3, <1>4, StartNoVotes

\* Every step leaves the node that takes it with votes that fit.
LEMMA StepFit ==
  ASSUME CertInv, NEW n \in Nodes,
         LeaderStep(n) \/ FollowerStep(n) \/ EnvironmentStep(n)
  PROVE  VotesFit(node'[n], acks)
<1>1. 0..MaxHeight \subseteq Nat /\ 1..MaxHeight \subseteq Nat
  BY BoundsAssumption
<1>2. CASE LeaderStep(n)
  BY <1>2, NewRoundFit, SmallStepsFit, ProposeBlockFit, FinishProposalFit,
     AddVoteFit, RollbackStepsFit, EndStepsFit, ApplyCatchupFit DEF LeaderStep
<1>3. CASE FollowerStep(n)
  BY <1>1, <1>3, SmallStepsFit, ProcessBlockProposalFit, CommitBlockFit,
     DoCatchupFit, RollbackStepsFit DEF FollowerStep
<1>4. CASE EnvironmentStep(n)
  <2>1. ASSUME NEW m \in Nodes, NEW k \in Nat, Restart(n, m, k)
        PROVE  VotesFit(node'[n], acks)
    BY <2>1, ReopenFit, CertNode, NodeOK DEF Restart
  <2>2. ASSUME NEW m \in Nodes, NEW j \in Nat, NEW k \in Nat, RestoreOld(n, j, m, k)
        PROVE  VotesFit(node'[n], acks)
    <3>1. node[n].chain \in Seq(Entry) /\ j < Len(node[n].chain)
      BY <2>2, CertNode, NodeOK DEF RestoreOld, Height
    <3>2. SubSeq(node[n].chain, 1, j) \in Seq(Entry)
      BY <3>1
    <3> QED BY <2>2, <3>2, ReopenFit DEF RestoreOld
  <2> QED BY <1>1, <1>4, <2>1, <2>2, SmallStepsFit DEF EnvironmentStep
<1> QED BY <1>2, <1>3, <1>4

\* Blocks of certified chains make a certified chain.
LEMMA GrowsCertified ==
  ASSUME NEW a \in Seq(Entry), NEW c \in Seq(Entry), NEW d, NEW A,
         Grows(d, a, c), CertifiedChain(a, A), CertifiedChain(c, A)
  PROVE  CertifiedChain(d, A)
<1>1. Len(a) \in Nat /\ Len(c) \in Nat /\ Len(d) \in Nat
  BY DEF Grows
<1>2. ASSUME NEW h \in 1..Len(d)
      PROVE  Certified(d[h], A)
  <2>1. d[h] = IF h <= Len(a) THEN a[h] ELSE c[h]
    BY DEF Grows
  <2>2. CASE h <= Len(a)
    BY <1>1, <2>1, <2>2 DEF CertifiedChain
  <2>3. CASE h > Len(a)
    <3>1. h <= Len(c)
      BY <1>1, <2>3 DEF Grows
    <3>2. d[h] = c[h] /\ h \in 1..Len(c)
      BY <1>1, <2>1, <2>3, <3>1
    <3> QED BY <3>2 DEF CertifiedChain
  <2> QED BY <1>1, <2>2, <2>3
<1> QED BY <1>2 DEF CertifiedChain

\* So does a certified block behind one.
LEMMA AppendCertified ==
  ASSUME NEW a \in Seq(Entry), NEW e \in Entry, NEW A,
         CertifiedChain(a, A), Certified(e, A)
  PROVE  CertifiedChain(Append(a, e), A)
<1> DEFINE d == Append(a, e)
<1>1. Len(a) \in Nat /\ Len(d) = Len(a) + 1
  OBVIOUS
<1>2. ASSUME NEW h \in 1..Len(d)
      PROVE  Certified(d[h], A)
  <2>1. CASE h <= Len(a)
    <3>1. d[h] = a[h] /\ h \in 1..Len(a)
      BY <1>1, <2>1
    <3> QED BY <3>1 DEF CertifiedChain
  <2>2. CASE h = Len(a) + 1
    <3>1. d[h] = e
      BY <1>1, <2>2
    <3> QED BY <3>1
  <2> QED BY <1>1, <2>1, <2>2
<1> QED BY <1>2 DEF CertifiedChain

\* Every kind of step commits and announces certified blocks only.
LEMMA KindsCertified ==
  ASSUME CertInv, NEW n \in Nodes, Kinds(n)
  PROVE  \E t \in NodeState :
           /\ Become(n, t)
           /\ CertifiedChain(t.chain, acks)
           /\ \A e \in anns' : Certified(e, acks)
<1> DEFINE s == node[n]
<1>1. s \in NodeState /\ s.chain \in Seq(Entry) /\ TypeInv
  BY CertNode, NodeOK
<1>2. /\ \A m \in Nodes : CertifiedChain(node[m].chain, acks)
      /\ \A e \in anns : Certified(e, acks) /\ e \in Entry
      /\ VotesFit(s, acks)
  BY DEF CertInv, TypeInv, NetOK
<1>3. CASE Stay(n)
  BY <1>2, <1>3 DEF Stay, Kept
<1>4. CASE Copy(n)
  <2>1. PICK t \in NodeState, m \in Nodes, d \in Seq(Entry) :
          /\ Become(n, t) /\ Grown(t, s, d)
          /\ Grows(d, s.chain, node[m].chain)
    BY <1>4 DEF Copy
  <2>2. node[m].chain \in Seq(Entry)
    BY <1>1, NodeOK
  <2>3. CertifiedChain(d, acks)
    BY <1>1, <1>2, <2>1, <2>2, GrowsCertified
  <2> QED BY <1>2, <1>4, <2>1, <2>3 DEF Copy, Grown
<1>5. CASE Learn(n)
  <2>1. PICK t \in NodeState, e \in anns :
          Become(n, t) /\ Grown(t, s, Append(s.chain, e))
    BY <1>5 DEF Learn
  <2>2. CertifiedChain(Append(s.chain, e), acks)
    BY <1>1, <1>2, AppendCertified
  <2> QED BY <1>2, <1>5, <2>1, <2>2 DEF Learn, Grown
<1>6. CASE Decide(n)
  <2>1. PICK t \in NodeState, e \in Entry :
          /\ Become(n, t) /\ Grown(t, s, Append(s.chain, e))
          /\ e.blk = s.prop
          /\ anns' = anns \cup {e}
          /\ HasMajority(Cardinality(e.votes)) /\ \A v \in e.votes : Backed(n, v)
    BY <1>6 DEF Decide
  <2>2. ASSUME NEW v, Backed(n, v)
        PROVE  Cast(s.prop, v, acks)
    <3>1. CASE [from |-> v, ack |-> TRUE] \in s.votes
      <4>1. [from |-> v, ack |-> TRUE].ack /\ [from |-> v, ack |-> TRUE].from = v
        OBVIOUS
      <4> DEFINE w == [from |-> v, ack |-> TRUE]
      <4> HIDE DEF w
      <4>2. w \in s.votes /\ w.ack /\ w.from = v
        BY <3>1, <4>1 DEF w
      <4>3. s.mode = "run"
        BY <1>6 DEF Decide, Running
      <4> QED BY <1>2, <4>2, <4>3 DEF VotesFit
    <3> QED BY <2>2, <3>1 DEF Backed, Cast
  <2>3. Certified(e, acks)
    BY <2>1, <2>2 DEF Certified
  <2>4. CertifiedChain(Append(s.chain, e), acks)
    BY <1>1, <1>2, <2>3, AppendCertified
  <2> QED BY <1>2, <2>1, <2>3, <2>4 DEF Grown
<1>7. CASE Make(n)
  <2>1. PICK t \in NodeState, x \in Nat :
          /\ Become(n, t)
          /\ Alike(t, [s EXCEPT !.prop = NewBlock(n, s, x), !.status = "Proposed"])
    BY <1>7 DEF Make
  <2>2. t.chain = s.chain
    BY <1>1, <2>1 DEF Alike, NodeState
  <2> QED BY <1>2, <1>7, <2>1, <2>2 DEF Make
<1>8. CASE Adopt(n)
  <2>1. PICK t \in NodeState, r \in NodeState :
          /\ Become(n, t) /\ Kept(r, s)
          /\ Alike(t, [r EXCEPT !.prop = s.pending, !.status = "Proposed"])
    BY <1>8 DEF Adopt
  <2>2. t.chain = s.chain
    BY <2>1 DEF Alike, Kept, NodeState
  <2> QED BY <1>2, <1>8, <2>1, <2>2 DEF Adopt
<1>9. CASE Receive(n)
  <2>1. PICK t \in NodeState, b \in proposals :
          Become(n, t) /\ Alike(t, [s EXCEPT !.pending = b])
    BY <1>9 DEF Receive
  <2>2. t.chain = s.chain
    BY <1>1, <2>1 DEF Alike, NodeState
  <2> QED BY <1>2, <1>9, <2>1, <2>2 DEF Receive
<1>10. CASE Command(n)
  <2>1. PICK t \in NodeState, f \in Update :
          Become(n, t) /\ Alike(t, [s EXCEPT !.leaderFile = f])
    BY <1>10 DEF Command
  <2>2. t.chain = s.chain
    BY <1>1, <2>1 DEF Alike, NodeState
  <2> QED BY <1>2, <1>10, <2>1, <2>2 DEF Command
<1>11. CASE Lose(n)
  <2>1. PICK t \in NodeState, m \in Nodes, c \in Seq(Entry), d \in Seq(Entry) :
          /\ Become(n, t) /\ Grown(t, s, d) /\ Grows(d, c, node[m].chain)
          /\ Len(c) <= Len(s.chain) /\ \A h \in 1..Len(c) : c[h] = s.chain[h]
    BY <1>11 DEF Lose
  <2>2. CertifiedChain(c, acks)
    <3>1. Len(c) \in Nat /\ Len(s.chain) \in Nat
      BY <1>1
    <3> QED BY <1>2, <2>1, <3>1 DEF CertifiedChain
  <2>3. node[m].chain \in Seq(Entry)
    BY <1>1, NodeOK
  <2>4. CertifiedChain(d, acks)
    BY <1>2, <2>1, <2>2, <2>3, GrowsCertified
  <2> QED BY <1>2, <1>11, <2>1, <2>4 DEF Lose, Grown
<1> QED BY <1>3, <1>4, <1>5, <1>6, <1>7, <1>8, <1>9, <1>10, <1>11 DEF Kinds

\* The invariant holds always.
LEMMA CertInvariant == Spec => []CertInv
<1>1. Init => CertInv
  <2>1. ASSUME Init PROVE CertInv
    <3>1. TypeInv /\ \A n \in Nodes : Idle(node[n], NoUpdate, <<>>)
      BY <2>1, InitType
    <3>2. ASSUME NEW n \in Nodes
          PROVE  VotesFit(node[n], acks) /\ CertifiedChain(node[n].chain, acks)
      <4>1. <<>> \in Seq(Entry) /\ 0 <= Len(<<>>) /\ Len(<<>>) = 0 /\ 1..0 = {}
        OBVIOUS
      <4>2. VotesFit(Start(n, <<>>, NoUpdate, <<>>, 0), acks)
        BY <4>1, StartNoVotes
      <4>3. node[n] = Start(n, <<>>, NoUpdate, <<>>, 0)
        BY <2>1 DEF Init
      <4>4. CertifiedChain(<<>>, acks)
        BY <4>1 DEF CertifiedChain
      <4> QED BY <3>1, <4>2, <4>3, <4>4 DEF Idle
    <3> QED BY <2>1, <3>1, <3>2 DEF CertInv, Init
  <2> QED BY <2>1
<1>2. CertInv /\ [Next]_vars => CertInv'
  <2>1. ASSUME CertInv, Next PROVE CertInv'
    <3>1. PICK n \in Nodes : LeaderStep(n) \/ FollowerStep(n) \/ EnvironmentStep(n)
      BY <2>1 DEF Next
    <3>2. Kinds(n) /\ TypeInv'
      BY <2>1, <3>1, StepKinds, KindsType DEF CertInv
    <3>3. PICK t \in NodeState : /\ Become(n, t)
                                 /\ CertifiedChain(t.chain, acks)
                                 /\ \A e \in anns' : Certified(e, acks)
      BY <2>1, <3>2, KindsCertified
    <3>4. \A m \in Nodes : node'[m] = IF m = n THEN t ELSE node[m]
      BY <2>1, <3>3 DEF Become, CertInv, TypeInv, NodesOK
    <3>5. VotesFit(t, acks)
      BY <2>1, <3>1, <3>4, StepFit
    <3>6. acks \subseteq acks'
      BY <2>1, AcksGrow
    <3>7. \A m \in Nodes : /\ VotesFit(node'[m], acks)
                           /\ CertifiedChain(node'[m].chain, acks)
      BY <2>1, <3>3, <3>4, <3>5 DEF CertInv
    <3>8. \A m \in Nodes : /\ VotesFit(node'[m], acks')
                           /\ CertifiedChain(node'[m].chain, acks')
      BY <3>6, <3>7, MoreAcks
    <3>9. \A e \in anns' : Certified(e, acks')
      BY <3>3, <3>6, MoreAcks
    <3> QED BY <3>2, <3>8, <3>9 DEF CertInv
  <2>2. ASSUME CertInv, UNCHANGED vars PROVE CertInv'
    BY <2>2 DEF vars, CertInv, TypeInv, NodesOK, NetOK
  <2> QED BY <2>1, <2>2
<1> QED BY <1>1, <1>2, PTL DEF Spec

\* The CommitInfo stored with a block is a majority of votes that validators
\* cast for that very block, whatever was proposed again at its height, reset,
\* cancelled, lost, replayed or caught up with, and whoever led (addVote,
\* processVotes, resetState, rollbackState, proposeBlock).
THEOREM CommitsAreCertified == Spec => []CertifiedCommits
<1>1. CertInv => CertifiedCommits
  <2>1. ASSUME CertInv, NEW n \in Nodes, NEW h \in DOMAIN node[n].chain
        PROVE  Certified(node[n].chain[h], acks)
    <3>1. node[n].chain \in Seq(Entry)
      BY <2>1, CertNode, NodeOK
    <3>2. h \in 1..Len(node[n].chain)
      BY <2>1, <3>1
    <3> QED BY <2>1, <3>2 DEF CertInv, CertifiedChain
  <2> QED BY <2>1 DEF CertifiedCommits, Certified, Cast
<1> QED BY <1>1, CertInvariant, PTL

\* Two majorities of the validators have a member in common.
LEMMA MajoritiesMeet ==
  ASSUME NEW S, NEW T, S \subseteq Validators, T \subseteq Validators,
         HasMajority(Cardinality(S)), HasMajority(Cardinality(T))
  PROVE  \E v \in Validators : v \in S /\ v \in T
<1>1. IsFiniteSet(Validators)
  BY NodesAssumption, FS_Subset
<1>2. /\ Cardinality(Validators) \in Nat
      /\ Cardinality(S) \in Nat /\ Cardinality(T) \in Nat
  BY <1>1, FS_CardinalityType, FS_Subset
<1>3. Cardinality(S) + Cardinality(T) > Cardinality(Validators)
  BY <1>2 DEF HasMajority
<1>4. S \cap T # {}
  BY <1>1, <1>3, FS_MajoritiesIntersect
<1> QED BY <1>4

\* A fork, whoever led and whatever the operators commanded, takes a validator
\* that voted for both blocks: every commit has a majority behind it, and two
\* majorities meet (hasMajority, processVotes, verifyVotes).
THEOREM ForksNeedDoubleVoters == Spec => []ForksTakeDoubleVotes
<1>1. CertInv => ForksTakeDoubleVotes
  <2>1. ASSUME CertInv, NEW n \in Nodes, NEW h \in DOMAIN node[n].chain
        PROVE  /\ node[n].chain[h].votes \subseteq Validators
               /\ Certified(node[n].chain[h], acks)
    <3>1. node[n].chain \in Seq(Entry)
      BY <2>1, CertNode, NodeOK
    <3>2. h \in 1..Len(node[n].chain) /\ node[n].chain[h] \in Entry
      BY <2>1, <3>1
    <3>3. node[n].chain[h].votes \subseteq Validators
      BY <3>2 DEF Entry
    <3> QED BY <2>1, <3>2, <3>3 DEF CertInv, CertifiedChain
  <2>2. ASSUME CertInv, NEW m \in Nodes, NEW n \in Nodes,
               NEW h \in DOMAIN node[m].chain \cap DOMAIN node[n].chain
        PROVE  \E v \in Validators : /\ VotedFor(v, node[m].chain[h].blk)
                                     /\ VotedFor(v, node[n].chain[h].blk)
    <3> DEFINE d == node[m].chain[h]
               e == node[n].chain[h]
    <3>1. /\ d.votes \subseteq Validators /\ Certified(d, acks)
          /\ e.votes \subseteq Validators /\ Certified(e, acks)
      BY <2>1, <2>2
    <3> HIDE DEF d, e
    <3>2. PICK v \in Validators : v \in d.votes /\ v \in e.votes
      BY <3>1, MajoritiesMeet DEF Certified
    <3>3. VotedFor(v, d.blk) /\ VotedFor(v, e.blk)
      BY <3>1, <3>2 DEF Certified, Cast, VotedFor
    <3> QED BY <3>3 DEF d, e
  <2> QED BY <2>2 DEF ForksTakeDoubleVotes
<1> QED BY <1>1, CertInvariant, PTL

-----------------------------------------------------------------------------
(* One round at a time while the operators replace no leader               *)

\* A replay takes no signal.
LEMMA ReplayFields ==
  ASSUME NEW s \in NodeState, NEW c \in Seq(Entry), NEW k \in Nat,
         k <= Height(s) \/ k <= Len(c)
  PROVE  SameRound(Replay(s, c, k), s)
<1> DEFINE d == Extended(s.chain, c, k)
           a == [s EXCEPT !.chain = d]
           t == ResetState(a)
           l == ParamLeader(t.chain)
<1>1. s.chain \in Seq(Entry) /\ Height(s) = Len(s.chain) /\ Height(s) \in Nat
  BY DEF NodeState, Height
<1>2. CASE k <= Height(s)
  BY <1>2 DEF Replay, SameRound
<1>3. CASE k > Height(s)
  <2>1. d \in Seq(Entry)
    BY <1>1, <1>3, ExtendFacts
  <2>2. Replay(s, c, k) = [t EXCEPT !.leader = l]
    <3>1. ~(k <= Height(s))
      BY <1>1, <1>3
    <3> QED BY <3>1 DEF Replay, Extended, Height
  <2> HIDE DEF d
  <2>3. a \in NodeState /\ SameRound(a, s)
    BY <2>1 DEF NodeState, SameRound
  <2> HIDE DEF a
  <2>4. t \in NodeState /\ SameRound(t, a)
    BY <2>3, ResetFields, ResetFacts
  <2> HIDE DEF t, l
  <2>5. SameRound([t EXCEPT !.leader = l], t)
    BY <2>4 DEF NodeState, SameRound
  <2> QED BY <2>2, <2>3, <2>4, <2>5 DEF SameRound
<1> QED BY <1>1, <1>2, <1>3

\* What drives the leader's rounds: signals, its proposal, its catch-up.
Drives(s) ==
  s.newRound + s.newProposal + One(s.prop # NoBlock)
    + One(s.catchup # NoCatchup /\ s.catchup.stage = "sync")

\* The leader in state s drives one round and no reset is pending there.
RoundOK(s) == s.reset = 0 /\ (s.mode = "run" => Drives(s) = 1)

RoundInv == FixedInv /\ RoundOK(node[Genesis])

\* A leader starts with one signal on newBlockProposal.
LEMMA StartRound ==
  ASSUME NEW n \in Nodes, NEW c \in Seq(Entry), NEW f \in Update \cup {NoUpdate},
         NEW p \in Seq(Entry), NEW k \in Nat, k <= Len(c) \/ k <= Len(p),
         Start(n, c, f, p, k).leader = n
  PROVE  RoundOK(Start(n, c, f, p, k))
<1> DEFINE l == ParamLeader(c)
           w == Len(c)
           s == [chain |-> c, leaderFile |-> f, mode |-> "run",
                 leader |-> l, prop |-> NoBlock, res |-> FALSE,
                 status |-> "Committed", votes |-> {}, leaderUpdate |-> NoUpdate,
                 hasBlock |-> w, pending |-> NoBlock, newRound |-> 0,
                 newProposal |-> 0, catchup |-> NoCatchup, reset |-> 0]
           r == Replay(s, p, k)
           u == ApplyLeaderUpdates(r)
           v == [u EXCEPT !.newProposal = 1]
           t == Start(n, c, f, p, k)
<1>1. l \in Validators /\ w \in Nat /\ w = Len(c)
  BY ParamLeaderType
<1>2. t = IF u.leader = n THEN v ELSE u
  BY DEF Start, Role
<1>3. t.prop = NoBlock
  BY StartFacts DEF Idle
<1> HIDE DEF l, w, t
<1>4. /\ s \in NodeState /\ s.chain = c /\ s.newRound = 0
      /\ s.catchup = NoCatchup /\ s.reset = 0
  BY <1>1 DEF NodeState
<1> HIDE DEF s
<1>5. k <= Height(s) \/ k <= Len(p)
  BY <1>1, <1>4 DEF Height
<1>6. r \in NodeState /\ SameRound(r, s)
  <2>1. Height(s) \in Nat
    BY <1>4 DEF Height
  <2>2. CASE k <= Height(s)
    BY <1>4, <2>2 DEF Replay, SameRound
  <2>3. CASE k > Height(s)
    <3>1. k <= Len(p)
      BY <1>5, <2>1, <2>3
    <3> QED BY <1>4, <1>5, <2>3, <3>1, ReplayFacts, ReplayFields
  <2> QED BY <2>1, <2>2, <2>3
<1> HIDE DEF r
<1>7. u \in NodeState /\ SameRound(u, r)
  BY <1>6, ApplyFacts, ApplyFields
<1> HIDE DEF u
<1>8. /\ v.newProposal = 1 /\ v.newRound = u.newRound /\ v.catchup = u.catchup
      /\ v.reset = u.reset /\ v.leader = u.leader
  BY <1>7 DEF NodeState
<1> HIDE DEF v
<1>9. t = v
  BY <1>2 DEF t
<1>10. t.newProposal = 1 /\ t.newRound = 0 /\ t.catchup = NoCatchup /\ t.reset = 0
  BY <1>4, <1>6, <1>7, <1>8, <1>9 DEF SameRound
<1>11. RoundOK(t)
  BY <1>3, <1>10 DEF RoundOK, Drives, One
<1> QED BY <1>11 DEF t

\* What RoundInv says of the leader.
LEMMA RoundNode ==
  ASSUME RoundInv, Running(Genesis)
  PROVE  LET s == node[Genesis] IN
         /\ s \in NodeState /\ Drives(s) = 1 /\ s.reset = 0 /\ s.mode = "run"
         /\ s.newRound \in Nat /\ s.newProposal \in Nat
         /\ s.catchup \in CatchupRun \cup {NoCatchup}
         /\ s.leader = Genesis /\ s.leaderFile = NoUpdate
         /\ s.prop # NoBlock => s.prop.by = Genesis
         /\ \A t : Become(Genesis, t) => node'[Genesis] = t
<1>1. node[Genesis] \in NodeState
  BY NodeOK, NodesAssumption DEF RoundInv, FixedInv
<1>2. LedByGenesis(node[Genesis])
  BY NodesAssumption DEF RoundInv, FixedInv
<1>3. \A t : Become(Genesis, t) => node'[Genesis] = t
  BY NodesAssumption DEF RoundInv, FixedInv, TypeInv, NodesOK, Become
<1> QED BY <1>1, <1>2, <1>3
       DEF RoundInv, RoundOK, Running, NodeState, LedByGenesis, FromGenesis

\* The steps a leader cannot take: they are of validators, or a command, a
\* reset, an unknown announcement or an older disk is missing.
LEMMA NotTheLeader ==
  ASSUME RoundInv, MaxPromote = 0, MaxLoss = 0
  PROVE  /\ ~DropNewProposal(Genesis)
         /\ \A b : ~AcceptProposal(Genesis, b) /\ ~SendOutOfSyncNack(Genesis, b)
         /\ ~ProcessBlockProposal(Genesis)
         /\ ~FinishExecution(Genesis)
         /\ \A e \in anns : ~CommitBlock(Genesis, e)
         /\ ~ReannounceAck(Genesis)
         /\ \A m, k : ~DoCatchup(Genesis, m, k)
         /\ \A r : ~CancelBlock(Genesis, r)
         /\ ~ResetBlockProp(Genesis)
         /\ \A c, h : ~PromoteLeader(Genesis, c, h)
         /\ \A m, j, k : ~RestoreOld(Genesis, j, m, k)
<1> DEFINE s == node[Genesis]
<1>0. s \in NodeState
  BY NodeOK, NodesAssumption DEF RoundInv, FixedInv
<1>1. /\ s.leader = Genesis /\ s.reset = 0
      /\ s.prop # NoBlock => s.prop.by = Genesis
  BY NodesAssumption DEF RoundInv, FixedInv, LedByGenesis, FromGenesis, RoundOK
<1>2. /\ Role(Genesis, s) = "Leader" /\ Role(Genesis, s) # "Validator"
      /\ \A x : Role(Genesis, [s EXCEPT !.reset = x]) # "Validator"
  BY <1>0, <1>1 DEF Role, NodeState
<1>3. used.promote \in Nat /\ used.loss \in Nat
  BY DEF RoundInv, FixedInv, TypeInv, NetOK, Used
<1>4. \A e \in anns : e.blk.height # Height(s) + 1
  <2>1. Len(s.chain) \in Nat
    BY NodeOK, NodesAssumption DEF RoundInv, FixedInv
  <2> QED BY <2>1 DEF RoundInv, FixedInv, InChain, Height
<1>5. s.status = "Proposed" => s.prop # NoBlock
  BY NodeOK, NodesAssumption DEF RoundInv, FixedInv, PropFits
<1>6. ~DropNewProposal(Genesis)
  BY <1>2 DEF DropNewProposal
<1>7. \A b : ~AcceptProposal(Genesis, b) /\ ~SendOutOfSyncNack(Genesis, b)
  BY <1>2 DEF AcceptProposal, SendOutOfSyncNack
<1>8. ~ProcessBlockProposal(Genesis)
  BY <1>2 DEF ProcessBlockProposal, IgnoresProposal
<1>9. ~FinishExecution(Genesis)
  BY <1>1, <1>5 DEF FinishExecution, Executing
<1>10. \A e \in anns : ~CommitBlock(Genesis, e)
  BY <1>4 DEF CommitBlock
<1>11. ~ReannounceAck(Genesis)
  BY <1>2 DEF ReannounceAck
<1>12. \A m, k : ~DoCatchup(Genesis, m, k)
  BY <1>2 DEF DoCatchup
<1>13. \A r : ~CancelBlock(Genesis, r)
  BY <1>2 DEF CancelBlock
<1>14. ~ResetBlockProp(Genesis)
  BY <1>1 DEF ResetBlockProp
<1>15. \A c, h : ~PromoteLeader(Genesis, c, h)
  BY <1>3 DEF PromoteLeader
<1>16. \A m, j, k : ~RestoreOld(Genesis, j, m, k)
  BY <1>3 DEF RestoreOld
<1> QED BY <1>6, <1>7, <1>8, <1>9, <1>10, <1>11, <1>12, <1>13, <1>14, <1>15, <1>16

\* newRound turns its signal into one on newBlockProposal.
LEMMA NewRoundRound ==
  ASSUME RoundInv, NewRound(Genesis)
  PROVE  RoundOK(node'[Genesis])
<1> DEFINE s == node[Genesis]
           k == s.newRound - 1
           r == [s EXCEPT !.newRound = k]
           p == r.newProposal + 1
           b == [r EXCEPT !.newProposal = p]
<1>0. Running(Genesis) /\ s.newRound > 0
  BY DEF NewRound, Ready
<1>1. /\ s \in NodeState /\ Drives(s) = 1 /\ s.reset = 0 /\ s.mode = "run"
      /\ s.newRound \in Nat /\ s.newProposal \in Nat
      /\ s.leader = Genesis /\ s.leaderFile = NoUpdate
      /\ \A t : Become(Genesis, t) => node'[Genesis] = t
  BY <1>0, RoundNode
<1>2. k \in Nat
  BY <1>0, <1>1
<1>3. Become(Genesis, LET a == ApplyLeaderUpdates(r)
                      IN  IF Role(Genesis, a) = "Leader"
                            THEN [a EXCEPT !.newProposal = @ + 1] ELSE a)
  BY DEF NewRound
<1>4. k = s.newRound - 1
  OBVIOUS
<1> HIDE DEF k
<1>5. /\ r \in NodeState /\ r.leader = Genesis /\ r.leaderFile = NoUpdate
      /\ r.newRound = k /\ r.newProposal = s.newProposal /\ r.prop = s.prop
      /\ r.catchup = s.catchup /\ r.reset = s.reset
  BY <1>1, <1>2 DEF NodeState
<1> HIDE DEF r
<1>6. ApplyLeaderUpdates(r) = r /\ Role(Genesis, r) = "Leader"
  BY <1>5 DEF ApplyLeaderUpdates, Role
<1>7. node'[Genesis] = b
  BY <1>1, <1>3, <1>6
<1>8. p = s.newProposal + 1
  BY <1>5
<1> HIDE DEF p
<1>9. /\ b.newRound = k /\ b.newProposal = p /\ b.prop = s.prop
      /\ b.catchup = s.catchup /\ b.reset = s.reset
  BY <1>5 DEF NodeState
<1> HIDE DEF b
<1>10. Drives(b) = Drives(s)
  BY <1>1, <1>2, <1>4, <1>8, <1>9 DEF Drives, One
<1> QED BY <1>1, <1>7, <1>9, <1>10 DEF RoundOK

\* proposeBlock turns its signal into the proposal.
LEMMA ProposeBlockRound ==
  ASSUME RoundInv, ProposeBlock(Genesis)
  PROVE  RoundOK(node'[Genesis])
<1> DEFINE s == node[Genesis]
           k == s.newProposal - 1
<1>0. Running(Genesis) /\ s.newProposal > 0
  BY DEF ProposeBlock, Ready
<1>1. /\ s \in NodeState /\ Drives(s) = 1 /\ s.reset = 0
      /\ s.newRound \in Nat /\ s.newProposal \in Nat
      /\ \A t : Become(Genesis, t) => node'[Genesis] = t
  BY <1>0, RoundNode
<1>2. PICK x \in Stamps(s) :
        LET b == NewBlock(Genesis, s, x)
            p == [s EXCEPT !.newProposal = k, !.prop = b, !.status = "Proposed"]
        IN  Become(Genesis, IF s.prop # NoBlock /\ s.res THEN Halt(p) ELSE p)
  BY DEF ProposeBlock
<1> DEFINE b == NewBlock(Genesis, s, x)
           p == [s EXCEPT !.newProposal = k, !.prop = b, !.status = "Proposed"]
<1>3. b # NoBlock
  <2>1. x \in Nat
    BY BoundsAssumption DEF Stamps
  <2>2. b \in Block
    BY <1>1, <2>1, NewBlockFacts, NodesAssumption DEF RoundInv, FixedInv
  <2> QED BY <2>2, NilAssumption
<1>4. s.newRound = 0 /\ s.newProposal = 1 /\ s.prop = NoBlock
      /\ ~(s.catchup # NoCatchup /\ s.catchup.stage = "sync")
  BY <1>0, <1>1 DEF Drives, One
<1>5. node'[Genesis] = p /\ k = 0
  BY <1>1, <1>2, <1>4
<1> HIDE DEF k, b
<1>6. /\ p.newRound = s.newRound /\ p.newProposal = k /\ p.prop = b
      /\ p.catchup = s.catchup /\ p.reset = s.reset
  BY <1>1 DEF NodeState
<1> HIDE DEF p
<1>7. Drives(p) = 1
  BY <1>3, <1>4, <1>5, <1>6 DEF Drives, One
<1> QED BY <1>1, <1>5, <1>6, <1>7 DEF RoundOK

\* processVotes keeps the proposal, stops, or turns it into a signal.
LEMMA ProcessVotesRound ==
  ASSUME RoundInv, FixedInv', Running(Genesis), NEW s \in NodeState,
         s.prop \in Block, s.prop = node[Genesis].prop,
         SameRound(s, node[Genesis]), ProcessVotes(Genesis, s)
  PROVE  RoundOK(node'[Genesis])
<1> DEFINE z == node[Genesis]
           e == CommitEntry(s)
           c == Commit(s, e)
           r == SignalRound(Genesis, c)
<1>1. /\ z \in NodeState /\ Drives(z) = 1 /\ z.reset = 0
      /\ z.newRound \in Nat /\ z.newProposal \in Nat
      /\ \A t : Become(Genesis, t) => node'[Genesis] = t
  BY RoundNode
<1>2. e \in Entry
  <2>1. s.votes \subseteq Vote
    BY DEF NodeState
  <2>2. Acked(s) \subseteq Validators
    BY <2>1 DEF Acked, Vote
  <2> QED BY <2>2 DEF CommitEntry, Entry
<1>3. node'[Genesis] \in {Halt(s), r, s}
  BY <1>1 DEF ProcessVotes
<1>4. z.newRound = 0 /\ z.newProposal = 0 /\ s.prop # NoBlock
      /\ ~(z.catchup # NoCatchup /\ z.catchup.stage = "sync")
  BY <1>1, NilAssumption DEF Drives, One
<1> HIDE DEF e
<1>5. RoundOK(s)
  BY <1>1, <1>4 DEF RoundOK, Drives, One, SameRound
<1>6. RoundOK(Halt(s))
  BY <1>1 DEF RoundOK, Halt, NodeState, SameRound
<1>7. c \in NodeState /\ c.prop = NoBlock /\ SameRound(c, s)
  BY <1>2, CommitFacts, CommitFields
<1> HIDE DEF c
<1>8. /\ r.prop = c.prop /\ r.newProposal = c.newProposal /\ r.catchup = c.catchup
      /\ r.reset = c.reset /\ r.leader = c.leader
      /\ r.newRound = IF c.leader = Genesis THEN c.newRound + 1 ELSE c.newRound
  BY <1>7, SignalFields, NodesAssumption
<1> HIDE DEF r
<1>9. node'[Genesis] = r => r.leader = Genesis
  BY NodesAssumption DEF FixedInv, LedByGenesis
<1>10. node'[Genesis] = r => RoundOK(r)
  BY <1>1, <1>4, <1>7, <1>8, <1>9 DEF RoundOK, Drives, One, SameRound
<1> QED BY <1>3, <1>5, <1>6, <1>10

\* The leader's own vote and the votes of others.
LEMMA VotesRound ==
  ASSUME RoundInv, FixedInv',
         FinishProposal(Genesis) \/ \E a \in acks : AddVote(Genesis, a)
  PROVE  RoundOK(node'[Genesis])
<1> DEFINE s == node[Genesis]
<1>0. Running(Genesis)
  BY DEF FinishProposal, AddVote, Ready
<1>1. s \in NodeState /\ TypeInv
  BY <1>0, RoundNode DEF RoundInv, FixedInv
<1>2. CASE FinishProposal(Genesis)
  <2> DEFINE w == [from |-> Genesis, ack |-> TRUE]
             v == s.votes \cup {w}
             t == [s EXCEPT !.status = "Executed", !.res = TRUE, !.votes = v]
  <2>1. v \in SUBSET Vote
    <3>1. s.votes \subseteq Vote
      BY <1>1 DEF NodeState
    <3>2. w \in Vote
      BY NodesAssumption DEF Vote
    <3> QED BY <3>1, <3>2
  <2>2. ProcessVotes(Genesis, t)
    BY <1>2 DEF FinishProposal
  <2>3. s.prop \in Block
    BY <1>1, <1>2, NodeOK, NodesAssumption DEF FinishProposal, Executing
  <2> HIDE DEF v
  <2>4. t \in NodeState
    BY <1>1, <2>1 DEF NodeState
  <2>5. t.prop = s.prop /\ SameRound(t, s)
    BY <1>1 DEF NodeState, SameRound
  <2> HIDE DEF t
  <2> QED BY <1>0, <2>2, <2>3, <2>4, <2>5, ProcessVotesRound
<1>3. ASSUME NEW a \in acks, AddVote(Genesis, a)
      PROVE  RoundOK(node'[Genesis])
  <2> DEFINE w == [from |-> a.from, ack |-> a.ack]
             v == s.votes \cup {w}
             t == [s EXCEPT !.votes = v]
  <2>1. a \in Ack
    BY <1>1 DEF TypeInv, NetOK
  <2>2. v \in SUBSET Vote
    <3>1. s.votes \subseteq Vote
      BY <1>1 DEF NodeState
    <3>2. w \in Vote
      BY <1>3, <2>1 DEF Vote, Ack, AddVote
    <3> QED BY <3>1, <3>2
  <2>3. ProcessVotes(Genesis, t) /\ s.prop \in Block
    BY <1>3, <2>1 DEF AddVote, Ack
  <2> HIDE DEF v
  <2>4. t \in NodeState
    BY <1>1, <2>2 DEF NodeState
  <2>5. t.prop = s.prop /\ SameRound(t, s)
    BY <1>1 DEF NodeState, SameRound
  <2> HIDE DEF t
  <2> QED BY <1>0, <2>3, <2>4, <2>5, ProcessVotesRound
<1> QED BY <1>2, <1>3

\* CancelBlockExecution turns the proposal into a signal.
LEMMA CancelRound ==
  ASSUME RoundInv, CancelBlockExecution(Genesis)
  PROVE  RoundOK(node'[Genesis])
<1> DEFINE s == node[Genesis]
           r == RollbackState(s)
           k == r.newProposal + 1
           a == [r EXCEPT !.newProposal = k]
<1>0. Running(Genesis)
  BY DEF CancelBlockExecution
<1>1. /\ s \in NodeState /\ Drives(s) = 1 /\ s.reset = 0
      /\ s.newRound \in Nat /\ s.newProposal \in Nat
      /\ s.prop # NoBlock => s.prop.by = Genesis
      /\ \A t : Become(Genesis, t) => node'[Genesis] = t
  BY <1>0, RoundNode
<1>2. s.prop # NoBlock
  BY NodeOK, NodesAssumption
     DEF RoundInv, FixedInv, PropFits, CancelBlockExecution, Executing
<1>3. node'[Genesis] = a
  BY <1>1, <1>2 DEF CancelBlockExecution
<1>4. r \in NodeState /\ r.prop = NoBlock /\ SameRound(r, s)
  BY <1>1, ResetFacts, ResetFields DEF RollbackState
<1> HIDE DEF r
<1>5. k = r.newProposal + 1
  OBVIOUS
<1> HIDE DEF k
<1>6. /\ a.newRound = r.newRound /\ a.newProposal = k /\ a.prop = r.prop
      /\ a.catchup = r.catchup /\ a.reset = r.reset
  BY <1>4 DEF NodeState
<1> HIDE DEF a
<1>7. Drives(a) = 1
  BY <1>1, <1>2, <1>4, <1>5, <1>6 DEF Drives, One, SameRound
<1> QED BY <1>1, <1>3, <1>4, <1>6, <1>7 DEF RoundOK, SameRound

\* The steps that leave signals, proposal and catch-up alone.
LEMMA QuietRound ==
  ASSUME RoundInv,
         LeaderCatchup(Genesis) \/ IgnoreProposal(Genesis) \/ Crash(Genesis)
  PROVE  RoundOK(node'[Genesis])
<1> DEFINE s == node[Genesis]
<1>0. Running(Genesis)
  BY DEF LeaderCatchup, IgnoreProposal, Crash, Ready
<1>1. /\ s \in NodeState /\ Drives(s) = 1 /\ s.reset = 0 /\ s.leaderFile = NoUpdate
      /\ \A t : Become(Genesis, t) => node'[Genesis] = t
  BY <1>0, RoundNode
<1>2. ApplyLeaderUpdates(s) = s
  BY <1>1, ApplyFacts
<1>3. \/ node'[Genesis] = s
      \/ node'[Genesis] = [s EXCEPT !.pending = NoBlock]
      \/ node'[Genesis] = [s EXCEPT !.mode = "down"]
  BY <1>1, <1>2 DEF LeaderCatchup, IgnoreProposal, Crash
<1>4. /\ node'[Genesis].newRound = s.newRound /\ node'[Genesis].prop = s.prop
      /\ node'[Genesis].newProposal = s.newProposal
      /\ node'[Genesis].catchup = s.catchup /\ node'[Genesis].reset = s.reset
  BY <1>1, <1>3 DEF NodeState
<1> QED BY <1>1, <1>4 DEF RoundOK, Drives

\* An out-of-sync proof starts no second catch-up while one applies blocks.
LEMMA BeginCatchupRound ==
  ASSUME RoundInv, NEW x \in nacks, BeginCatchup(Genesis, x)
  PROVE  RoundOK(node'[Genesis])
<1> DEFINE s == node[Genesis]
           old == [s.catchup EXCEPT !.end = x.best.height]
           new == [blk |-> s.prop, next |-> Height(s) + 1,
                   end |-> x.best.height, stage |-> "probe"]
<1>0. Running(Genesis)
  BY DEF BeginCatchup, Ready
<1>1. /\ s \in NodeState /\ Drives(s) = 1 /\ s.reset = 0
      /\ s.newRound \in Nat /\ s.newProposal \in Nat
      /\ s.catchup \in CatchupRun \cup {NoCatchup}
      /\ \A t : Become(Genesis, t) => node'[Genesis] = t
  BY <1>0, RoundNode
<1>2. s.prop # NoBlock
  <2>1. x \in Nack
    BY DEF RoundInv, FixedInv, TypeInv, NetOK
  <2> QED BY <2>1, NilAssumption DEF Nack, BeginCatchup
<1>3. /\ s.newRound = 0 /\ s.newProposal = 0
      /\ ~(s.catchup # NoCatchup /\ s.catchup.stage = "sync")
  BY <1>1, <1>2 DEF Drives, One
<1>4. PICK c : /\ node'[Genesis] = [s EXCEPT !.catchup = c]
               /\ c = new \/ (c = old /\ s.catchup # NoCatchup)
  BY <1>1 DEF BeginCatchup
<1>5. c.stage # "sync"
  <2>1. new.stage = "probe"
    OBVIOUS
  <2>2. s.catchup # NoCatchup => old.stage = s.catchup.stage
    BY <1>1 DEF CatchupRun
  <2> HIDE DEF old, new
  <2> QED BY <1>3, <1>4, <2>1, <2>2
<1> HIDE DEF old, new
<1> DEFINE t == [s EXCEPT !.catchup = c]
<1>6. /\ t.newRound = s.newRound /\ t.newProposal = s.newProposal
      /\ t.prop = s.prop /\ t.catchup = c /\ t.reset = s.reset
  BY <1>1 DEF NodeState
<1>7. node'[Genesis] = t
  BY <1>4
<1> HIDE DEF t
<1>8. Drives(t) = 1
  BY <1>2, <1>3, <1>5, <1>6 DEF Drives, One
<1> QED BY <1>1, <1>6, <1>7, <1>8 DEF RoundOK

\* A catch-up that goes on takes the place of the proposal it rolls back.
LEMMA ProbeCatchupRound ==
  ASSUME RoundInv, ProbeCatchup(Genesis)
  PROVE  RoundOK(node'[Genesis])
<1> DEFINE s == node[Genesis]
           r == RollbackState(s)
           d == [r.catchup EXCEPT !.stage = "sync"]
           a == [r EXCEPT !.catchup = d]
           b == [s EXCEPT !.catchup = NoCatchup]
<1>0. Running(Genesis) /\ s.catchup # NoCatchup /\ s.catchup.stage = "probe"
  BY DEF ProbeCatchup, Ready
<1>1. /\ s \in NodeState /\ Drives(s) = 1 /\ s.reset = 0
      /\ s.newRound \in Nat /\ s.newProposal \in Nat
      /\ s.catchup \in CatchupRun
      /\ \A t : Become(Genesis, t) => node'[Genesis] = t
  BY <1>0, RoundNode
<1>2. \/ node'[Genesis] = a /\ s.prop = s.catchup.blk
      \/ node'[Genesis] = b
  BY <1>1 DEF ProbeCatchup
<1>3. s.prop = s.catchup.blk => s.prop # NoBlock
  BY <1>1, NilAssumption DEF CatchupRun
<1>4. r \in NodeState /\ r.prop = NoBlock /\ SameRound(r, s)
  BY <1>1, ResetFacts, ResetFields DEF RollbackState
<1> HIDE DEF r
<1>5. d \in CatchupRun /\ d.stage = "sync"
  BY <1>1, <1>4 DEF SameRound, CatchupRun
<1> HIDE DEF d
<1>6. /\ a.newRound = r.newRound /\ a.newProposal = r.newProposal
      /\ a.prop = r.prop /\ a.catchup = d /\ a.reset = r.reset
  BY <1>4 DEF NodeState
<1>7. /\ b.newRound = s.newRound /\ b.newProposal = s.newProposal
      /\ b.prop = s.prop /\ b.catchup = NoCatchup /\ b.reset = s.reset
  BY <1>1 DEF NodeState
<1> HIDE DEF a, b
<1>8. s.prop = s.catchup.blk => Drives(a) = 1
  BY <1>0, <1>1, <1>3, <1>4, <1>5, <1>6, NilAssumption DEF Drives, One, SameRound
<1>9. Drives(b) = 1
  BY <1>0, <1>1, <1>7 DEF Drives, One
<1> QED BY <1>1, <1>2, <1>4, <1>6, <1>7, <1>8, <1>9 DEF RoundOK, SameRound

\* A block of the catch-up is committed with no proposal in the way.
LEMMA ApplyCatchupRound ==
  ASSUME RoundInv, NEW m \in Nodes, ApplyCatchup(Genesis, m)
  PROVE  RoundOK(node'[Genesis])
<1> DEFINE s == node[Genesis]
           h == s.catchup.next
           c == node[m].chain
           e == c[h]
           p == ProcessAndCommit(s, e)
           d == [p.catchup EXCEPT !.next = h + 1]
           t == [p EXCEPT !.catchup = d]
<1>0. Running(Genesis) /\ s.catchup # NoCatchup /\ s.catchup.stage = "sync"
  BY DEF ApplyCatchup, Ready
<1>1. /\ s \in NodeState /\ Drives(s) = 1 /\ s.reset = 0
      /\ s.newRound \in Nat /\ s.newProposal \in Nat
      /\ s.catchup \in CatchupRun
      /\ \A x : Become(Genesis, x) => node'[Genesis] = x
  BY <1>0, RoundNode
<1>2. node'[Genesis] = IF CanProcess(s, e) THEN t ELSE Halt(t)
  BY <1>1 DEF ApplyCatchup
<1>3. e \in Entry
  <2>1. h \in Nat \ {0}
    BY <1>1 DEF CatchupRun
  <2>2. c \in Seq(Entry) /\ h <= Len(c)
    BY NodeOK DEF RoundInv, FixedInv, ApplyCatchup
  <2> QED BY <2>1, <2>2
<1>4. s.newRound = 0 /\ s.newProposal = 0 /\ s.prop = NoBlock
  BY <1>0, <1>1 DEF Drives, One
<1> HIDE DEF e
<1>5. p \in NodeState /\ p.prop = NoBlock
  BY <1>1, <1>3, <1>4, ProcessFacts, CommitFacts DEF Alike
<1>6. SameRound(p, s)
  <2> DEFINE i == e.blk.height
             q == [s EXCEPT !.hasBlock = i]
  <2>1. p \in {Commit(s, e), q}
    BY DEF ProcessAndCommit
  <2> HIDE DEF i
  <2>2. SameRound(q, s)
    BY <1>1 DEF NodeState, SameRound
  <2> HIDE DEF q, p
  <2> QED BY <1>1, <1>3, <2>1, <2>2, CommitFields
<1> HIDE DEF p
<1>7. d \in CatchupRun /\ d.stage = "sync"
  BY <1>0, <1>1, <1>6 DEF SameRound, CatchupRun
<1> HIDE DEF d
<1>8. /\ t.newRound = p.newRound /\ t.newProposal = p.newProposal
      /\ t.prop = p.prop /\ t.catchup = d /\ t.reset = p.reset /\ t \in NodeState
  BY <1>5, <1>7 DEF NodeState
<1> HIDE DEF t
<1>9. RoundOK(t)
  BY <1>1, <1>4, <1>5, <1>6, <1>7, <1>8, NilAssumption
     DEF Drives, One, SameRound, RoundOK
<1>10. RoundOK(Halt(t))
  BY <1>1, <1>6, <1>8 DEF RoundOK, Halt, NodeState, SameRound
<1> QED BY <1>2, <1>9, <1>10

\* The end of a catch-up leaves its signal behind.
LEMMA EndCatchupRound ==
  ASSUME RoundInv, EndCatchup(Genesis)
  PROVE  RoundOK(node'[Genesis])
<1> DEFINE s == node[Genesis]
           a == [s EXCEPT !.catchup = NoCatchup]
           t == SignalRound(Genesis, a)
<1>0. Running(Genesis) /\ s.catchup # NoCatchup /\ s.catchup.stage = "sync"
  BY DEF EndCatchup, Ready
<1>1. /\ s \in NodeState /\ Drives(s) = 1 /\ s.reset = 0 /\ s.leader = Genesis
      /\ s.newRound \in Nat /\ s.newProposal \in Nat
      /\ \A x : Become(Genesis, x) => node'[Genesis] = x
  BY <1>0, RoundNode
<1>2. node'[Genesis] = t
  BY <1>1 DEF EndCatchup
<1>3. /\ a \in NodeState /\ a.newRound = s.newRound /\ a.reset = s.reset
      /\ a.newProposal = s.newProposal /\ a.prop = s.prop /\ a.leader = s.leader
      /\ a.catchup = NoCatchup
  BY <1>1 DEF NodeState
<1> HIDE DEF a
<1>4. /\ t.prop = a.prop /\ t.newProposal = a.newProposal /\ t.catchup = a.catchup
      /\ t.reset = a.reset
      /\ t.newRound = IF a.leader = Genesis THEN a.newRound + 1 ELSE a.newRound
  BY <1>3, SignalFields, NodesAssumption
<1> HIDE DEF t
<1>5. Drives(t) = 1
  BY <1>0, <1>1, <1>3, <1>4 DEF Drives, One
<1> QED BY <1>1, <1>2, <1>3, <1>4, <1>5 DEF RoundOK

\* A restarted leader has one signal.
LEMMA RestartRound ==
  ASSUME RoundInv, FixedInv', NEW m \in Nodes, NEW k \in Nat, Restart(Genesis, m, k)
  PROVE  RoundOK(node'[Genesis])
<1> DEFINE s == node[Genesis]
           c == s.chain
           f == s.leaderFile
           p == node[m].chain
           t == Start(Genesis, c, f, p, k)
<1>1. c \in Seq(Entry) /\ p \in Seq(Entry) /\ f \in Update \cup {NoUpdate}
  BY NodeOK, NodesAssumption DEF RoundInv, FixedInv, NodeState
<1>2. Len(c) \in Nat /\ Len(p) \in Nat
  BY <1>1
<1>3. k <= Len(c) \/ k <= Len(p)
  BY <1>2 DEF Restart, Reopen
<1>4. node'[Genesis] = t
  BY NodesAssumption DEF Restart, Reopen, Become, RoundInv, FixedInv, TypeInv, NodesOK
<1>5. t.leader = Genesis
  BY <1>4, NodesAssumption DEF FixedInv, LedByGenesis
<1> QED BY <1>1, <1>3, <1>4, <1>5, StartRound, NodesAssumption

\* The invariant holds always.
LEMMA RoundInvariant ==
  ASSUME MaxPromote = 0, MaxLoss = 0
  PROVE  Spec => []RoundInv
<1>0. Genesis \in Nodes
  BY NodesAssumption
<1>1. Init /\ FixedInv => RoundInv
  <2>1. ASSUME Init, FixedInv PROVE RoundOK(node[Genesis])
    <3>1. node[Genesis] = Start(Genesis, <<>>, NoUpdate, <<>>, 0)
      BY <1>0, <2>1 DEF Init
    <3>2. node[Genesis].leader = Genesis
      BY <1>0, <2>1 DEF FixedInv, LedByGenesis
    <3>3. <<>> \in Seq(Entry) /\ 0 <= Len(<<>>)
      OBVIOUS
    <3> QED BY <1>0, <3>1, <3>2, <3>3, StartRound
  <2> QED BY <2>1 DEF RoundInv
<1>2. RoundInv /\ FixedInv' /\ [Next]_vars => RoundInv'
  <2>1. ASSUME RoundInv, FixedInv', Next PROVE RoundOK(node'[Genesis])
    <3>1. PICK n \in Nodes : LeaderStep(n) \/ FollowerStep(n) \/ EnvironmentStep(n)
      BY <2>1 DEF Next
    <3>2. CASE n # Genesis
      <4>1. Kinds(n)
        BY <2>1, <3>1, StepKinds DEF RoundInv, FixedInv
      <4>2. \E t : Become(n, t)
        BY <4>1 DEF Kinds, Stay, Copy, Learn, Decide, Make, Adopt, Receive,
                    Command, Lose
      <4>3. node'[Genesis] = node[Genesis]
        BY <1>0, <2>1, <3>2, <4>2 DEF Become, RoundInv, FixedInv, TypeInv, NodesOK
      <4> QED BY <2>1, <4>3 DEF RoundInv
    <3>3. CASE n = Genesis
      <4>1. 0..MaxHeight \subseteq Nat
        BY BoundsAssumption
      <4>2. CASE LeaderStep(Genesis)
        BY <2>1, <4>2, NotTheLeader, NewRoundRound, ProposeBlockRound, VotesRound,
           CancelRound, QuietRound, BeginCatchupRound, ProbeCatchupRound,
           ApplyCatchupRound, EndCatchupRound DEF LeaderStep
      <4>3. CASE FollowerStep(Genesis)
        BY <2>1, <4>3, NotTheLeader, QuietRound DEF FollowerStep
      <4>4. CASE EnvironmentStep(Genesis)
        BY <2>1, <4>1, <4>4, NotTheLeader, QuietRound, RestartRound
           DEF EnvironmentStep
      <4> QED BY <3>1, <3>3, <4>2, <4>3, <4>4
    <3> QED BY <3>2, <3>3
  <2>2. ASSUME RoundInv, UNCHANGED vars PROVE RoundOK(node'[Genesis])
    BY <2>2 DEF vars, RoundInv
  <2> QED BY <2>1, <2>2 DEF RoundInv
<1> QED BY <1>1, <1>2, FixedInvariant, PTL DEF Spec

\* A leader drives exactly one round, with any number of nodes, heights,
\* crashes, cancellations and out-of-sync catch-ups, as long as no leader is
\* replaced and no disk goes back (newBlockRound, proposeBlock, processVotes,
\* CancelBlockExecution, catchUpFromOutOfSync, endOutOfSyncCatchup).
THEOREM OneRoundUnderOneLeader ==
  ASSUME MaxPromote = 0, MaxLoss = 0
  PROVE  Spec => []OneRound
<1>1. RoundInv => OneRound
  <2>1. ASSUME RoundInv, NEW n \in Nodes, Running(n), Role(n, node[n]) = "Leader"
        PROVE  node[n].newRound + node[n].newProposal
                 + One(node[n].prop # NoBlock /\ node[n].prop.by = n)
                 + One(node[n].catchup # NoCatchup /\ node[n].catchup.stage = "sync") = 1
    <3>1. n = Genesis
      BY <2>1 DEF Role, RoundInv, FixedInv, LedByGenesis
    <3>2. /\ Drives(node[n]) = 1
          /\ node[n].prop # NoBlock => node[n].prop.by = n
      BY <2>1, <3>1, RoundNode
    <3> QED BY <3>2 DEF Drives, One
  <2> QED BY <2>1 DEF OneRound
<1> QED BY <1>1, RoundInvariant, PTL
=============================================================================
