------------------------------ MODULE Consensus ------------------------------
(***************************************************************************)
(* The consensus engine of kwild (node/consensus): one leader proposes a   *)
(* block, validators execute and acknowledge it, the leader commits it on  *)
(* a majority and announces it, everybody else commits the announcement or *)
(* fetches the block from a peer.                                          *)
(*                                                                         *)
(* Every node runs one event loop that holds state.mtx while it executes a *)
(* block.  Beside it run the p2p handlers (AcceptProposal), the reset loop *)
(* (CancelBlock, ResetBlockProp), the out-of-sync catch-up goroutine and   *)
(* the admin calls (PromoteLeader, CancelBlockExecution).  The execution   *)
(* of a proposal is therefore two steps, so that those handlers interleave *)
(* with it.                                                                *)
(*                                                                         *)
(* The network is the set of all messages ever sent: a message may be      *)
(* received late, several times, in any order or never.                    *)
(***************************************************************************)
EXTENDS Naturals, Sequences, FiniteSets

CONSTANTS
  Nodes,          \* all nodes: validators and sentries
  Validators,     \* the validator set (fixed)
  Genesis,        \* NetworkParameters.Leader of the genesis configuration
  NoNode, NoBlock, NoUpdate, NoCatchup,  \* nil pointers
  ClocksInSync,   \* TRUE: wall clocks only move forward and agree
  MaxHeight,      \* bound: length of a chain
  MaxStamp,       \* bound: header timestamps
  MaxProposals,   \* bound: blocks ever created
  MaxCrash,       \* bound: crashes of a node
  MaxLoss,        \* bound: restarts from an older copy of the disk
  MaxPromote,     \* bound: replace-leader commands
  MaxCancel       \* bound: CancelBlockExecution commands

ASSUME NodesAssumption ==
  /\ Validators \subseteq Nodes
  /\ Genesis \in Validators
  /\ IsFiniteSet(Nodes)
  /\ NoNode \notin Nodes

ASSUME BoundsAssumption ==
  /\ MaxHeight \in Nat /\ MaxStamp \in Nat /\ MaxProposals \in Nat
  /\ MaxCrash \in Nat /\ MaxLoss \in Nat /\ MaxPromote \in Nat
  /\ MaxCancel \in Nat
  /\ ClocksInSync \in BOOLEAN

\* A block.  id stands for the header hash, prev for Header.PrevHash, by for
\* the key of the header signature.
Block == [id : Nat, height : Nat \ {0}, stamp : Nat, prev : Nat,
          by : Validators, newLeader : Validators \cup {NoNode}]

\* A committed block with the validators whose acks its CommitInfo carries.
Entry == [blk : Block, votes : SUBSET Validators]

Update == [cand : Nodes, height : Nat]

CatchupRun == [blk : Block, next : Nat \ {0}, end : Nat,
               stage : {"probe", "sync"}]

Vote == [from : Validators, ack : BOOLEAN]

ASSUME NilAssumption ==
  /\ NoBlock \notin Block
  /\ NoUpdate \notin Update
  /\ NoCatchup \notin CatchupRun

\* What one node holds.  chain and leaderFile are on disk, the rest is lost
\* in a crash.
NodeState ==
  [chain : Seq(Entry),              \* block store and postgres
   leaderFile : Update \cup {NoUpdate},
   mode : {"run", "down", "halted", "panicked"},
   leader : Validators,             \* ce.leader
   prop : Block \cup {NoBlock},     \* state.blkProp
   res : BOOLEAN,                   \* state.blockRes # nil
   status : {"Committed", "Proposed", "Executed"},
   votes : SUBSET Vote,
   leaderUpdate : {u \in Update : u.cand \in Validators} \cup {NoUpdate},
   hasBlock : Nat,
   pending : Block \cup {NoBlock},  \* accepted proposal bound for msgChan
   newRound : Nat,                  \* signals on newRound
   newProposal : Nat,               \* signals on newBlockProposal
   catchup : CatchupRun \cup {NoCatchup},
   reset : Nat]                     \* height of a reset being applied, or 0

VARIABLES
  node,       \* node[n]: the state of node n
  proposals,  \* blocks broadcast as proposals
  acks,       \* votes sent
  nacks,      \* out-of-sync nacks sent
  anns,       \* block announcements sent
  resets,     \* reset messages sent
  used        \* how much of the bounds has been spent

vars == <<node, proposals, acks, nacks, anns, resets, used>>

net == <<proposals, acks, nacks, anns, resets>>

Ack == [from : Nodes, blk : Block, ack : BOOLEAN]
Nack == [from : Nodes, blk : Block, best : Block]
Reset == [from : Nodes, height : Nat]
Used == [crash : Nat, loss : Nat, promote : Nat, cancel : Nat]

-----------------------------------------------------------------------------
(* Reading a node's state                                                  *)

Height(s) == Len(s.chain)

LastId(s) == IF s.chain = <<>> THEN 0 ELSE s.chain[Len(s.chain)].blk.id

LastStamp(s) == IF s.chain = <<>> THEN 0 ELSE s.chain[Len(s.chain)].blk.stamp

\* NetworkParameters.Leader after the blocks of chain c: a header's NewLeader
\* becomes a parameter update of the block.
ParamLeader(c) ==
  LET changes == {i \in DOMAIN c : c[i].blk.newLeader # NoNode}
      last == {i \in changes : \A j \in changes : j <= i}
  IN  IF last = {} THEN Genesis
      ELSE c[CHOOSE i \in last : TRUE].blk.newLeader

Role(n, s) == IF s.leader = n THEN "Leader"
              ELSE IF n \in Validators THEN "Validator" ELSE "Sentry"

\* Mutant of HasMajority: half of the validators is enough.
HalfIsMajority(k) == k >= Cardinality(Validators) \div 2

HasMajority(k) == k >= (Cardinality(Validators) \div 2) + 1

HasEnoughNacks(k) == k >= (Cardinality(Validators) + 1) \div 2

\* The event loop is inside executeBlock and holds state.mtx.
Executing(s) == s.status = "Proposed"

\* validateBlock: the block extends the last commit.
ValidBlock(s, b) ==
  /\ b.height = Height(s) + 1
  /\ b.prev = LastId(s)
  /\ b.newLeader \in Validators \cup {NoNode}

-----------------------------------------------------------------------------
(* The state changes the handlers share                                    *)

\* Mutant of ResetState: the votes survive.
ResetKeepsVotes(s) ==
  [s EXCEPT !.prop = NoBlock, !.res = FALSE, !.status = "Committed",
            !.hasBlock = Len(s.chain),
            !.leaderFile = IF s.leaderUpdate = NoUpdate THEN @ ELSE NoUpdate,
            !.leaderUpdate = NoUpdate]

\* resetState: an applied leader update is dropped together with its file.
ResetState(s) ==
  [s EXCEPT !.prop = NoBlock, !.res = FALSE, !.votes = {},
            !.status = "Committed", !.hasBlock = Len(s.chain),
            !.leaderFile = IF s.leaderUpdate = NoUpdate THEN @ ELSE NoUpdate,
            !.leaderUpdate = NoUpdate]

\* rollbackState: the database transaction is rolled back.
RollbackState(s) == ResetState(s)

\* commit: store the block, nextState, updateValidatorSetAndRole.
Commit(s, e) ==
  LET t == ResetState([s EXCEPT !.chain = Append(s.chain, e)])
  IN  [t EXCEPT !.leader = ParamLeader(t.chain)]

\* applyLeaderUpdates.
ApplyLeaderUpdates(s) ==
  IF s.leaderFile = NoUpdate \/ s.leaderFile.height > Height(s) + 1
    THEN s
  ELSE IF s.leaderFile.height <= Height(s) \/ s.leaderFile.cand \notin Validators
    THEN [s EXCEPT !.leaderFile = NoUpdate]
  ELSE [s EXCEPT !.leader = s.leaderFile.cand,
                 !.leaderUpdate = s.leaderFile]

\* A signal on newRound when the node leads.
SignalRound(n, s) ==
  IF Role(n, s) = "Leader" THEN [s EXCEPT !.newRound = @ + 1] ELSE s

Halt(s) == [s EXCEPT !.mode = "halted"]

\* processAndCommit up to its checks: the swap of hasBlock, validateBlock,
\* acceptCommitInfo and a free database connection.
CanProcess(s, e) ==
  /\ s.hasBlock = Height(s)
  /\ ValidBlock(s, e.blk)
  /\ HasMajority(Cardinality(e.votes))
  /\ s.prop = NoBlock \/ ~s.res

ProcessAndCommit(s, e) ==
  IF CanProcess(s, e) THEN Commit(s, e)
  ELSE [s EXCEPT !.hasBlock = e.blk.height]

\* Mutant of Replay: the overtaken proposal stays.
ReplayKeepsProposal(s, c, k) ==
  IF k <= Height(s) THEN s
  ELSE [s EXCEPT !.chain = @ \o SubSeq(c, Height(s) + 1, k), !.hasBlock = k]

\* Fetching the blocks after the last commit from a peer whose chain is c, up
\* to height k, and applying each of them (replayBlockFromNetwork).
Replay(s, c, k) ==
  IF k <= Height(s) THEN s
  ELSE LET t == ResetState([s EXCEPT !.chain = @ \o SubSeq(c, Height(s) + 1, k)])
       IN  [t EXCEPT !.leader = ParamLeader(t.chain)]

\* The first of those blocks is refused: it does not extend the last commit,
\* hasBlock was left ahead by an earlier failure, or a transaction is open.
CannotReplay(s, c) ==
  /\ Len(c) > Height(s)
  /\ ~CanProcess(s, c[Height(s) + 1])

\* New, catchup, applyLeaderUpdates and the first signal of Start, for a node
\* whose disk holds the given chain and leader file and whose peers serve it
\* the blocks of c up to height k.
Start(n, chain, file, c, k) ==
  LET s == [chain |-> chain, leaderFile |-> file, mode |-> "run",
            leader |-> ParamLeader(chain), prop |-> NoBlock, res |-> FALSE,
            status |-> "Committed", votes |-> {}, leaderUpdate |-> NoUpdate,
            hasBlock |-> Len(chain), pending |-> NoBlock, newRound |-> 0,
            newProposal |-> 0, catchup |-> NoCatchup, reset |-> 0]
      t == ApplyLeaderUpdates(Replay(s, c, k))
  IN  IF Role(n, t) = "Leader" THEN [t EXCEPT !.newProposal = 1] ELSE t

Init ==
  /\ node = [n \in Nodes |-> Start(n, <<>>, NoUpdate, <<>>, 0)]
  /\ proposals = {} /\ acks = {} /\ nacks = {} /\ anns = {} /\ resets = {}
  /\ used = [crash |-> 0, loss |-> 0, promote |-> 0, cancel |-> 0]

\* Node n goes to state s.
Become(n, s) == node' = [node EXCEPT ![n] = s]

Running(n) == node[n].mode = "run"

\* The event loop of n is free to take the next event.
Ready(n) == Running(n) /\ ~Executing(node[n])

\* Some running peer of n has the block at height h.
Available(n, h) ==
  \E m \in Nodes \ {n} : Running(m) /\ Len(node[m].chain) >= h

-----------------------------------------------------------------------------
(* Leader                                                                  *)

\* Mutant of NewRound: taken without a signal.
NewRoundUnsignalled(n) ==
  /\ Ready(n)
  /\ Become(n, [node[n] EXCEPT !.newRound = @ - 1, !.newProposal = @ + 1])
  /\ UNCHANGED <<net, used>>

\* case <-newRound, and the newBlockRound goroutine it starts.
NewRound(n) ==
  /\ Ready(n)
  /\ node[n].newRound > 0
  /\ LET s == ApplyLeaderUpdates([node[n] EXCEPT !.newRound = @ - 1])
     IN  Become(n, IF Role(n, s) = "Leader"
                     THEN [s EXCEPT !.newProposal = @ + 1] ELSE s)
  /\ UNCHANGED <<net, used>>

\* case <-newBlockProposal in a node that no longer leads.
DropNewProposal(n) ==
  /\ Ready(n)
  /\ node[n].newProposal > 0
  /\ Role(n, node[n]) # "Leader"
  /\ Become(n, [node[n] EXCEPT !.newProposal = @ - 1])
  /\ UNCHANGED <<net, used>>

\* proposalTimestamp: the local clock, but after the previous block.
Stamps(s) ==
  {t \in 1..MaxStamp : /\ t > LastStamp(s)
                       /\ ClocksInSync => t = Cardinality(proposals) + 1}

\* createBlockProposal.
NewBlock(n, s, t) ==
  [id |-> Cardinality(proposals) + 1, height |-> Height(s) + 1, stamp |-> t,
   prev |-> LastId(s), by |-> n,
   newLeader |-> IF s.leaderUpdate = NoUpdate THEN NoNode
                 ELSE s.leaderUpdate.cand]

\* proposeBlock up to the execution.  With a block already in execution the
\* database refuses a second transaction and the node stops.
ProposeBlock(n) ==
  LET s == node[n] IN
  /\ Ready(n)
  /\ s.newProposal > 0
  /\ Role(n, s) = "Leader"
  /\ Height(s) < MaxHeight
  /\ Cardinality(proposals) < MaxProposals
  /\ \E t \in Stamps(s) :
       LET b == NewBlock(n, s, t)
           p == [s EXCEPT !.newProposal = @ - 1, !.prop = b,
                          !.status = "Proposed"]
       IN  /\ proposals' = proposals \cup {b}
           /\ Become(n, IF s.prop # NoBlock /\ s.res THEN Halt(p) ELSE p)
  /\ UNCHANGED <<acks, nacks, anns, resets, used>>

Acked(s) == {v.from : v \in {w \in s.votes : w.ack}}

Nacked(s) == {v.from : v \in {w \in s.votes : ~w.ack}}

\* The block a leader in state s may commit, with its CommitInfo.
CommitEntry(s) == [blk |-> s.prop, votes |-> Acked(s)]

Decided(s) == /\ ~HasEnoughNacks(Cardinality(Nacked(s)))
              /\ HasMajority(Cardinality(Acked(s)))

\* Mutant of ProcessVotes: the announcement leaves before the commit.
AnnounceBeforeCommit(n, s) ==
  /\ Become(n, s)
  /\ anns' = IF Decided(s) THEN anns \cup {CommitEntry(s)} ELSE anns

\* processVotes: halt on rejection, commit and announce on a majority.
ProcessVotes(n, s) ==
  /\ Become(n, IF HasEnoughNacks(Cardinality(Nacked(s))) THEN Halt(s)
               ELSE IF Decided(s) THEN SignalRound(n, Commit(s, CommitEntry(s)))
               ELSE s)
  /\ anns' = IF Decided(s) THEN anns \cup {CommitEntry(s)} ELSE anns

\* proposeBlock after the execution: the leader's own vote.
FinishProposal(n) ==
  LET s == node[n] IN
  /\ Running(n) /\ Executing(s)
  /\ s.prop.by = n
  /\ ProcessVotes(n, [s EXCEPT !.status = "Executed", !.res = TRUE,
                               !.votes = @ \cup {[from |-> n, ack |-> TRUE]}])
  /\ UNCHANGED <<proposals, acks, nacks, resets, used>>

\* addVote for an ack or an invalid-block nack.
AddVote(n, a) ==
  LET s == node[n] IN
  /\ Ready(n)
  /\ Role(n, s) = "Leader"
  /\ s.prop = a.blk /\ s.res
  /\ a.from \in Validators
  /\ \A v \in s.votes : v.from # a.from
  /\ ProcessVotes(n, [s EXCEPT !.votes = @ \cup {[from |-> a.from, ack |-> a.ack]}])
  /\ UNCHANGED <<proposals, acks, nacks, resets, used>>

\* Mutant of CancelBlockExecution: the leader does not propose anew.
CancelWithoutReproposal(n) ==
  LET s == node[n] IN
  /\ Running(n) /\ Executing(s)
  /\ s.prop.by = n
  /\ used.cancel < MaxCancel
  /\ resets' = resets \cup {[from |-> n, height |-> Height(s)]}
  /\ Become(n, RollbackState(s))
  /\ used' = [used EXCEPT !.cancel = @ + 1]
  /\ UNCHANGED <<proposals, acks, nacks, anns>>

\* CancelBlockExecution by the operator while a proposal executes.  The
\* cancelled branch of proposeBlock tells the network, rolls back and proposes
\* anew; the one of processBlockProposal returns and leaves the proposal there.
CancelBlockExecution(n) ==
  LET s == node[n] IN
  /\ Running(n) /\ Executing(s)
  /\ used.cancel < MaxCancel
  /\ IF s.prop.by = n
       THEN /\ resets' = resets \cup {[from |-> n, height |-> Height(s)]}
            /\ Become(n, [RollbackState(s) EXCEPT !.newProposal = @ + 1])
       ELSE /\ Become(n, [s EXCEPT !.status = "Executed"])
            /\ UNCHANGED resets
  /\ used' = [used EXCEPT !.cancel = @ + 1]
  /\ UNCHANGED <<proposals, acks, nacks, anns>>

-----------------------------------------------------------------------------
(* Out-of-sync leader                                                      *)

\* addVote for an out-of-sync nack, and beginOutOfSyncCatchup.
BeginCatchup(n, x) ==
  LET s == node[n] IN
  /\ Ready(n)
  /\ Role(n, s) = "Leader"
  /\ s.prop = x.blk
  /\ x.from \in Validators
  /\ x.best.by = n
  /\ x.best.height > s.prop.height
  /\ IF s.catchup # NoCatchup /\ s.catchup.blk = s.prop
       THEN /\ x.best.height > s.catchup.end
            /\ Become(n, [s EXCEPT !.catchup.end = x.best.height])
       ELSE Become(n, [s EXCEPT !.catchup =
              [blk |-> s.prop, next |-> Height(s) + 1,
               end |-> x.best.height, stage |-> "probe"]])
  /\ UNCHANGED <<net, used>>

\* Mutant of ProbeCatchup: a failed probe leaves the catch-up marked.
ProbeLeavesMark(n) ==
  LET s == node[n] IN
  /\ Ready(n)
  /\ s.catchup # NoCatchup /\ s.catchup.stage = "probe"
  /\ Available(n, s.catchup.next) /\ s.prop = s.catchup.blk
  /\ Become(n, [RollbackState(s) EXCEPT !.catchup.stage = "sync"])
  /\ UNCHANGED <<net, used>>

\* catchUpFromOutOfSync up to the rollback: give up unless a peer serves the
\* next block and the proposal is still the one the proof was about.
ProbeCatchup(n) ==
  LET s == node[n] IN
  /\ Ready(n)
  /\ s.catchup # NoCatchup /\ s.catchup.stage = "probe"
  /\ Become(n, IF Available(n, s.catchup.next) /\ s.prop = s.catchup.blk
                 THEN [RollbackState(s) EXCEPT !.catchup.stage = "sync"]
                 ELSE [s EXCEPT !.catchup = NoCatchup])
  /\ UNCHANGED <<net, used>>

\* One block of syncBlocksUntilHeight, fetched from peer m; the event loop
\* runs between two of them, and a block that no longer fits halts the node.
ApplyCatchup(n, m) ==
  LET s == node[n]
      h == s.catchup.next
  IN
  /\ Ready(n) /\ Running(m) /\ m # n
  /\ s.catchup # NoCatchup /\ s.catchup.stage = "sync"
  /\ h <= s.catchup.end
  /\ h <= Len(node[m].chain)
  /\ LET e == node[m].chain[h]
         t == [ProcessAndCommit(s, e) EXCEPT !.catchup.next = h + 1]
     IN  Become(n, IF CanProcess(s, e) THEN t ELSE Halt(t))
  /\ UNCHANGED <<net, used>>

\* The target height is reached, or no peer has the next block.
EndCatchup(n) ==
  LET s == node[n] IN
  /\ Ready(n)
  /\ s.catchup # NoCatchup /\ s.catchup.stage = "sync"
  /\ s.catchup.next > s.catchup.end \/ ~Available(n, s.catchup.next)
  /\ Become(n, SignalRound(n, [s EXCEPT !.catchup = NoCatchup]))
  /\ UNCHANGED <<net, used>>

-----------------------------------------------------------------------------
(* Validators and sentries                                                 *)

\* Mutant of AcceptProposal: a busy validator refuses every proposal.
AcceptOnlyWhenIdle(n, b) ==
  LET s == node[n] IN
  /\ Running(n)
  /\ Role(n, s) = "Validator"
  /\ b.by = s.leader
  /\ b.height = Height(s) + 1
  /\ s.status = "Committed"
  /\ s.pending = NoBlock
  /\ Become(n, [s EXCEPT !.pending = b])
  /\ UNCHANGED <<net, used>>

\* AcceptProposal of the p2p handler when it lets the proposal through, and
\* NotifyBlockProposal.  The handler holds the only proposal slot until the
\* event loop has taken the proposal.
AcceptProposal(n, b) ==
  LET s == node[n] IN
  /\ Running(n)
  /\ Role(n, s) = "Validator"
  /\ b.by = s.leader
  /\ b.height = Height(s) + 1
  /\ s.status # "Committed" => s.prop # b /\ s.prop.stamp < b.stamp
  /\ s.pending = NoBlock
  /\ Become(n, [s EXCEPT !.pending = b])
  /\ UNCHANGED <<net, used>>

\* AcceptProposal for a committed height: answer with the best block's header.
SendOutOfSyncNack(n, b) ==
  LET s == node[n] IN
  /\ Running(n)
  /\ Role(n, s) = "Validator"
  /\ b.by = s.leader
  /\ b.height < Height(s)
  /\ s.chain[b.height].blk # b
  /\ s.chain[b.height].blk.stamp <= b.stamp
  /\ nacks' = nacks \cup {[from |-> n, blk |-> b,
                           best |-> s.chain[Height(s)].blk]}
  /\ UNCHANGED <<node, proposals, acks, anns, resets, used>>

\* The early returns of processBlockProposal; with clocks that disagree any
\* proposal may look too far ahead.
IgnoresProposal(n, s, b) ==
  \/ Role(n, s) # "Validator"
  \/ b.height # Height(s) + 1
  \/ s.prop # NoBlock /\ (s.prop = b \/ s.prop.stamp > b.stamp)

IgnoreProposal(n) ==
  LET s == node[n] IN
  /\ Ready(n)
  /\ s.pending # NoBlock
  /\ IgnoresProposal(n, s, s.pending) \/ ~ClocksInSync
  /\ Become(n, [s EXCEPT !.pending = NoBlock])
  /\ UNCHANGED <<net, used>>

\* processBlockProposal up to the execution: a replaced proposal is rolled
\* back, a foreign leader change is refused, an invalid block gets a nack.
ProcessBlockProposal(n) ==
  LET b == node[n].pending
      r == [node[n] EXCEPT !.pending = NoBlock]
      s == IF r.prop = NoBlock THEN r ELSE RollbackState(r)
  IN
  /\ Ready(n)
  /\ b # NoBlock
  /\ ~IgnoresProposal(n, node[n], b)
  /\ IF b.newLeader # NoNode /\ b.newLeader # s.leader
       THEN Become(n, s) /\ UNCHANGED acks
     ELSE IF ~ValidBlock(s, b) \/ b.stamp <= LastStamp(s)
       THEN /\ Become(n, s)
            /\ acks' = acks \cup {[from |-> n, blk |-> b, ack |-> FALSE]}
     ELSE /\ Become(n, [s EXCEPT !.prop = b, !.res = FALSE,
                                 !.status = "Proposed"])
          /\ UNCHANGED acks
  /\ UNCHANGED <<proposals, nacks, anns, resets, used>>

\* processBlockProposal after the execution: the ack.
FinishExecution(n) ==
  LET s == node[n] IN
  /\ Running(n) /\ Executing(s)
  /\ s.prop.by # n
  /\ Become(n, [s EXCEPT !.status = "Executed", !.res = TRUE])
  /\ acks' = acks \cup {[from |-> n, blk |-> s.prop, ack |-> TRUE]}
  /\ UNCHANGED <<proposals, nacks, anns, resets, used>>

\* Mutant of Committed: the executed block is committed unseen.
CommitsWhatItExecuted(n, s, e) ==
  IF s.prop # NoBlock /\ s.res
    THEN Commit(s, [blk |-> s.prop, votes |-> e.votes])
    ELSE ProcessAndCommit(s, e)

\* commitBlock on announcement e.
Committed(n, s, e) ==
  IF Role(n, s) = "Sentry" \/ s.prop = NoBlock THEN ProcessAndCommit(s, e)
  ELSE IF s.prop # e.blk THEN ProcessAndCommit(RollbackState(s), e)
  ELSE IF ~s.res THEN [s EXCEPT !.mode = "panicked"]
  ELSE IF HasMajority(Cardinality(e.votes)) THEN Commit(s, e)
  ELSE [s EXCEPT !.hasBlock = e.blk.height]

\* AcceptCommit, NotifyBlockCommit and the blockAnnounce case of the loop.
CommitBlock(n, e) ==
  LET s == node[n]
      t == Committed(n, s, e)
      u == ApplyLeaderUpdates(t)
  IN
  /\ Ready(n)
  /\ e.blk.height = Height(s) + 1
  /\ e.blk.newLeader \in Validators \cup {NoNode}
  /\ s.hasBlock # e.blk.height
  /\ Become(n, IF Height(t) = Height(s) THEN t
               ELSE IF Role(n, s) # "Leader" THEN SignalRound(n, u)
               ELSE u)
  /\ UNCHANGED <<net, used>>

\* reannounceMsgs in a validator: the ack of the block it waits on.  A result
\* the node computed as the proposer carries no vote.
ReannounceAck(n) ==
  LET s == node[n] IN
  /\ Ready(n)
  /\ Role(n, s) = "Validator"
  /\ s.prop # NoBlock /\ s.res
  /\ IF s.prop.by = n
       THEN Become(n, [s EXCEPT !.mode = "panicked"]) /\ UNCHANGED acks
       ELSE /\ acks' = acks \cup {[from |-> n, blk |-> s.prop, ack |-> TRUE]}
            /\ UNCHANGED node
  /\ UNCHANGED <<proposals, nacks, anns, resets, used>>

-----------------------------------------------------------------------------
(* Timers, resets and the operator                                         *)

\* doCatchup in the leader: only its leader updates.
LeaderCatchup(n) ==
  /\ Ready(n)
  /\ Role(n, node[n]) = "Leader"
  /\ Become(n, ApplyLeaderUpdates(node[n]))
  /\ UNCHANGED <<net, used>>

\* The node executed a proposal and waits for its commit.
Waiting(n, s) == Role(n, s) = "Validator" /\ s.prop # NoBlock /\ s.res

\* processCurrentBlock with the block a peer holds at the proposal's height.
ProcessCurrentBlock(n, s, c) ==
  IF ~Waiting(n, s) THEN s
  ELSE LET e == c[s.prop.height]
           t == IF e.blk = s.prop THEN Commit(s, e)
                ELSE ProcessAndCommit(RollbackState(s), e)
       IN  IF Height(t) = Height(s) THEN Halt(t) ELSE t

\* doCatchup elsewhere, with peer m serving the blocks up to height k (none
\* when k is the node's own height).  A node that waits and finds no peer with
\* the block gives up before it comes to the leader updates.
DoCatchup(n, m, k) ==
  LET s == node[n]
      c == node[m].chain
      t == ProcessCurrentBlock(n, s, c)
      u == ApplyLeaderUpdates(Replay(t, c, k))
  IN
  /\ Ready(n) /\ m # n
  /\ Role(n, s) # "Leader"
  /\ Waiting(n, s) => Running(m) /\ s.prop.height <= Len(c)
  /\ k \in Height(t)..Len(c) \cup {Height(t)}
  /\ k > Height(t) => Running(m)
  /\ Become(n, IF t.mode # "run" THEN t
               ELSE IF k > Height(t) /\ CannotReplay(t, c) THEN Halt(t)
               ELSE SignalRound(n, u))
  /\ UNCHANGED <<net, used>>

\* NotifyResetState and cancelBlock: the check is made without state.mtx.  A
\* block in execution is cancelled, or it finishes before the cancellation
\* reaches it.
CancelBlock(n, r) ==
  LET s == [node[n] EXCEPT !.reset = r.height] IN
  /\ Running(n)
  /\ Role(n, s) = "Validator"
  /\ r.from = s.leader
  /\ node[n].reset = 0
  /\ r.height = Height(s) + 1
  /\ s.prop # NoBlock
  /\ \/ Become(n, s)
     \/ Executing(s) /\ Become(n, [s EXCEPT !.status = "Executed"])
  /\ UNCHANGED <<net, used>>

\* resetBlockProp once it holds state.mtx.
ResetBlockProp(n) ==
  /\ Ready(n)
  /\ node[n].reset # 0
  /\ Become(n, [RollbackState(node[n]) EXCEPT !.reset = 0])
  /\ UNCHANGED <<net, used>>

\* PromoteLeader, the operator's replace-leader command at node n.
PromoteLeader(n, c, h) ==
  /\ Running(n)
  /\ used.promote < MaxPromote
  /\ h > Height(node[n])
  /\ Become(n, [node[n] EXCEPT !.leaderFile = [cand |-> c, height |-> h]])
  /\ used' = [used EXCEPT !.promote = @ + 1]
  /\ UNCHANGED net

\* The process dies.
Crash(n) ==
  /\ Running(n)
  /\ used.crash < MaxCrash
  /\ Become(n, [node[n] EXCEPT !.mode = "down"])
  /\ used' = [used EXCEPT !.crash = @ + 1]
  /\ UNCHANGED net

\* New and Start on chain c of the disk, with peer m serving the blocks up to
\* height k; a block that does not fit keeps the node from starting.
Reopen(n, c, m, k) ==
  LET s == Start(n, c, node[n].leaderFile, <<>>, 0)
      p == node[m].chain
  IN
  /\ ~Running(n)
  /\ m # n
  /\ k \in Len(c)..Len(p) \cup {Len(c)}
  /\ k > Len(c) => Running(m) /\ ~CannotReplay(s, p)
  /\ Become(n, Start(n, c, node[n].leaderFile, p, k))

Restart(n, m, k) ==
  /\ Reopen(n, node[n].chain, m, k)
  /\ UNCHANGED <<net, used>>

\* The node comes back with an older copy of its disk, that ends at height j.
RestoreOld(n, j, m, k) ==
  /\ used.loss < MaxLoss
  /\ j < Height(node[n])
  /\ Reopen(n, SubSeq(node[n].chain, 1, j), m, k)
  /\ used' = [used EXCEPT !.loss = @ + 1]
  /\ UNCHANGED net

-----------------------------------------------------------------------------

LeaderStep(n) ==
  \/ NewRound(n)
  \/ DropNewProposal(n)
  \/ ProposeBlock(n)
  \/ FinishProposal(n)
  \/ \E a \in acks : AddVote(n, a)
  \/ CancelBlockExecution(n)
  \/ LeaderCatchup(n)
  \/ \E x \in nacks : BeginCatchup(n, x)
  \/ ProbeCatchup(n)
  \/ \E m \in Nodes : ApplyCatchup(n, m)
  \/ EndCatchup(n)

FollowerStep(n) ==
  \/ \E b \in proposals : AcceptProposal(n, b)
  \/ \E b \in proposals : SendOutOfSyncNack(n, b)
  \/ IgnoreProposal(n)
  \/ ProcessBlockProposal(n)
  \/ FinishExecution(n)
  \/ \E e \in anns : CommitBlock(n, e)
  \/ ReannounceAck(n)
  \/ \E m \in Nodes, k \in 0..MaxHeight : DoCatchup(n, m, k)
  \/ \E r \in resets : CancelBlock(n, r)
  \/ ResetBlockProp(n)

EnvironmentStep(n) ==
  \/ \E c \in Nodes, h \in 1..MaxHeight : PromoteLeader(n, c, h)
  \/ Crash(n)
  \/ \E m \in Nodes, k \in 0..MaxHeight : Restart(n, m, k)
  \/ \E m \in Nodes, j, k \in 0..MaxHeight : RestoreOld(n, j, m, k)

Next == \E n \in Nodes : LeaderStep(n) \/ FollowerStep(n) \/ EnvironmentStep(n)

Spec == Init /\ [][Next]_vars

\* What the event loops, timers, gossip and retries of running nodes bring
\* about.  A block announcement is sent once and may be lost, so CommitBlock is
\* not fair; a proposal is rebroadcast and an ack reannounced until it is used.
EngineFairness ==
  \A n \in Nodes :
    /\ WF_vars(NewRound(n))
    /\ WF_vars(ProposeBlock(n))
    /\ WF_vars(FinishProposal(n))
    /\ WF_vars(\E a \in acks : AddVote(n, a))
    /\ WF_vars(\E x \in nacks : BeginCatchup(n, x))
    /\ WF_vars(ProbeCatchup(n))
    /\ WF_vars(\E m \in Nodes : ApplyCatchup(n, m))
    /\ WF_vars(EndCatchup(n))
    /\ WF_vars(\E b \in proposals : AcceptProposal(n, b))
    /\ WF_vars(\E b \in proposals : SendOutOfSyncNack(n, b))
    /\ WF_vars(IgnoreProposal(n) /\ ClocksInSync)
    /\ WF_vars(ProcessBlockProposal(n))
    /\ WF_vars(FinishExecution(n))
    /\ WF_vars(\E m \in Nodes, k \in 0..MaxHeight : DoCatchup(n, m, k))
    /\ WF_vars(ResetBlockProp(n))

\* The operator brings every node back.
RestartFairness ==
  \A n \in Nodes :
    WF_vars(\E m \in Nodes, k \in 0..MaxHeight : Restart(n, m, k))

FairSpec == Spec /\ EngineFairness /\ RestartFairness

\* A node that went down may stay down.
OfflineSpec == Spec /\ EngineFairness

-----------------------------------------------------------------------------
(* Properties                                                              *)

\* Every variable keeps its shape: no signal is taken from a channel that is
\* empty, only validators lead and propose, whatever the operators command, and
\* no other votes are counted or stored (ConsensusEngine, applyLeaderUpdates,
\* addVote).
TypeOK ==
  /\ node \in [Nodes -> NodeState]
  /\ proposals \subseteq Block
  /\ acks \subseteq Ack
  /\ nacks \subseteq Nack
  /\ anns \subseteq Entry
  /\ resets \subseteq Reset
  /\ used \in Used

\* Two nodes never commit different blocks at one height, whatever is lost,
\* repeated, reordered or forgotten in a crash (commit, processVotes,
\* commitBlock, processAndCommit, doCatchup).
Agreement ==
  \A m, n \in Nodes :
    \A h \in DOMAIN node[m].chain \cap DOMAIN node[n].chain :
      node[m].chain[h].blk = node[n].chain[h].blk

\* The CommitInfo stored with a block is a majority of votes that validators
\* cast for that very block, none counted twice or carried over from an
\* earlier proposal of the height (addVote, processVotes, resetState).
CertifiedCommits ==
  \A n \in Nodes : \A h \in DOMAIN node[n].chain :
    LET e == node[n].chain[h] IN
    /\ HasMajority(Cardinality(e.votes))
    /\ \A v \in e.votes :
         v = e.blk.by \/ [from |-> v, blk |-> e.blk, ack |-> TRUE] \in acks

\* Validator v proposed or acknowledged block b.
VotedFor(v, b) == v = b.by \/ [from |-> v, blk |-> b, ack |-> TRUE] \in acks

\* When two nodes commit different blocks at one height, some validator has
\* voted for both: no leader, replaced or not, commits on less than a majority
\* (hasMajority, addVote, processVotes, verifyVotes).
ForksTakeDoubleVotes ==
  \A m, n \in Nodes :
    \A h \in DOMAIN node[m].chain \cap DOMAIN node[n].chain :
      LET b == node[m].chain[h].blk
          c == node[n].chain[h].blk
      IN  b # c => \E v \in Validators : VotedFor(v, b) /\ VotedFor(v, c)

\* The block a node executes or waits on extends the node's last commit: every
\* path that commits or replays a block clears the proposal it overtakes
\* (nextState, rollbackState, doCatchup, resetBlockProp).
ProposalExtendsCommit ==
  \A n \in Nodes :
    LET s == node[n] IN
    Running(n) /\ s.prop # NoBlock =>
      s.prop.height = Height(s) + 1 /\ s.prop.prev = LastId(s)

One(p) == IF p THEN 1 ELSE 0

\* A leader drives exactly one round: one signal on newRound or
\* newBlockProposal, one proposal of its own, or one catch-up that will signal.
\* None, and it never proposes again; two, and it proposes over its own block,
\* which stops the node (newBlockRound, proposeBlock, processVotes,
\* catchUpFromOutOfSync).
OneRound ==
  \A n \in Nodes :
    LET s == node[n] IN
    Running(n) /\ Role(n, s) = "Leader" =>
      s.newRound + s.newProposal + One(s.prop # NoBlock /\ s.prop.by = n)
        + One(s.catchup # NoCatchup /\ s.catchup.stage = "sync") = 1

\* A block is never proposed at a height that was announced as committed: the
\* commit is on disk before the announcement leaves (processVotes, commit).
NoReproposal ==
  [][\A b \in proposals' \ proposals : \A e \in anns :
       e.blk.height < b.height]_vars

\* Every node reaches the last height, through crashes of the leader between
\* its proposal, its commit and its announcement, and of the others.
Progress == <>(\A n \in Nodes : Running(n) /\ Height(node[n]) = MaxHeight)

\* The out-of-sync catch-up of a leader always comes to an end, and the leader
\* is free to start another (catchUpFromOutOfSync, endOutOfSyncCatchup).
CatchupEnds ==
  \A n \in Nodes :
    node[n].catchup # NoCatchup ~> node[n].catchup = NoCatchup

\* The validators that run and hold a replace-leader command for candidate c
\* at their next height.
Supporters(c) ==
  {v \in Validators : Running(v) /\ node[v].leaderFile =
                        [cand |-> c, height |-> Height(node[v]) + 1]}

\* "If the leader goes offline, the network can elect the new leader using the
\* `kwild validators replace-leader` command": once the candidate and a majority have issued it,
\* the candidate leads, or the old leader is back (doCatchup,
\* applyLeaderUpdates).
OfflineLeaderReplaced ==
  \A c \in Validators \ {Genesis} :
    ~Running(Genesis) /\ c \in Supporters(c)
                      /\ HasMajority(Cardinality(Supporters(c)))
      ~> node[c].leader = c \/ Running(Genesis)
=============================================================================
