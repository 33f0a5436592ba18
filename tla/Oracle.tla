------------------------------- MODULE Oracle -------------------------------
(***************************************************************************)
(* From a log on an external chain to its callback inside the network.     *)
(* In every validator a listener walks over the confirmed blocks of the    *)
(* external chain and puts one event for each block that has logs into the *)
(* node's event store.  The leader turns the events of its own store into  *)
(* resolutions, the other validators vote for those they have observed as  *)
(* well, and a confirmed event becomes a data point of the ordered-sync    *)
(* topic.                                                                  *)
(*                                                                         *)
(* The event store is written over two connections: the consensus          *)
(* transaction deletes rows and holds their locks until it commits, the    *)
(* event writer inserts and updates rows under writerMtx.                  *)
(*                                                                         *)
(* One topic; a fixed leader; the next block is proposed when every node   *)
(* has committed the last.  Nonces and the mempool proper are in TxPool,   *)
(* votes on blocks in Consensus.                                           *)
(***************************************************************************)
EXTENDS Voting

CONSTANTS
  Leader,
  LogBlocks,   \* the heights of the external chain that have logs
  MaxTip,      \* bound: its last confirmed height
  StartHeights,\* the confirmed heights a node may find when its listener starts
  Chunk,       \* BlockSyncChunkSize
  FaultKinds,  \* what may go wrong
  MaxFaults    \* bound: how often something does in one behaviour

ASSUME OracleAssumption ==
  /\ Leader \in Nodes
  /\ LogBlocks \subseteq 1 .. MaxTip
  /\ StartHeights \in [Nodes -> SUBSET (0 .. MaxTip)] /\ MaxTip \in Nat /\ Chunk \in Nat \ {0}
  /\ FaultKinds \subseteq {"listener", "wipe", "expire", "leader crash", "validator crash"}

VARIABLES
  app,      \* the application before the current block
  next,     \* and after it
  blk,      \* the current block
  at,       \* how far each node is with it
  acks,     \* the nodes that have executed it
  events,   \* the committed rows of each event store
  sent,     \* those of them marked as broadcasted
  del,      \* rows deleted by the open consensus transaction
  ballot,   \* the ids that a node has just broadcast a vote for
  own,      \* vote transactions in the mempool of their sender
  txs,      \* vote transactions in the mempool of the leader
  lst,      \* the listener of each node
  kv,       \* its last seen height and last height with an event, stored
  faults,   \* the faults that have happened
  lost,     \* history: votes marked as broadcasted whose transaction is gone
  observed, \* history: the events each node has stored
  raced     \* history: rows inserted after their event was decided

chainVars == <<app, next, blk, acks, txs>>
storeVars == <<events, sent>>
listenVars == <<lst, kv>>
history == <<lost, observed, raced>>
vars == <<chainVars, at, storeVars, del, ballot, own, listenVars, faults, history>>

Event == [point : LogBlocks, prev : {0} \cup LogBlocks]
VoteTx == [voter : Nodes, ids : SUBSET Event]
Open == {"executed", "mark", "done"}   \* the consensus transaction is open
Listener == [pc : {"off", "next", "store", "insert", "lwe", "lh"},
             start : 0 .. MaxTip, goal : 0 .. MaxTip, to : 0 .. MaxTip,
             todo : SUBSET LogBlocks, prev : {0} \cup LogBlocks]

Off == [pc |-> "off", start |-> 0, goal |-> 0, to |-> 0, todo |-> {}, prev |-> 0]

Init ==
  /\ app = EmptyApp /\ next = EmptyApp
  /\ blk = [bodies |-> {}, votes |-> {}, expired |-> {}]
  /\ at = [n \in Nodes |-> "committed"]
  /\ acks = Nodes
  /\ events = [n \in Nodes |-> {}] /\ sent = [n \in Nodes |-> {}]
  /\ del = [n \in Nodes |-> {}] /\ ballot = [n \in Nodes |-> {}]
  /\ own = [n \in Nodes |-> {}] /\ txs = {}
  /\ lst = [n \in Nodes |-> Off]
  /\ kv = [n \in Nodes |-> [lh |-> 0, lwe |-> 0]]
  /\ faults = <<>> /\ lost = {} /\ raced = [n \in Nodes |-> {}]
  /\ observed = [n \in Nodes |-> {}]

\* What another connection of node n reads of the application.
Committed(n) == IF at[n] = "committed" THEN next ELSE app

Fault(kind) ==
  /\ kind \in FaultKinds
  /\ Len(faults) < MaxFaults
  /\ faults' = Append(faults, kind)

-----------------------------------------------------------------------------
(* The external chain and the listener.                                    *)

\* The event that the listener stores next.
Current(n) == [point |-> Min(lst[n].todo), prev |-> lst[n].prev]

\* KV.Set and MarkBroadcasted take writerMtx and release it; Store holds it
\* from the check to the end of the insert.
WriterFree(n) == lst[n].pc # "insert"

\* listen: from the stored height up to the confirmed height that the node's
\* provider reports.
Listen(n) ==
  /\ lst[n].pc = "off"
  /\ \E height \in StartHeights[n] :
       lst' = [lst EXCEPT ![n] = [Off EXCEPT !.pc = "next", !.start = kv[n].lh, !.goal = height]]
  /\ UNCHANGED <<chainVars, at, storeVars, del, ballot, own, kv, faults, history>>

CatchingUp(l) == l.start < l.goal

\* processEvents(from, to), until the first event; without logs there is only a
\* new height.
ProcessEvents(n, from, to) ==
  LET found == LogBlocks \cap (from .. to)
  IN /\ IF found = {}
        THEN /\ kv' = [kv EXCEPT ![n].lh = to]
             /\ lst' = [lst EXCEPT ![n].start = to]
        ELSE /\ lst' = [lst EXCEPT ![n].pc = "store", ![n].to = to,
                          ![n].todo = found, ![n].prev = kv[n].lwe]
             /\ UNCHANGED kv
     /\ UNCHANGED <<chainVars, at, storeVars, del, ballot, own, faults, history>>

\* A chunk of the catch-up begins with the last height that was seen.
CatchUp(n) ==
  LET l == lst[n]
  IN /\ l.pc = "next" /\ CatchingUp(l)
     /\ ProcessEvents(n, l.start, IF l.start + Chunk < l.goal THEN l.start + Chunk ELSE l.goal)

\* A new height is announced; the range begins after the last one.
NewHeight(n) ==
  LET l == lst[n]
  IN /\ l.pc = "next" /\ ~CatchingUp(l)
     /\ \E height \in l.start + 1 .. MaxTip : ProcessEvents(n, l.start + 1, height)

Stored(l) ==
  LET h == Min(l.todo)
  IN [l EXCEPT !.pc = IF l.todo = {h} THEN "lwe" ELSE "store",
               !.todo = @ \ {h}, !.prev = h]

\* Store, IsProcessed: reads what is committed, on its own connection.
StoreCheck(n) ==
  /\ lst[n].pc = "store"
  /\ lst' = [lst EXCEPT ![n] = IF Current(n) \in Committed(n).processed THEN Stored(@)
                               ELSE [@ EXCEPT !.pc = "insert"]]
  /\ UNCHANGED <<chainVars, at, storeVars, del, ballot, own, kv, faults, history>>

\* Store, insertEventIdempotent and commit: the insert waits for a transaction
\* that deletes the row, and finds no conflict once that has committed.
StoreInsert(n) ==
  LET decided == IF at[n] \in {"done", "committed"} THEN next.processed ELSE app.processed
  IN /\ lst[n].pc = "insert"
     /\ Current(n) \notin del[n]
     /\ events' = [events EXCEPT ![n] = @ \cup {Current(n)}]
     /\ raced' = [raced EXCEPT ![n] = @ \cup ({Current(n)} \cap decided)]
     /\ observed' = [observed EXCEPT ![n] = @ \cup {Current(n)}]
     /\ lst' = [lst EXCEPT ![n] = Stored(@)]
     /\ UNCHANGED <<chainVars, at, sent, del, ballot, own, kv, faults, lost>>

\* setLastHeightWithEvent
SetLastHeightWithEvent(n) ==
  /\ lst[n].pc = "lwe"
  /\ kv' = [kv EXCEPT ![n].lwe = lst[n].prev]
  /\ lst' = [lst EXCEPT ![n].pc = "lh"]
  /\ UNCHANGED <<chainVars, at, storeVars, del, ballot, own, faults, history>>

\* Mutant: the loop does not go on from the new height.
SetLastSeenHeightOnly(n) ==
  /\ lst[n].pc = "lh"
  /\ kv' = [kv EXCEPT ![n].lh = lst[n].to]
  /\ lst' = [lst EXCEPT ![n].pc = "next", ![n].to = 0, ![n].prev = 0]
  /\ UNCHANGED <<chainVars, at, storeVars, del, ballot, own, faults, history>>

\* setLastSeenHeight, and the loop in listen goes on from there.
SetLastSeenHeight(n) ==
  /\ lst[n].pc = "lh"
  /\ kv' = [kv EXCEPT ![n].lh = lst[n].to]
  /\ lst' = [lst EXCEPT ![n].pc = "next", ![n].start = lst[n].to, ![n].to = 0, ![n].prev = 0]
  /\ UNCHANGED <<chainVars, at, storeVars, del, ballot, own, faults, history>>

\* An RPC or database error ends listen, which is called again after a delay.
ListenerFails(n) ==
  /\ Fault("listener")
  /\ lst[n].pc # "off"
  /\ lst' = [lst EXCEPT ![n] = Off]
  /\ UNCHANGED <<chainVars, at, storeVars, del, ballot, own, kv, history>>

ListenerStep(n) ==
  \/ Listen(n) \/ CatchUp(n) \/ NewHeight(n) \/ StoreCheck(n) \/ StoreInsert(n)
  \/ SetLastHeightWithEvent(n) \/ SetLastSeenHeight(n)

-----------------------------------------------------------------------------
(* Blocks.                                                                 *)

\* The application after a block: the votes, the vote bodies of the leader,
\* and the end of the block.
Executed(a, b) ==
  LET voted == VoteIDs(a, b.votes)
  IN Finalize(IF b.bodies = {} THEN voted ELSE VoteBodies(voted, Leader, b.bodies), b.expired)

\* A node that is waiting for writerMtx cannot be told to give up.
Abortable(n) == WriterFree(n) \/ at[n] \notin {"executed", "mark"}

\* The next block, or another one for a height whose proposal was lost with
\* the leader.  prepareValidatorVoteBodyTx takes the events of the leader that
\* have no resolution; the votes come from its mempool.
Propose ==
  LET base == IF at[Leader] = "committed" THEN next ELSE app
  IN /\ \/ \A n \in Nodes : at[n] = "committed"
        \/ at[Leader] = "lost" /\ \A n \in Nodes : Abortable(n)
     /\ \E expired \in {{}} \cup {{e} : e \in DOMAIN base.res} :
          LET b == [bodies |-> events[Leader] \ DOMAIN base.res, votes |-> txs,
                    expired |-> expired]
          IN /\ IF expired = {} THEN UNCHANGED faults ELSE Fault("expire")
             /\ blk' = b
             /\ next' = Executed(base, b)
     /\ app' = base
     /\ at' = [n \in Nodes |-> "behind"]
     /\ acks' = {}
     /\ del' = [n \in Nodes |-> {}]
     /\ ballot' = [n \in Nodes |-> {}]
     /\ UNCHANGED <<storeVars, own, txs, listenVars, history>>

\* The transactions of the block delete the events that n has voted for in it.
VotedFor(n) ==
  IF n = Leader
  THEN IF VoteBodiesPass(app, blk.bodies) THEN blk.bodies ELSE {}
  ELSE UNION {VotesCounted(app, tx.ids) : tx \in {t \in blk.votes : t.voter = n}}

ExecuteTxs(n) ==
  /\ at[n] = "behind"
  /\ del' = [del EXCEPT ![n] = events[n] \cap VotedFor(n)]
  /\ at' = [at EXCEPT ![n] = "executed"]
  /\ UNCHANGED <<chainVars, storeVars, ballot, own, listenVars, faults, history>>

\* Mutant: the events of decided resolutions are kept.
DeleteNoEvents(n) == {}

\* Finalize: deleteEvents removes what the block decides from every store.
DeleteEvents(n) == events[n] \cap (next.processed \ app.processed)

\* The end of the execution: n acknowledges the block.
FinalizeBlock(n) ==
  /\ del' = [del EXCEPT ![n] = @ \cup DeleteEvents(n)]
  /\ ballot' = [ballot EXCEPT ![n] = {}]
  /\ at' = [at EXCEPT ![n] = "done"]
  /\ acks' = acks \cup {n}

\* A leader sends no vote ids.  It has called UpdateStats after its own vote
\* bodies; then it finalizes the block.
UpdateStats(n) ==
  /\ at[n] = "executed" /\ n = Leader
  /\ blk.bodies = {} \/ WriterFree(n)
  /\ FinalizeBlock(n)
  /\ UNCHANGED <<app, next, blk, txs, storeVars, own, listenVars, faults, history>>

\* GetUnbroadcastedEvents: observed, with a resolution, and not yet voted for.
Unbroadcasted(n) == (events[n] \ sent[n]) \cap DOMAIN app.res

\* Nothing to vote for, or the replay of a decided block, which does not vote.
NoVote(n) ==
  /\ at[n] = "executed" /\ n # Leader
  /\ Unbroadcasted(n) = {} \/ at[Leader] = "committed"
  /\ FinalizeBlock(n)
  /\ UNCHANGED <<app, next, blk, txs, storeVars, own, listenVars, faults, history>>

\* Mutant: events are marked although nothing is sent.
BroadcastVoteIDTxDrops(n) ==
  /\ at[n] = "executed" /\ n # Leader
  /\ Unbroadcasted(n) # {}
  /\ at' = [at EXCEPT ![n] = "mark"]
  /\ ballot' = [ballot EXCEPT ![n] = Unbroadcasted(n)]
  /\ UNCHANGED <<chainVars, storeVars, del, own, listenVars, faults, history>>

\* BroadcastVoteIDTx: into the mempool of the node; it is then announced.
BroadcastVoteIDTx(n) ==
  /\ at[n] = "executed" /\ n # Leader
  /\ Unbroadcasted(n) # {}
  /\ at' = [at EXCEPT ![n] = "mark"]
  /\ ballot' = [ballot EXCEPT ![n] = Unbroadcasted(n)]
  /\ own' = [own EXCEPT ![n] = @ \cup {[voter |-> n, ids |-> Unbroadcasted(n)]}]
  /\ UNCHANGED <<chainVars, storeVars, del, listenVars, faults, history>>

\* Mutant: the flag is not set, and the vote is sent again in the next block.
MarkBroadcastedNot(n) ==
  /\ at[n] = "mark"
  /\ WriterFree(n) /\ ballot[n] \cap del[n] = {}
  /\ FinalizeBlock(n)
  /\ UNCHANGED <<app, next, blk, txs, storeVars, own, listenVars, faults, history>>

\* MarkBroadcasted: an update of the event writer waits for the rows that the
\* consensus transaction has deleted.
MarkBroadcasted(n) ==
  /\ at[n] = "mark"
  /\ WriterFree(n) /\ ballot[n] \cap del[n] = {}
  /\ sent' = [sent EXCEPT ![n] = @ \cup (ballot[n] \cap events[n])]
  /\ FinalizeBlock(n)
  /\ UNCHANGED <<app, next, blk, txs, events, own, listenVars, faults, history>>

\* Commit of the consensus transaction; the mempool drops the transactions of
\* the block.  The leader waits for the acknowledgements, the others for it.
CommitBlock(n) ==
  /\ at[n] = "done"
  /\ IF n = Leader THEN acks = Nodes ELSE at[Leader] = "committed"
  /\ at' = [at EXCEPT ![n] = "committed"]
  /\ events' = [events EXCEPT ![n] = @ \ del[n]]
  /\ sent' = [sent EXCEPT ![n] = @ \ del[n]]
  /\ del' = [del EXCEPT ![n] = {}]
  /\ own' = [own EXCEPT ![n] = @ \ blk.votes]
  /\ txs' = IF n = Leader THEN txs \ blk.votes ELSE txs
  /\ UNCHANGED <<app, next, blk, acks, ballot, listenVars, faults, history>>

\* Transactions are announced, and announced again, until they are in a block.
Gossip(n) ==
  /\ \E tx \in own[n] \ (txs \cup blk.votes) : txs' = txs \cup {tx}
  /\ UNCHANGED <<app, next, blk, acks, at, storeVars, del, ballot, own, listenVars, faults, history>>

\* A reset or a block sync rechecks the mempool against accounts that already
\* count it (see TxPool): every transaction fails its nonce and is dropped, and
\* MarkRebroadcast clears the flags of the node's own votes.
WipeMempool(n) ==
  /\ Fault("wipe") /\ n # Leader
  /\ Abortable(n) /\ WriterFree(n)
  /\ at' = [at EXCEPT ![n] = IF @ \in Open THEN "behind" ELSE @]
  /\ del' = [del EXCEPT ![n] = {}]
  /\ ballot' = [ballot EXCEPT ![n] = {}]
  /\ sent' = [sent EXCEPT ![n] = @ \ UNION {tx.ids : tx \in own[n]}]
  /\ own' = [own EXCEPT ![n] = {}]
  /\ UNCHANGED <<chainVars, events, listenVars, history>>

\* Votes that are marked as broadcasted and in no mempool and no open block; a
\* block that was lost with the leader is not one.
Pending(n) ==
  own[n] \cup txs
    \cup (IF at[n] = "committed" \/ at[Leader] = "lost" THEN {} ELSE blk.votes)
Unsent(n) == {e \in sent[n] \cap DOMAIN Committed(n).res :
                /\ n \notin Committed(n).res[e]
                /\ \A tx \in Pending(n) : tx.voter = n => e \notin tx.ids}

\* The mempool, the listener and the open transaction are gone.  A block that
\* the leader has executed but not committed is not proposed again.
Crash(n) ==
  /\ Fault(IF n = Leader THEN "leader crash" ELSE "validator crash")
  /\ lst' = [lst EXCEPT ![n] = Off]
  /\ at' = [at EXCEPT ![n] = IF @ = "committed" THEN @
                             ELSE IF n = Leader THEN "lost" ELSE "behind"]
  /\ del' = [del EXCEPT ![n] = {}]
  /\ ballot' = [ballot EXCEPT ![n] = {}]
  /\ own' = [own EXCEPT ![n] = {}]
  /\ txs' = IF n = Leader THEN {} ELSE txs
  /\ UNCHANGED <<app, next, blk, acks, storeVars, kv, observed, raced>>
  /\ lost' = lost \cup UNION {Unsent(m)' : m \in Nodes}

BlockStep(n) ==
  \/ ExecuteTxs(n) \/ UpdateStats(n) \/ NoVote(n) \/ BroadcastVoteIDTx(n)
  \/ MarkBroadcasted(n) \/ CommitBlock(n)
  \/ n = Leader /\ Propose

Next ==
  \E n \in Nodes : \/ ListenerStep(n) \/ BlockStep(n) \/ Gossip(n)
                   \/ ListenerFails(n) \/ WipeMempool(n) \/ Crash(n)

Spec == Init /\ [][Next]_vars

(***************************************************************************)
(* Listeners run, and are called again after an error, up to the last      *)
(* height; the leader's timers propose blocks, handlers run, and           *)
(* transactions are announced periodically.                                *)
(***************************************************************************)
Fairness ==
  /\ \A n \in Nodes : WF_listenVars(ListenerStep(n)) /\ WF_at(BlockStep(n))
  /\ \A n \in Nodes \ {Leader} : WF_txs(Gossip(n))

FairSpec == Spec /\ Fairness

-----------------------------------------------------------------------------
(* Properties.                                                             *)

\* Every variable keeps its shape; in particular a resolution is never open and
\* processed at once, a point has one row, and marks and deletions are of rows
\* that exist (insert_resolution, pending_data, MarkBroadcasted).
TypeOK ==
  /\ \A a \in {app, next} :
       /\ DOMAIN a.res \subseteq Event /\ \A e \in DOMAIN a.res : a.res[e] \subseteq Nodes
       /\ a.processed \subseteq Event \ DOMAIN a.res
       /\ a.topic.pending \subseteq Event
       /\ \A p, q \in a.topic.pending : p.point = q.point => p = q
  /\ blk.bodies \subseteq Event /\ blk.votes \subseteq VoteTx /\ blk.expired \subseteq Event
  /\ at \in [Nodes -> Open \cup {"behind", "lost", "committed"}]
  /\ \A n \in Nodes : /\ sent[n] \subseteq events[n] /\ del[n] \subseteq events[n]
                      /\ events[n] \subseteq Event
                      /\ own[n] \subseteq VoteTx /\ ballot[n] \subseteq Event
                      /\ lst[n] \in Listener /\ kv[n] \in [lh : 0 .. MaxTip, lwe : 0 .. MaxTip]
                      /\ raced[n] \subseteq observed[n] /\ observed[n] \subseteq Event
  /\ txs \subseteq VoteTx /\ lost \subseteq Event /\ faults \in Seq(FaultKinds)

\* The topic's callback sees the blocks with logs in order, without a gap and
\* each of them once, however ranges overlap and listeners start over: it has
\* seen exactly the logs up to its last processed point.
GivenInOrder ==
  LET given == next.topic.given
  IN /\ Range(given) = {h \in LogBlocks : h <= next.topic.last}
     /\ \A i, j \in DOMAIN given : i < j => given[i] < given[j]

\* A block becomes a data point of the topic only if validators with half of
\* the power have observed it themselves.
PointsWereObserved ==
  \A p \in next.topic.pending :
    2 * SumFunctionOnSet(Power, {n \in Nodes : p \in observed[n]}) >= TotalPower

\* An event that was decided does not stay in the event store, where the leader
\* would propose it again and again: the one exception is an insert that lands
\* between the deletion and a check of IsProcessed that came before it.
NoDecidedEventKept ==
  \A n \in Nodes : at[n] \in {"committed", "behind"} =>
    events[n] \cap Committed(n).processed \subseteq raced[n]

\* A vote that is marked as broadcasted is counted or still on its way, unless
\* a crash took the mempool that had it.
NoVoteForgotten == \A n \in Nodes : Unsent(n) \subseteq lost

\* The node waits for a lock that only its own waiting can release.
Hung(n) ==
  \/ at[n] = "mark" /\ ballot[n] \cap del[n] # {}
  \/ /\ \/ at[n] = "mark"
        \/ at[n] = "executed" /\ n = Leader /\ blk.bodies # {}
     /\ lst[n].pc = "insert" /\ Current(n) \in del[n]

\* The two connections to the event store do not wait for each other as long as
\* no listener starts over, no node crashes and no mempool is wiped.
NoHangWithoutFaults ==
  Range(faults) \subseteq {"expire"} => \A n \in Nodes : ~Hung(n)

\* Every block with logs is given to the topic in the end, whatever listeners
\* fail and nodes restart, except when a resolution expired, a crash took the
\* only copy of a vote, a decided event was inserted again in the leader's
\* store, or a node hangs.
Excused == \/ "expire" \in Range(faults) \/ lost # {} \/ raced[Leader] # {}
           \/ \E n \in Nodes : Hung(n)
AllGiven == <>(Range(next.topic.given) = LogBlocks \/ Excused)
=============================================================================
