------------------------------- MODULE Engine -------------------------------
(***************************************************************************)
(* The SQL engine of one validator, with the erc20 bridge as an extension, *)
(* while blocks are executed, committed, rolled back and replayed.  What   *)
(* the engine decides, it decides from memory: the interpreter's catalogue *)
(* and the extension's cache of its instance.  The rows are the truth:     *)
(* a node that starts builds its memory from them.  If the two come apart, *)
(* a node that kept running and one that restarted execute the same block  *)
(* to different ends.                                                      *)
(*                                                                         *)
(* A statement runs under the interpreter's write lock, and when it fails  *)
(* interpreter and cache are put back to the copy taken before it, so a    *)
(* failure leaves no trace but outside of them: the registration of the    *)
(* state poller and the signers.  A read-only call runs under the read     *)
(* lock and puts its copy back too when it fails; the steps that change    *)
(* the cache without the lock are the ends of the state-poll resolution    *)
(* and of the end-block hook, so that is where a reader can bring an old   *)
(* cache back.                                                             *)
(*                                                                         *)
(* Once memory and rows have come apart (drift), the model only restarts   *)
(* the node.                                                               *)
(***************************************************************************)
EXTENDS Catalogue, Bridge

CONSTANTS Self,            \* the validator whose node this is
          MaxStatements,   \* statements that take effect
          MaxDeposits,     \* deposits on the EVM chain
          MaxRollbacks,    \* executed blocks that are rolled back
          MaxRestarts,     \* restarts of validators, unless memory had drifted
          MaxRefused,      \* votes refused for another reason than the nonce
          MaxTimeouts      \* votes a signer stops waiting for

ASSUME EngineAssumption ==
    /\ Self \in Validators
    /\ {MaxStatements, MaxDeposits, MaxRollbacks, MaxRestarts} \subseteq Nat
    /\ {MaxRefused, MaxTimeouts} \subseteq Nat

VARIABLES
    db,        \* committed rows: of the catalogue and of the bridge
    tx,        \* the rows as the consensus transaction sees them
    mem,       \* the interpreter's catalogue and the bridge's cached instance
    phase,     \* where the execution of the current block is
    reader,    \* the copy a read-only call holds, if there is one
    poller,    \* whether the state poller has the instance registered
    polled,    \* whether the result of the poll is a decided resolution
    drift,     \* how memory and rows came apart since the last start
    signers,   \* validators whose signer service runs
    voted,     \* votedEpochs of each signer
    local,     \* localNonce of each signer, 0 before its first vote
    waiting,   \* the vote transaction whose commit a signer waits for
    nonce,     \* committed nonce of each validator's account
    pool,      \* vote transactions in the mempools
    ran,       \* vote transactions executed in this block
    count      \* how much of each bound is used up

voting == <<signers, voted, local, waiting, nonce, pool, ran>>
vars == <<db, tx, mem, phase, reader, poller, polled, drift, voting, count>>

Bounds == {"statements", "rollbacks", "restarts", "refused", "timeouts"}
NoCopy == [none |-> TRUE]
Phases == {"exec", "resolve", "sync", "orphan", "hook", "done"}
Votes == [by : Validators, epoch : 1..MaxStatements + 1, nonce : Nat]
NoVote == [none |-> TRUE]

Load(rows) == [cat |-> LoadCatalogue(rows.cat), info |-> LoadInfo(rows.br)]

\* Memory is what a restart would make of the rows, but for one thing: a user
\* that lost the last role keeps an empty list in memory and has none after a
\* restart.
Agrees(m, rows) ==
    [m EXCEPT !.cat.users = [u \in {x \in DOMAIN @ : @[x] # {}} |-> @[u]]]
        = Load(rows)

FirstState == [cat |-> FirstRows, br |-> NoRows]

Init ==
    /\ db = FirstState /\ tx = db /\ mem = Load(db)
    /\ phase = "exec" /\ reader = NoCopy
    /\ poller = FALSE /\ polled = FALSE
    /\ drift = {}
    /\ signers = {}
    /\ voted = [v \in Validators |-> {}]
    /\ local = [v \in Validators |-> 0]
    /\ waiting = [v \in Validators |-> NoVote]
    /\ nonce = [v \in Validators |-> 0]
    /\ pool = {} /\ ran = {}
    /\ count = [b \in Bounds |-> 0]

\* The write lock is free for a transaction of the block.
CanWrite == drift = {} /\ reader = NoCopy

Used(b) == count' = [count EXCEPT ![b] = @ + 1]

\* The signer services of the validators in V end; a new one knows nothing of
\* what the old one did.
Forget(V) ==
    /\ voted' = [v \in Validators |-> IF v \in V THEN {} ELSE voted[v]]
    /\ local' = [v \in Validators |-> IF v \in V THEN 0 ELSE local[v]]
    /\ waiting' = [v \in Validators |-> IF v \in V THEN NoVote ELSE waiting[v]]

-----------------------------------------------------------------------------
(* statements: transactions of the block *)

CanExecute == CanWrite /\ phase = "exec" /\ count["statements"] < MaxStatements

\* A statement of the catalogue that succeeds.  One that is refused, or whose
\* transaction fails later, changes nothing.
Executes(r) ==
    /\ CanExecute
    /\ r.ok
    /\ mem' = [mem EXCEPT !.cat = r.cat]
    /\ tx' = [tx EXCEPT !.cat = r.rows]
    /\ Used("statements")
    /\ UNCHANGED <<db, phase, reader, poller, polled, drift, voting>>

RoleStatement ==
    \E caller \in Users, role \in Roles :
        \/ Executes(CreateRole(mem.cat, tx.cat, caller, role))
        \/ Executes(DeleteRole(mem.cat, tx.cat, caller, role))

PrivilegeStatement ==
    \E caller \in Users, role \in Roles, ns \in Scopes, if \in BOOLEAN :
        \/ Executes(GrantPrivileges(mem.cat, tx.cat, caller, role, ns, if))
        \/ Executes(RevokePrivileges(mem.cat, tx.cat, caller, role, ns, if))

MemberStatement ==
    \E caller, u \in Users, role \in Roles, if \in BOOLEAN :
        \/ Executes(AssignRole(mem.cat, tx.cat, caller, role, u, if))
        \/ Executes(UnassignRole(mem.cat, tx.cat, caller, role, u, if))

OwnerStatement ==
    \E caller, u \in Users :
        Executes(TransferOwnership(mem.cat, tx.cat, caller, u))

NamespaceStatement ==
    \E caller \in Users, ns \in Spaces :
        \/ Executes(CreateNamespace(mem.cat, tx.cat, caller, ns))
        \/ Executes(DropNamespace(mem.cat, tx.cat, caller, ns))

\* USE erc20: the namespace is registered, then OnUse calls prepare.  fails: the
\* transaction fails after that.
Use(caller, ns, fails) ==
    LET r == Prepare(mem.info, tx.br, poller)
    IN  /\ CanExecute
        /\ IsOwner(mem.cat, caller)
        /\ ns \notin DOMAIN mem.cat.spaces
        /\ poller' = PollerAfterPrepare(mem.info, poller)
        /\ IF r.ok /\ ~fails
           THEN /\ mem' = [cat |-> RegisterNamespace(mem.cat, ns, "extension"),
                           info |-> r.info]
                /\ tx' = [cat |-> CreateNamespaceRow(tx.cat, ns, "extension"),
                          br |-> r.br]
           ELSE UNCHANGED <<mem, tx>>
        /\ Used("statements")
        /\ UNCHANGED <<db, phase, reader, polled, drift, voting>>

\* UNUSE: OnUnuse calls disable, which stops the signer for good, on every
\* validator, since all execute the block.
Unuse(caller, ns, fails) ==
    LET r == Disable(mem.info, tx.br)
    IN  /\ CanExecute
        /\ IsOwner(mem.cat, caller)
        /\ ns \in DOMAIN mem.cat.spaces
        /\ mem.cat.spaces[ns] = "extension"
        /\ r.ok
        /\ poller' = PollerAfterDisable(mem.info, poller)
        /\ IF mem.info.active
           THEN signers' = {} /\ Forget(Validators)
           ELSE UNCHANGED <<signers, voted, local, waiting>>
        /\ IF fails
           THEN UNCHANGED <<mem, tx>>
           ELSE /\ mem' = [cat |-> UnregisterNamespace(mem.cat, ns), info |-> r.info]
                /\ tx' = [cat |-> DropNamespaceRow(tx.cat, ns), br |-> r.br]
        /\ Used("statements")
        /\ UNCHANGED <<db, phase, reader, polled, drift, nonce, pool, ran>>

UseStatement ==
    \E caller \in Users, ns \in Spaces, fails \in BOOLEAN :
        Use(caller, ns, fails) \/ Unuse(caller, ns, fails)

\* A method of the bridge that succeeds
Calls(r) ==
    /\ CanExecute
    /\ r.ok
    /\ mem' = [mem EXCEPT !.info = r.info]
    /\ tx' = [tx EXCEPT !.br = r.br]
    /\ Used("statements")
    /\ UNCHANGED <<db, phase, reader, poller, polled, drift, voting>>

BridgeCall ==
    \E h, to \in Holders :
        \/ h # to /\ Calls(Transfer(mem.info, tx.br, h, to))
        \/ Calls(LockTokens(mem.info, tx.br, h))
        \/ Calls(Unlock(mem.info, tx.br, h))
        \/ Calls(IssueTokens(mem.info, tx.br))
        \/ Calls(LockAndIssueTokens(mem.info, tx.br, h))

-----------------------------------------------------------------------------
(* votes for epochs: the signer services, and their transactions *)

\* The transactions of a validator that a block has still to take, and the nonce
\* that the mempool asks of the next one (applyTransaction): the account's, with
\* what is pending, plus one.
PendingOf(v) == {t \in pool : t.by = v}
Expected(v) == nonce[v] + Cardinality(PendingOf(v)) + 1

\* resyncNonceFromChain, and the first value of localNonce: the nonce of the
\* account as it is committed.
ResyncedNonce(v) == nonce[v]

\* createVoteTransaction: the nonce of the next vote; localNonce is one more
\* after that, whatever comes of the transaction.
NextNonce(v) == IF local[v] = 0 THEN ResyncedNonce(v) ELSE local[v]

\* pollAndSign finds an ended, unconfirmed epoch in the committed rows that its
\* signer does not remember a vote for.
Finalized(v) == {k \in DOMAIN db.br.epochs \ voted[v] :
                    db.br.epochs[k].ended /\ ~db.br.epochs[k].confirmed}
CanPoll(v) == v \in signers /\ waiting[v] = NoVote

\* The rows have the vote: it is remembered.
HasVoted(v) ==
    /\ CanPoll(v)
    /\ \E k \in Finalized(v) :
           /\ v \in db.br.epochs[k].votes
           /\ voted' = [voted EXCEPT ![v] = @ \union {k}]
    /\ UNCHANGED <<db, tx, mem, phase, reader, poller, polled, drift, signers,
                   local, waiting, nonce, pool, ran, count>>

CanVote(v, k) == CanPoll(v) /\ k \in Finalized(v) /\ v \notin db.br.epochs[k].votes

\* signAndVote with a transaction the mempool admits: BroadcastTx waits for its
\* commit.  One with another nonce is refused, and localNonce is set again.
SignAndVote(v) ==
    /\ \E k \in DOMAIN db.br.epochs :
           LET vote == [by |-> v, epoch |-> k, nonce |-> NextNonce(v)]
               admitted == NextNonce(v) = Expected(v)
           IN  /\ CanVote(v, k)
               /\ local' = [local EXCEPT ![v] = IF admitted THEN NextNonce(v) + 1
                                                ELSE ResyncedNonce(v)]
               /\ waiting' = IF admitted THEN [waiting EXCEPT ![v] = vote] ELSE waiting
               /\ pool' = IF admitted THEN pool \union {vote} ELSE pool
    /\ UNCHANGED <<db, tx, mem, phase, reader, poller, polled, drift, signers,
                   voted, nonce, ran, count>>

\* Mutant of VoteRefused: the epoch is marked although the broadcast failed.
RefusalRemembered(v) ==
    /\ count["refused"] < MaxRefused
    /\ \E k \in DOMAIN db.br.epochs :
           CanVote(v, k) /\ voted' = [voted EXCEPT ![v] = @ \union {k}]
    /\ local' = [local EXCEPT ![v] = NextNonce(v) + 1]
    /\ Used("refused")
    /\ UNCHANGED <<db, tx, mem, phase, reader, poller, polled, drift, signers,
                   waiting, nonce, pool, ran>>

\* The mempool does not take the transaction at all (it is full): no resync.
VoteRefused(v) ==
    /\ count["refused"] < MaxRefused
    /\ \E k \in DOMAIN db.br.epochs : CanVote(v, k)
    /\ local' = [local EXCEPT ![v] = NextNonce(v) + 1]
    /\ Used("refused")
    /\ UNCHANGED <<db, tx, mem, phase, reader, poller, polled, drift, signers,
                   voted, waiting, nonce, pool, ran>>

\* BroadcastTx returns: the transaction is in a committed block, and the vote is
\* remembered whatever its result was ...
VoteCommitted(v) ==
    /\ waiting[v] # NoVote /\ waiting[v] \notin pool
    /\ voted' = [voted EXCEPT ![v] = @ \union {waiting[v].epoch}]
    /\ waiting' = [waiting EXCEPT ![v] = NoVote]
    /\ UNCHANGED <<db, tx, mem, phase, reader, poller, polled, drift, signers,
                   local, nonce, pool, ran, count>>

\* ... or ErrTxTimeout: the next poll tries again.
VoteTimesOut(v) ==
    /\ waiting[v] # NoVote
    /\ count["timeouts"] < MaxTimeouts
    /\ waiting' = [waiting EXCEPT ![v] = NoVote]
    /\ Used("timeouts")
    /\ UNCHANGED <<db, tx, mem, phase, reader, poller, polled, drift, signers,
                   voted, local, nonce, pool, ran>>

\* vote_epoch, in a block: the transactions of an account in the order of nonces
ExecuteVote(v) ==
    \E t \in PendingOf(v) \ ran :
        LET r == VoteEpoch(mem.info, tx.br, t.epoch, v)
        IN  /\ CanWrite /\ phase = "exec"
            /\ \A x \in PendingOf(v) \ ran : t.nonce <= x.nonce
            /\ ran' = ran \union {t}
            /\ tx' = IF r.ok THEN [tx EXCEPT !.br = r.br] ELSE tx
            /\ UNCHANGED <<db, mem, phase, reader, poller, polled, drift,
                           signers, voted, local, waiting, nonce, pool, count>>

\* What the mempools may hold after the node of v stopped: its votes, or those
\* before one that no peer had.
AfterStop(v) ==
    {pool} \union {pool \ {x \in PendingOf(v) \ ran : x.nonce >= t.nonce} :
                      t \in PendingOf(v) \ ran}

\* Another validator restarts: OnStart starts its signer for an instance in use.
RestartValidator(v) ==
    /\ v # Self
    /\ count["restarts"] < MaxRestarts
    /\ signers' = IF Usable(LoadInfo(db.br)) THEN signers \union {v}
                                             ELSE signers \ {v}
    /\ Forget({v})
    /\ pool' \in AfterStop(v)
    /\ Used("restarts")
    /\ UNCHANGED <<db, tx, mem, phase, reader, poller, polled, drift, nonce, ran>>

-----------------------------------------------------------------------------
(* resolutions, at the end of the block *)

PollState ==
    /\ poller /\ ~polled
    /\ polled' = TRUE
    /\ UNCHANGED <<db, tx, mem, phase, reader, poller, drift, voting, count>>

ResolveDeposit ==
    /\ CanWrite /\ phase \in {"exec", "resolve"}
    /\ tx.br.synced /\ tx.br.deposited < MaxDeposits
    /\ \E h \in Holders : tx' = [tx EXCEPT !.br = Deposit(@, h)]
    /\ phase' = "resolve"
    /\ UNCHANGED <<db, mem, reader, poller, polled, drift, voting, count>>

\* The state-poll resolution up to setRewardSynced.  It is marked processed
\* whatever comes of it.
SyncRows ==
    /\ CanWrite /\ phase \in {"exec", "resolve"}
    /\ polled /\ ~tx.br.processed
    /\ IF mem.info.exists /\ ~mem.info.synced
       THEN /\ tx' = [tx EXCEPT !.br.processed = TRUE, !.br.synced = TRUE]
            /\ phase' = "sync"
       ELSE /\ tx' = [tx EXCEPT !.br.processed = TRUE]
            /\ phase' = "resolve"
    /\ UNCHANGED <<db, mem, reader, poller, polled, drift, voting, count>>

\* The rest of it.  An error of UnregisterPoll undoes the rows, not the memory.
\* Where a reader put its copy back in between ("orphan"), the record that is
\* written to is no longer the one in the map.
SyncMemory ==
    /\ phase \in {"sync", "orphan"}
    /\ mem' = IF phase = "orphan" THEN mem
              ELSE [mem EXCEPT !.info.synced = TRUE, !.info.network = 0]
    /\ poller' = FALSE
    /\ tx' = IF poller THEN tx ELSE [tx EXCEPT !.br.synced = FALSE]
    /\ drift' = drift \union (IF poller THEN {} ELSE {"sync"})
                      \union (IF poller /\ phase = "orphan" THEN {"race"} ELSE {})
    /\ phase' = "resolve"
    /\ UNCHANGED <<db, reader, polled, voting, count>>

\* The end-block hook up to createEpoch, if the period of the epoch has elapsed
\* and the epoch can be closed ...
EndBlockDue ==
    /\ CanWrite /\ phase \in {"exec", "resolve"}
    /\ Due(mem.info, tx.br)
    /\ tx' = [tx EXCEPT !.br = EndEpoch(mem.info, @)]
    /\ phase' = "hook"
    /\ UNCHANGED <<db, mem, reader, poller, polled, drift, voting, count>>

\* ... and the rest of it: the new epoch becomes the current one in the cache.
HookMemory ==
    /\ phase = "hook"
    /\ mem' = [mem EXCEPT !.info.epoch = Len(tx.br.epochs)]
    /\ phase' = "done"
    /\ UNCHANGED <<db, tx, reader, poller, polled, drift, voting, count>>

\* The period has not elapsed, or the hook finds nothing to close.
EndBlock ==
    /\ phase \in {"exec", "resolve"}
    /\ phase' = "done"
    /\ UNCHANGED <<db, tx, mem, reader, poller, polled, drift, voting, count>>

Commit ==
    /\ phase = "done"
    /\ db' = tx
    /\ nonce' = [v \in Validators |-> nonce[v] + Cardinality(PendingOf(v) \cap ran)]
    /\ pool' = pool \ ran
    /\ ran' = {}
    /\ phase' = "exec"
    /\ UNCHANGED <<tx, mem, reader, poller, polled, drift, signers, voted, local,
                   waiting, count>>

\* BlockProcessor.Rollback: accounts and validators are put back, the engine's
\* memory is not.
Rollback ==
    /\ drift = {} /\ phase \in {"exec", "resolve", "done"}
    /\ tx # db
    /\ count["rollbacks"] < MaxRollbacks
    /\ tx' = db
    /\ ran' = {}
    /\ phase' = "exec"
    /\ drift' = IF Agrees(mem, db) THEN {} ELSE {"rollback"}
    /\ Used("rollbacks")
    /\ UNCHANGED <<db, mem, reader, poller, polled, signers, voted, local,
                   waiting, nonce, pool>>

\* The node stops and starts: NewInterpreter, newAccessController and OnStart.
Restart ==
    LET loaded == Load(db)
    IN  /\ \/ drift # {} /\ UNCHANGED count
           \/ drift = {} /\ count["restarts"] < MaxRestarts /\ Used("restarts")
        /\ tx' = db
        /\ mem' = loaded
        /\ phase' = "exec" /\ reader' = NoCopy /\ drift' = {} /\ ran' = {}
        /\ poller' = PollerOf(loaded.info)
        /\ signers' = IF Usable(loaded.info) THEN signers \union {Self}
                                             ELSE signers \ {Self}
        /\ Forget({Self})
        /\ pool' \in AfterStop(Self)
        /\ UNCHANGED <<db, polled, nonce>>

-----------------------------------------------------------------------------
(* a read-only call that fails, beside the steps that hold no lock *)

ReadBegins ==
    /\ reader = NoCopy /\ drift = {}
    /\ phase \in {"sync", "orphan", "hook"}
    /\ reader' = mem
    /\ UNCHANGED <<db, tx, mem, phase, poller, polled, drift, voting, count>>

ReadFails ==
    /\ reader # NoCopy
    /\ mem' = reader
    /\ drift' = drift \union (IF mem = reader THEN {} ELSE {"race"})
    /\ phase' = IF phase = "sync" THEN "orphan" ELSE phase
    /\ reader' = NoCopy
    /\ UNCHANGED <<db, tx, poller, polled, voting, count>>

Next ==
    \/ RoleStatement \/ PrivilegeStatement \/ MemberStatement
    \/ OwnerStatement \/ NamespaceStatement
    \/ UseStatement \/ BridgeCall
    \/ \E v \in Validators :
           \/ HasVoted(v) \/ SignAndVote(v) \/ VoteRefused(v)
           \/ VoteCommitted(v) \/ VoteTimesOut(v)
           \/ ExecuteVote(v) \/ RestartValidator(v)
    \/ PollState \/ ResolveDeposit \/ SyncRows \/ SyncMemory
    \/ EndBlockDue \/ HookMemory \/ EndBlock \/ Commit \/ Rollback \/ Restart
    \/ ReadBegins \/ ReadFails

\* Blocks keep being executed and committed, at times that keep passing; a
\* signer polls every 30 seconds and learns of a committed transaction; a vote
\* in the mempool gets into some block.
Fairness ==
    /\ WF_vars(SyncMemory \/ HookMemory \/ EndBlock \/ Commit)
    /\ WF_vars(ReadFails) /\ SF_vars(EndBlockDue)
    /\ \A v \in Validators :
           /\ WF_vars(HasVoted(v) \/ SignAndVote(v) \/ VoteCommitted(v))
           /\ SF_vars(ExecuteVote(v))

Spec == Init /\ [][Next]_vars /\ Fairness

-----------------------------------------------------------------------------
(* Properties *)

RowsOK(rows) ==
    /\ DOMAIN rows.cat.spaces \subseteq Spaces
    /\ rows.cat.roles \subseteq Roles
    /\ DOMAIN rows.cat.privs \subseteq rows.cat.roles \X Scopes
    /\ rows.cat.users \subseteq Users \X (rows.cat.roles \union {OwnerRole})
    /\ rows.br.balance \in [Holders -> Nat]
    /\ rows.br.network \in Nat

\* Rows and memory stay well formed: rows of privileges and members name
\* existing roles, as the cascade of DROP ROLE has it; the cached balance of the
\* network does not go below zero; a vote in a block is one in the mempool.
TypeOK ==
    /\ RowsOK(db) /\ RowsOK(tx)
    /\ DOMAIN mem.cat.spaces \subseteq Spaces
    /\ \A role \in DOMAIN mem.cat.perms : mem.cat.perms[role] \in Perms
    /\ mem.info.network \in Nat
    /\ phase \in Phases
    /\ reader # NoCopy => reader.cat.spaces = mem.cat.spaces
    /\ poller \in BOOLEAN /\ polled \in BOOLEAN
    /\ drift \subseteq {"sync", "race", "rollback"}
    /\ signers \subseteq Validators
    /\ local \in [Validators -> Nat] /\ nonce \in [Validators -> Nat]
    /\ waiting \in [Validators -> Votes \union {NoVote}]
    /\ pool \subseteq Votes /\ ran \subseteq pool
    /\ count \in [Bounds -> Nat]

Quiet == drift = {} /\ phase \in {"exec", "resolve", "done"}

\* REVOKE role FROM user: decided alike by both catalogues
RevokesAlike(cat, loaded, rows, u, if) ==
    \A caller \in Users, role \in Roles :
        UnassignRole(cat, rows, caller, role, u, if).ok
            = UnassignRole(loaded, rows, caller, role, u, if).ok

\* Every statement of the catalogue is, but for REVOKE ... IF GRANTED of a user
\* that has no roles: UnassignRole returns without error on a node that kept the
\* user's empty list, and finds no such user on one that restarted.
DecidesAlike(cat, loaded, rows) ==
    /\ \A caller \in Users :
           /\ \A role \in Roles :
                  /\ CreateRole(cat, rows, caller, role).ok
                         = CreateRole(loaded, rows, caller, role).ok
                  /\ DeleteRole(cat, rows, caller, role).ok
                         = DeleteRole(loaded, rows, caller, role).ok
                  /\ \A ns \in Scopes, if \in BOOLEAN :
                         /\ GrantPrivileges(cat, rows, caller, role, ns, if).ok
                                = GrantPrivileges(loaded, rows, caller, role, ns, if).ok
                         /\ RevokePrivileges(cat, rows, caller, role, ns, if).ok
                                = RevokePrivileges(loaded, rows, caller, role, ns, if).ok
                  /\ \A u \in Users, if \in BOOLEAN :
                         AssignRole(cat, rows, caller, role, u, if).ok
                             = AssignRole(loaded, rows, caller, role, u, if).ok
           /\ \A u \in Users :
                  TransferOwnership(cat, rows, caller, u).ok
                      = TransferOwnership(loaded, rows, caller, u).ok
           /\ \A ns \in Spaces :
                  /\ CreateNamespace(cat, rows, caller, ns).ok
                         = CreateNamespace(loaded, rows, caller, ns).ok
                  /\ DropNamespace(cat, rows, caller, ns).ok
                         = DropNamespace(loaded, rows, caller, ns).ok
    /\ \A u \in Users :
           /\ RevokesAlike(cat, loaded, rows, u, FALSE)
           /\ RolesOf(cat, u) # {} => RevokesAlike(cat, loaded, rows, u, TRUE)

\* A node that restarts after any prefix of the statements, resolutions and
\* hooks of a block decides the next statement as one that kept running, with
\* the one exception of DecidesAlike: privileges with their denials, namespaces,
\* the instance's flags, balance and epoch in memory are the ones a reload of
\* the rows gives, and so are the roles of every user that has any.
LiveMatchesReload ==
    Quiet => /\ Agrees(mem, tx)
             /\ DecidesAlike(mem.cat, LoadCatalogue(tx.cat), tx.cat)

Total(br) ==
    br.deposited = SumFunction(br.balance)
                     + br.network
                     + SumFunction([k \in DOMAIN br.epochs |-> br.epochs[k].paid])

\* No token appears or vanishes: what was deposited is on balances, with the
\* network, or among the rewards of an epoch.
TokensConserved == Total(db.br) /\ Total(tx.br)

InTurn(br) ==
    /\ br.exists => Open(br) = {Len(br.epochs)}
    /\ \A k \in DOMAIN br.epochs :
           LET e == br.epochs[k]
           IN  /\ e.ended => e.root = e.paid
               /\ e.confirmed => e.ended /\ PowerOf(e.votes) >= Threshold
               /\ e.ended /\ ~e.confirmed => k = Len(br.epochs) - 1

\* One epoch is open, the last; at most one waits for confirmation, and none is
\* confirmed without two thirds of the power.  The root of a closed epoch covers
\* all of its rewards: none was added after it was computed.
EpochsInTurn == InTurn(tx.br)

Running == drift = {} /\ signers = Validators /\ db.br.active
Withdrawn(k) == k \in DOMAIN db.br.epochs /\ db.br.epochs[k].paid > 0
Ended(k) == k \in DOMAIN db.br.epochs /\ db.br.epochs[k].ended
Confirmed(k) == k \in DOMAIN db.br.epochs /\ db.br.epochs[k].confirmed
HasVoteOf(v, k) == k \in DOMAIN db.br.epochs /\ v \in db.br.epochs[k].votes

\* The signer's counter holds the nonce that the mempool asks for.
InStep(v) == local[v] = Expected(v)

\* No withdrawal stays unconfirmed: again and again all that were made are in
\* confirmed epochs, provided that from some time on the instance stays in use,
\* memory and rows agree, and the signers that run with their counter in step have
\* two thirds of the power.  This is over votes that time out and are sent again,
\* restarts, lost transactions and blocks rolled back.
WithdrawalsConfirmed ==
    <>[](/\ drift = {} /\ db.br.active
         /\ PowerOf({v \in signers : InStep(v)}) >= Threshold)
        => []<>(\A k \in DOMAIN db.br.epochs : Withdrawn(k) => Confirmed(k))

\* Without asking for counters in step: while all signers run, each of them gets
\* its vote for an ended epoch into the rows, or the epoch is confirmed without it.
VotesSubmitted ==
    <>[]Running
        => \A v \in Validators, k \in 1..MaxStatements :
               [](Ended(k) => <>(HasVoteOf(v, k) \/ Confirmed(k)))

=============================================================================
