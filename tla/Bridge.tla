------------------------------- MODULE Bridge -------------------------------
(***************************************************************************)
(* One reward instance of the erc20 bridge (node/exts/erc20-bridge/erc20,  *)
(* meta_extension.go and meta_sql.go): its rows and the record             *)
(* rewardExtensionInfo that the extension caches of them.  Deposits credit *)
(* balances, users lock tokens to the network or bridge them out, rewards  *)
(* collect in the open epoch, the end-block hook closes an epoch under a   *)
(* Merkle root once its predecessor is confirmed, and the validators       *)
(* confirm it by votes of two thirds of the power.                         *)
(*                                                                         *)
(* Every amount is one token.  An epoch is named by its position, since    *)
(* its id is a function of the height it starts at.  A root stands for the *)
(* rewards it commits to: their sum.                                       *)
(***************************************************************************)
EXTENDS Naturals, Sequences, FiniteSets, FiniteSetsExt

CONSTANTS Holders,      \* addresses with a balance at the bridge
          Validators,   \* validators that can sign (secp256k1 keys)
          Power,        \* their voting power
          TotalPower    \* of all validators, the ones that cannot sign too

ASSUME BridgeAssumption ==
    /\ IsFiniteSet(Holders)
    /\ Power \in [Validators -> Nat]
    /\ TotalPower \in Nat \ {0}

NoRoot == 0
NewEpoch == [paid |-> 0, ended |-> FALSE, root |-> NoRoot,
             votes |-> {}, confirmed |-> FALSE]

\* reward_instances, balances, epochs with epoch_rewards and epoch_votes, the
\* deposits of transaction_history, and the row of the processed state poll
NoRows == [exists |-> FALSE, synced |-> FALSE, active |-> FALSE, network |-> 0,
           balance |-> [h \in Holders |-> 0], epochs |-> <<>>,
           deposited |-> 0, processed |-> FALSE]

NoInfo == [exists |-> FALSE, synced |-> FALSE, active |-> FALSE, network |-> 0,
           epoch |-> 0]

\* getStoredRewardInstances: the current epoch is the one that has not ended;
\* the balance of the network is only read for a synced instance.
Open(br) == {k \in DOMAIN br.epochs : ~br.epochs[k].ended /\ ~br.epochs[k].confirmed}

LoadInfo(br) ==
    IF ~br.exists THEN NoInfo
    ELSE [exists |-> TRUE, synced |-> br.synced, active |-> br.active,
          network |-> IF br.synced THEN br.network ELSE 0,
          epoch |-> Max(Open(br))]

Usable(info) == info.exists /\ info.active /\ info.synced

Failed == [ok |-> FALSE]
Outcome(ok, info, br) ==
    IF ok THEN [ok |-> TRUE, info |-> info, br |-> br] ELSE Failed

-----------------------------------------------------------------------------
(* prepare and disable, called by USE and UNUSE *)

\* createNewRewardInstance and createEpoch; or reuseRewardInstance.  An
\* instance that was disabled before it was synced stays inactive: only its
\* poller is started again.  poller says whether RegisterPoll finds one.
Prepare(info, br, poller) ==
    Outcome(/\ ~(info.exists /\ info.active)
            /\ (info.exists /\ info.synced) \/ ~poller,
            IF ~info.exists
            THEN [NoInfo EXCEPT !.exists = TRUE, !.active = TRUE, !.epoch = 1]
            ELSE [info EXCEPT !.active = info.synced],
            IF ~info.exists
            THEN [br EXCEPT !.exists = TRUE, !.active = TRUE,
                            !.epochs = <<NewEpoch>>]
            ELSE [br EXCEPT !.active = IF info.synced THEN TRUE ELSE @])

\* Whether a poller runs after a prepare that got that far, and after disable.
PollerAfterPrepare(info, poller) ==
    IF info.exists /\ (info.active \/ info.synced) THEN poller ELSE TRUE

Disable(info, br) ==
    Outcome(info.exists, [info EXCEPT !.active = FALSE],
            IF info.active THEN [br EXCEPT !.active = FALSE] ELSE br)

PollerAfterDisable(info, poller) ==
    IF info.exists /\ info.active /\ ~info.synced THEN FALSE ELSE poller

\* PollerOf: when OnStart starts one
PollerOf(info) == info.exists /\ info.active /\ ~info.synced

-----------------------------------------------------------------------------
(* methods and resolutions *)

\* applyDepositLog and creditBalance
Deposit(br, h) == [br EXCEPT !.balance[h] = @ + 1, !.deposited = @ + 1]

Transfer(info, br, from, to) ==
    Outcome(br.balance[from] >= 1, info,
            [br EXCEPT !.balance[from] = @ - 1, !.balance[to] = @ + 1])

\* lockTokens: user to network
LockTokens(info, br, h) ==
    Outcome(br.balance[h] >= 1 /\ Usable(info),
            [info EXCEPT !.network = @ + 1],
            [br EXCEPT !.balance[h] = @ - 1, !.network = @ + 1])

\* unlock: network to user, judged by the cached balance; the row refuses to go
\* below zero by its CHECK (meta_schema.sql).
Unlock(info, br, h) ==
    Outcome(Usable(info) /\ info.network >= 1 /\ br.network >= 1,
            [info EXCEPT !.network = @ - 1],
            [br EXCEPT !.network = @ - 1, !.balance[h] = @ + 1])

\* issueTokens: network to a reward of the current epoch, judged the same way
IssueTokens(info, br) ==
    Outcome(/\ Usable(info) /\ info.network >= 1 /\ br.network >= 1
            /\ info.epoch \in DOMAIN br.epochs,
            [info EXCEPT !.network = @ - 1],
            [br EXCEPT !.network = @ - 1, !.epochs[info.epoch].paid = @ + 1])

\* Mutant of LockAndIssueTokens: the reward is written, the balance kept.
IssueWithoutLock(info, br, h) ==
    Outcome(/\ br.balance[h] >= 1 /\ Usable(info)
            /\ info.epoch \in DOMAIN br.epochs,
            info, [br EXCEPT !.epochs[info.epoch].paid = @ + 1])

\* lockAndIssueTokens: user to a reward of the current epoch
LockAndIssueTokens(info, br, h) ==
    Outcome(/\ br.balance[h] >= 1 /\ Usable(info)
            /\ info.epoch \in DOMAIN br.epochs,
            info,
            [br EXCEPT !.balance[h] = @ - 1, !.epochs[info.epoch].paid = @ + 1])

-----------------------------------------------------------------------------
(* confirmation by votes *)

\* calculateBFTThreshold: two thirds, rounded up
Threshold == (2 * TotalPower + 2) \div 3

PowerOf(vs) == MapThenSumSet(LAMBDA v : Power[v], vs)

\* voteEpoch, sumEpochVotingPower and confirmEpoch
VoteEpoch(info, br, k, v) ==
    LET votes == br.epochs[k].votes \union {v}
    IN  Outcome(/\ k \in DOMAIN br.epochs
                /\ br.epochs[k].ended /\ ~br.epochs[k].confirmed,
                info,
                [br EXCEPT !.epochs[k].votes = votes,
                           !.epochs[k].confirmed = PowerOf(votes) >= Threshold])

-----------------------------------------------------------------------------
(* the end-block hook *)

\* Mutant of PreviousConfirmed: the hook does not wait.
NoPreviousAsked(br, k) == TRUE

\* previousEpochConfirmed: the predecessor is the epoch that ended where this
\* one starts; the first epoch has none.
PreviousConfirmed(br, k) == k > 1 => br.epochs[k - 1].confirmed

\* What the hook asks for besides the time elapsed since the epoch began
Due(info, br) ==
    /\ info.exists /\ info.active
    /\ info.epoch \in DOMAIN br.epochs
    /\ PreviousConfirmed(br, info.epoch)
    /\ br.epochs[info.epoch].paid > 0

\* genMerkleTreeForEpoch, finalizeEpoch and createEpoch
EndEpoch(info, br) ==
    LET last == br.epochs[info.epoch]
        closed == [last EXCEPT !.ended = TRUE, !.root = last.paid]
    IN  [br EXCEPT !.epochs = Append([@ EXCEPT ![info.epoch] = closed], NewEpoch)]

=============================================================================
