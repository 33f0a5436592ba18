------------------------------- MODULE Voting -------------------------------
(***************************************************************************)
(* The vote store and what the end of a block does with it.  The state of  *)
(* the application is a record                                             *)
(*   res        the open resolutions, each with the voters that approved   *)
(*   processed  the ids of confirmed and expired resolutions               *)
(*   topic      the ordered-sync topic that confirmed resolutions feed     *)
(* An event stands for its id (the hash of its body).                      *)
(***************************************************************************)
EXTENDS OrderedSync, FiniteSetsExt

CONSTANTS
  Nodes,       \* the validators that take part
  Power,       \* the power of each
  TotalPower   \* of the whole validator set, silent validators included

ASSUME PowerAssumption ==
  /\ IsFiniteSet(Nodes)
  /\ Power \in [Nodes -> Nat \ {0}]
  /\ TotalPower \in Nat
  /\ SumFunction(Power) <= TotalPower

EmptyApp == [res |-> <<>>, processed |-> {}, topic |-> EmptyTopic]

\* Mutant: the fraction is rounded down.
RequiredPowerDown(num, den) == (TotalPower * num) \div den

\* RequiredPower: the fraction of the total power, rounded up.
RequiredPower(num, den) == (TotalPower * num + den - 1) \div den

ApprovedPower(app, e) == SumFunctionOnSet(Power, app.res[e])

\* Mutant: the table of processed ids is not looked at.
VoteBodiesPassAgain(app, events) == events \cap DOMAIN app.res = {}

\* validatorVoteBodiesRoute: every event becomes a resolution approved by its
\* proposer; insert_resolution raises for an event that is processed, and the
\* primary key does for one that is open, so that one of them fails them all.
VoteBodiesPass(app, events) ==
  events \cap (app.processed \cup DOMAIN app.res) = {}

VoteBodies(app, proposer, events) ==
  IF VoteBodiesPass(app, events)
  THEN [app EXCEPT !.res = [e \in DOMAIN @ \cup events |->
                              IF e \in events THEN {proposer} ELSE @[e]]]
  ELSE app

\* validatorVoteIDsRoute: ids that are processed are filtered out; a vote for
\* a resolution that does not exist breaks the foreign key and fails them all.
VotesCounted(app, ids) ==
  IF ids \ app.processed \subseteq DOMAIN app.res THEN ids \ app.processed ELSE {}

\* The vote transactions of a block: none changes what another one counts.
VoteIDs(app, votes) ==
  [app EXCEPT !.res = [e \in DOMAIN @ |->
     @[e] \cup {tx.voter : tx \in {t \in votes : e \in VotesCounted(app, t.ids)}}]]

\* Resolutions past their expiration are not confirmed.
Confirmed(app, expired) ==
  {e \in DOMAIN app.res \ expired : ApprovedPower(app, e) >= RequiredPower(1, 2)}

\* processVotes: confirmed resolutions are resolved, each in a transaction of
\* its own, the expired ones are not; both are deleted and become processed.
ProcessVotes(app, expired) ==
  LET confirmed == Confirmed(app, expired)
      gone == confirmed \cup expired
  IN [res |-> Restrict(app.res, DOMAIN app.res \ gone),
      processed |-> app.processed \cup gone,
      topic |-> StoreDataPoints(app.topic, confirmed)]

\* Finalize: the votes, then the end-block hooks.
Finalize(app, expired) ==
  LET voted == ProcessVotes(app, expired)
  IN [voted EXCEPT !.topic = Resolve(@)]
=============================================================================
