-------------------------------- MODULE Ledger --------------------------------
(***************************************************************************)
(* What the commit path of a node promises: its database is the result of  *)
(* the blocks the network decided, applied in order, each of them once,    *)
(* and it never goes back, except when the operator restores a dump.       *)
(***************************************************************************)
EXTENDS Naturals, Sequences

CONSTANT Versions   \* the blocks that may be proposed on top of a chain

VARIABLES
  decided,   \* the chain the network decided
  ledger,    \* the blocks the database holds the effects of
  restores   \* dumps put back

Init == decided = <<>> /\ ledger = <<>> /\ restores = 0

Decide == \E v \in Versions :
  decided' = Append(decided, v) /\ UNCHANGED <<ledger, restores>>

Apply ==
  /\ Len(ledger) < Len(decided)
  /\ ledger' = Append(ledger, decided[Len(ledger) + 1])
  /\ UNCHANGED <<decided, restores>>

Restore == \E h \in 0..Len(ledger) :
  /\ ledger' = SubSeq(ledger, 1, h)
  /\ restores' = restores + 1
  /\ UNCHANGED decided

Next == Decide \/ Apply \/ Restore

Spec == Init /\ [][Next]_<<decided, ledger, restores>>
=============================================================================
