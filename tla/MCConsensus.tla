----------------------------- MODULE MCConsensus -----------------------------
(* Instances of Consensus for TLC: the nodes are model values, and every     *)
(* validator but the genesis leader may be renamed.                         *)
EXTENDS Consensus, TLC

Symmetry == Permutations(Validators \ {Genesis})
=============================================================================
