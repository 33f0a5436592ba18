--------------------------- MODULE MCCommitRecovery ---------------------------
(***************************************************************************)
(* CommitRecovery for TLC: two blocks to choose from at each height.       *)
(***************************************************************************)
EXTENDS CommitRecovery
=============================================================================
