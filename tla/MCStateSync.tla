----------------------------- MODULE MCStateSync -----------------------------
(***************************************************************************)
(* A trusted provider pt that keeps one snapshot and goes from height 1 to *)
(* 3, and a peer pu with the snapshots of heights 2 and 3.  The snapshot   *)
(* of height 3 that pu holds is not that of pt.  That of height 2 is the   *)
(* same for both, and does not carry the app hash of the block.            *)
(***************************************************************************)
EXTENDS StateSync, TLC

CONSTANTS pt, pu

MCProviders == {pt, pu}
MCTrusted == <<pt>>
MCChunkCount == [h \in 1 .. 3 |-> IF h = 2 THEN 2 ELSE 1]
MCDumpState == [p \in MCProviders |->
                  [h \in 1 .. 3 |-> IF p = pu \/ h = 2 THEN "other" ELSE "chain"]]
MCMaxSnapshots == [p \in MCProviders |-> IF p = pt THEN 1 ELSE 2]
MCStartHeight == [p \in MCProviders |-> IF p = pt THEN 1 ELSE 3]
MCEndHeight == [p \in MCProviders |-> 3]
MCMaxDeaths == [p \in MCProviders |-> IF p = pt THEN 1 ELSE 0]
=============================================================================
