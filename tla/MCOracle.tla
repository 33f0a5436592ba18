------------------------------- MODULE MCOracle -------------------------------
(***************************************************************************)
(* A leader and a validator of power 1; a third one of power 1 is silent,  *)
(* so that a confirmation needs both.                                      *)
(***************************************************************************)
EXTENDS Oracle, TLC

CONSTANTS ldr, vld

MCNodes == {ldr, vld}
MCPower == [n \in MCNodes |-> 1]
MCLogBlocks == {1, 2}
\* The leader catches up in two chunks, the validator sees the second height
\* announced.
MCStartHeights == [n \in MCNodes |-> IF n = ldr THEN {2} ELSE {1}]
MCFaults == {"listener", "wipe", "expire", "leader crash", "validator crash"}
=============================================================================
