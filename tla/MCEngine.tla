------------------------------ MODULE MCEngine ------------------------------
(* A role besides the default one, an owner and another user, the namespace *)
(* main and one that can be a user's or the alias of the bridge; two holders *)
(* of tokens; two validators, of which v1 alone reaches two thirds of the    *)
(* power and v2 does not.                                                    *)
EXTENDS Engine

CONSTANTS dflt, clerk, own, usr, main, ext, owner, all, h1, h2, v1, v2

MCRoles == {dflt, clerk}
MCUsers == {own, usr}
MCSpaces == {main, ext}
MCHolders == {h1, h2}
MCValidators == {v1, v2}
MCPower == [v \in MCValidators |-> IF v = v1 THEN 2 ELSE 1]

=============================================================================
