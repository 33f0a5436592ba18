------------------------------- MODULE MCTxPool -------------------------------
(***************************************************************************)
(* Two accounts: acctA has tokens, acctC does not exist at genesis.        *)
(***************************************************************************)
EXTENDS TxPool

CONSTANTS acctA, acctC, q1, q2, loop

Tx(from, nonce, kind, to, amt, fee, price, size) ==
  [from |-> from, nonce |-> nonce, kind |-> kind, to |-> to, amt |-> amt,
   fee |-> fee, price |-> price, size |-> size]

\* A transfer that creates acctC, the next transaction of acctA, which offers less
\* than its price, and a transaction of acctC.
TxsOf(size) == {Tx(acctA, 1, "transfer", acctC, 2, 1, 1, 1),
                Tx(acctA, 2, "action", acctA, 0, 1, 2, size),
                Tx(acctC, 1, "transfer", acctA, 1, 0, 0, size)}

\* In blocks and mempools of size 3 only the transfer fits beside another one.
MCTxs == TxsOf(2)
SmallTxs == TxsOf(1)

MCAccts == {acctA, acctC}
MCGenesis == [x \in MCAccts |-> IF x = acctA THEN [bal |-> 3, nonce |-> 0] ELSE NoRow]
MCAdmitters == {q1, q2}
MCProcs == {q1, q2, loop}
BothRoles == {"leader", "validator"}
LeaderOnly == {"leader"}
Symmetry == Permutations(MCAdmitters)
=============================================================================
