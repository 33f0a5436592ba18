------------------------------- MODULE Accounts -------------------------------
(***************************************************************************)
(* The account store (accounts.Accounts): the rows of the accounts table,  *)
(* as committed and as the block's own transaction sees them, and the two  *)
(* maps in memory, records (a cache of rows) and updates (the rows the     *)
(* current block has written).  The operations are functions of the store: *)
(* they return the new store and an error, "ok" for none.                  *)
(***************************************************************************)
EXTENDS Integers

CONSTANTS
  Accts,   \* account identifiers
  NoRow    \* an account that does not exist, a key that is not in a map

ASSUME NoRowAssumption == NoRow \notin [bal : Int, nonce : Int]

Row == [bal : Nat, nonce : Nat]
Rows == [Accts -> Row \cup {NoRow}]

\* db: committed rows; work: rows inside the block's transaction.
Store == [db : Rows, work : Rows, records : Rows, updates : Rows]

NoRows == [a \in Accts |-> NoRow]

NewStore(rows) == [db |-> rows, work |-> rows, records |-> NoRows, updates |-> NoRows]

Returns(s, err) == [s |-> s, err |-> err]

----------------------------------------------------------------------------
\* getAccount: the block's own writes come first when the caller asks for
\* them, then the cache, then the table as the caller's transaction sees it.
Lookup(s, a, uncommitted, rows) ==
  IF uncommitted /\ s.updates[a] # NoRow THEN s.updates[a]
  ELSE IF s.records[a] # NoRow THEN s.records[a]
  ELSE rows[a]

\* What getAccount leaves in the cache: a row read from the table is kept.
Cached(s, a, uncommitted, rows) ==
  IF \/ uncommitted /\ s.updates[a] # NoRow
     \/ s.records[a] # NoRow
  THEN s
  ELSE [s EXCEPT !.records[a] = rows[a]]

\* The cache has room for 4000 records: one more put drops the least recently
\* used, whichever account that is (accounts outside Accts are read as well).
Evict(s, a) == [s EXCEPT !.records[a] = NoRow]

\* GetAccount: an account that does not exist reads as empty.
OrEmpty(row) == IF row = NoRow THEN [bal |-> 0, nonce |-> 0] ELSE row

\* createAccount inserts the row and notes it in updates.
CreateAccount(s, a, row) == [s EXCEPT !.work[a] = row, !.updates[a] = row]

\* updateAccount is an UPDATE: without a row it changes no row and reports no
\* error, and updates is written all the same.
UpdateAccount(s, a, row) ==
  [s EXCEPT !.work[a] = IF @ = NoRow THEN NoRow ELSE row, !.updates[a] = row]

----------------------------------------------------------------------------
\* Mutated form: the balance is checked before the nonce is looked at, and a
\* gap in the nonces is accepted.
SpendSkipsNonce(s0, a, amount, nonce) ==
  LET row == Lookup(s0, a, TRUE, s0.work)
      s == Cached(s0, a, TRUE, s0.work)
  IN  CASE row = NoRow /\ amount = 0 /\ nonce = 1 ->
             Returns(CreateAccount(s, a, [bal |-> 0, nonce |-> 1]), "ok")
        [] row = NoRow /\ ~(amount = 0 /\ nonce = 1) -> Returns(s, "not found")
        [] row # NoRow /\ row.bal < amount -> Returns(s, "funds")
        [] OTHER -> Returns(UpdateAccount(s, a,
                              [bal |-> row.bal - amount, nonce |-> nonce]), "ok")

\* Spend takes the amount and records the nonce, which must follow the last.
Spend(s0, a, amount, nonce) ==
  LET row == Lookup(s0, a, TRUE, s0.work)
      s == Cached(s0, a, TRUE, s0.work)
      first == amount = 0 /\ nonce = 1
  IN  CASE row = NoRow /\ first ->
             Returns(CreateAccount(s, a, [bal |-> 0, nonce |-> 1]), "ok")
        [] row = NoRow /\ ~first -> Returns(s, "not found")
        [] row # NoRow /\ row.nonce + 1 # nonce -> Returns(s, "nonce")
        [] row # NoRow /\ row.nonce + 1 = nonce /\ row.bal < amount ->
             Returns(s, "funds")
        [] OTHER -> Returns(UpdateAccount(s, a,
                              [bal |-> row.bal - amount, nonce |-> nonce]), "ok")

\* Mutated form: the receiver is credited and the sender keeps the amount.
TransferKeepsSender(s0, from, to, amt) ==
  LET sender == Lookup(s0, from, TRUE, s0.work)
      s1 == Cached(s0, from, TRUE, s0.work)
      receiver == Lookup(s1, to, TRUE, s1.work)
      s2 == Cached(s1, to, TRUE, s1.work)
  IN  IF sender = NoRow \/ sender.bal < amt THEN Returns(s1, "funds")
      ELSE Returns(IF receiver = NoRow
                   THEN CreateAccount(s2, to, [bal |-> amt, nonce |-> 0])
                   ELSE UpdateAccount(s2, to, [receiver EXCEPT !.bal = @ + amt]), "ok")

\* Transfer reads both accounts, writes the receiver and then the sender.
Transfer(s0, from, to, amt) ==
  LET sender == Lookup(s0, from, TRUE, s0.work)
      s1 == Cached(s0, from, TRUE, s0.work)
      receiver == Lookup(s1, to, TRUE, s1.work)
      s2 == Cached(s1, to, TRUE, s1.work)
      s3 == IF receiver = NoRow
            THEN CreateAccount(s2, to, [bal |-> amt, nonce |-> 0])
            ELSE UpdateAccount(s2, to, [receiver EXCEPT !.bal = @ + amt])
  IN  CASE sender = NoRow -> Returns(s1, "not found")
        [] sender # NoRow /\ sender.bal < amt -> Returns(s1, "funds")
        [] OTHER -> Returns(UpdateAccount(s3, from, [sender EXCEPT !.bal = @ - amt]), "ok")

----------------------------------------------------------------------------
\* The block's transaction commits in postgres.
CommitRows(s) == [s EXCEPT !.db = s.work]

\* Mutated form: the cache keeps what it held before the block.
CommitAccountsStale(s) == [s EXCEPT !.updates = NoRows]

\* Commit: what the block wrote replaces what the cache held.
CommitAccounts(s) ==
  [s EXCEPT !.records = [a \in Accts |-> IF s.updates[a] # NoRow
                                         THEN s.updates[a] ELSE s.records[a]],
            !.updates = NoRows]

\* Rollback of the block: its transaction and Accounts.Rollback.
RollbackAccounts(s) == [s EXCEPT !.work = s.db, !.updates = NoRows]
=============================================================================
