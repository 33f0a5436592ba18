---------------------------- MODULE SnapshotStore ----------------------------
(***************************************************************************)
(* The snapshots that a node keeps for others.  A snapshot is a directory  *)
(* of chunk files and, written last, a header.  The store registers a new  *)
(* snapshot, then deletes the oldest ones until MaxSnapshots are left; the *)
(* deletion is a RemoveAll under the write lock, and the process can die   *)
(* in the middle of it.  At a start every directory with a header is       *)
(* registered again, and the oldest are deleted in the same way.           *)
(*                                                                         *)
(* A provider is a record: height, its last committed block; chunks and    *)
(* header, the files on its disk; reg, the registered heights; job, what   *)
(* it is doing.                                                            *)
(***************************************************************************)
EXTENDS Integers, FiniteSets, FiniteSetsExt

CONSTANTS
  MaxHeight,      \* bound: the last block of the chain
  ChunkCount,     \* the number of chunks of a snapshot by height
  RecurringHeight \* blocks between two snapshots

ASSUME SnapshotAssumption ==
  /\ MaxHeight \in Nat \ {0}
  /\ ChunkCount \in [1 .. MaxHeight -> Nat \ {0}]
  /\ RecurringHeight \in Nat

Heights == 1 .. MaxHeight
ChunksOf(h) == 0 .. ChunkCount[h] - 1
Chunk == UNION {ChunksOf(h) : h \in Heights}

Provider == [height : 0 .. MaxHeight, chunks : [Heights -> SUBSET Chunk],
             header : SUBSET Heights, reg : SUBSET Heights,
             job : {"idle", "dump", "prune", "down"}]

\* A node that has taken the snapshots of the given heights.
Holding(h, taken) ==
  [height |-> h, chunks |-> [k \in Heights |-> IF k \in taken THEN ChunksOf(k) ELSE {}],
   header |-> taken, reg |-> taken, job |-> "idle"]

IsSnapshotDue(p, h) ==
  /\ RecurringHeight # 0
  /\ p.reg = {} \/ h - Max(p.reg) >= RecurringHeight

\* Commit: the snapshot is taken at the end of the commit of a block.
CommitProviderBlock(p) ==
  [p EXCEPT !.height = @ + 1, !.job = IF IsSnapshotDue(p, p.height + 1) THEN "dump" ELSE "idle"]

\* splitStreamIntoChunks: one chunk file after the other.
WriteChunk(p) == [p EXCEPT !.chunks[p.height] = @ \cup {Cardinality(@)}]

\* A failed dump: CreateSnapshot removes the directory.
DumpFails(p) == [p EXCEPT !.chunks[p.height] = {}, !.job = "idle"]

\* The header file, then RegisterSnapshot.
RegisterSnapshot(p, max) ==
  LET reg == p.reg \cup {p.height}
  IN [p EXCEPT !.header = @ \cup {p.height}, !.reg = reg,
               !.job = IF Cardinality(reg) > max THEN "prune" ELSE "idle"]

\* deleteOldestSnapshot: the files go one by one in any order, then the
\* height is taken out of the registered ones.
RemoveChunk(p, c) == [p EXCEPT !.chunks[Min(p.reg)] = @ \ {c}]
RemoveHeader(p) == [p EXCEPT !.header = @ \ {Min(p.reg)}]
Unregister(p, max) ==
  LET reg == p.reg \ {Min(p.reg)}
  IN [p EXCEPT !.reg = reg, !.job = IF Cardinality(reg) > max THEN "prune" ELSE "idle"]

Die(p) == [p EXCEPT !.reg = {}, !.job = "down"]

\* Mutant: no retention at the start.
LoadSnapshotsAll(p, max) == [p EXCEPT !.reg = p.header, !.job = "idle"]

\* loadSnapshots: a missing chunk file is logged and the snapshot registered
\* all the same (the continue is that of the inner loop).  The oldest
\* directories above MaxSnapshots are deleted.
LoadSnapshots(p, max) ==
  LET Newest(h) == Cardinality({k \in p.header : k > h}) < max
      old == {h \in p.header : ~Newest(h)}
  IN [p EXCEPT !.reg = p.header \ old, !.header = @ \ old, !.job = "idle",
               !.chunks = [h \in Heights |-> IF h \in old THEN {} ELSE @[h]]]

\* The requests of other nodes wait for the write lock of a deletion.
Serves(p) == p.job \notin {"prune", "down"}
HasSnapshot(p, h) == h \in p.reg
HasChunk(p, h, c) == h \in p.reg /\ c \in p.chunks[h]
=============================================================================
