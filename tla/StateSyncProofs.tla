--------------------------- MODULE StateSyncProofs ---------------------------
(***************************************************************************)
(* Proofs about StateSync, for any number of providers, any heights, any   *)
(* chunk counts and any bounds.  The inductive invariant has four parts:   *)
(* the types; what the marker says of the database while a restore is      *)
(* running; whose bytes the temporary files hold while a download is       *)
(* running; and how a node can come to start from an empty database.       *)
(* Nothing is assumed of the providers, so their steps are steps that      *)
(* leave the new node alone.                                               *)
(*                                                                         *)
(* The providers have an invariant of their own, one per job of a          *)
(* provider: what has a header is complete, or is one of the oldest above  *)
(* the limit, which the next start deletes before it serves anybody.       *)
(***************************************************************************)
EXTENDS StateSync, FiniteSetTheorems, WellFoundedInduction, TLAPS

Database == [stage : {"empty", "few", "half", "whole"}, of : Snapshot \cup {None}]
TmpFile == [of : Snapshot \cup {None}, size : {"none", "part", "full"}]

NodeTypes ==
  /\ marker \in BOOLEAN
  /\ db \in Database
  /\ anchor \in 0 .. MaxHeight
  /\ tmp \in [Chunk -> TmpFile]
  /\ pool \in [Snapshot -> SUBSET Providers]
  /\ best \in Snapshot \cup {None}
  /\ retry \in Nat /\ stops \in Nat /\ losses \in Nat

\* The marker is there from before the first statement of psql until the
\* anchor is stored, and what an unmarked start accepts is whole.
RestoreInv ==
  /\ pc \in {"import", "check", "anchor", "clear"} => marker
  /\ pc = "wiped" => db = Empty
  /\ pc \in {"check", "anchor", "clear"} => db.stage = "whole"
  /\ pc \in {"anchor", "clear"} => db.of.state = "chain"
  /\ pc = "clear" => anchor = db.of.height
  /\ AcceptedIsWhole

\* The temporary files are of currentSnapshot, which is the one that is
\* verified and fetched; who is in the pool for a snapshot has that snapshot.
DownloadInv ==
  /\ pc \in Syncing => \A c \in Chunk : tmp[c].of \in {None, cur}
  /\ pc \in {"verify", "fetch"} => cur = best /\ best \in Snapshot
  /\ pc \in {"wiped", "decide"} => tmp = NoTmps
  /\ \A s \in Snapshot : \A p \in pool[s] : s = SnapshotOf(p, s.height)

\* An anchor without a database above it needs a stop; a node that goes on
\* with an empty database has such an anchor, or has looked often enough.
FreshInv ==
  /\ pc \in {"engine", "up"} /\ db = Empty => retry > MaxRetries \/ (anchor # 0 /\ stops > 0)
  /\ anchor # 0 /\ stops = 0 =>
       pc \in {"clear", "engine", "up"} /\ db.stage = "whole" /\ db.of.height = anchor

\* What the initial values are made of.
LEMMA Constants ==
  /\ Empty \in Database /\ Empty.stage = "empty" /\ Empty.of = None
  /\ NoTmp \in TmpFile /\ NoTmp.of = None
  /\ NoTmps \in [Chunk -> TmpFile] /\ \A c \in Chunk : NoTmps[c] = NoTmp
  /\ NoPool \in [Snapshot -> SUBSET Providers] /\ \A s \in Snapshot : NoPool[s] = {}
<1>1. Empty \in Database /\ Empty.stage = "empty" /\ Empty.of = None
  BY DEF Empty, Database
<1>2. NoTmp \in TmpFile /\ NoTmp.of = None
  BY DEF NoTmp, TmpFile
<1>3. NoTmps \in [Chunk -> TmpFile] /\ \A c \in Chunk : NoTmps[c] = NoTmp
  BY <1>2 DEF NoTmps
<1>4. NoPool \in [Snapshot -> SUBSET Providers] /\ \A s \in Snapshot : NoPool[s] = {}
  BY DEF NoPool
<1>5. QED
  BY <1>1, <1>2, <1>3, <1>4

\* Heights of snapshots, and what a provider dumps.
LEMMA Snapshots ==
  /\ \A s \in Snapshot \cup {None} : s.height \in 0 .. MaxHeight
  /\ \A p \in Providers, s \in Snapshot : SnapshotOf(p, s.height) \in Snapshot
<1>1. \A s \in Snapshot : s.height \in Heights
  BY DEF Snapshot
<1>2. \A s \in Snapshot \cup {None} : s.height \in 0 .. MaxHeight
  BY <1>1, SnapshotAssumption DEF None, Heights
<1>3. \A p \in Providers, s \in Snapshot : SnapshotOf(p, s.height) \in Snapshot
  BY <1>1, StateSyncAssumption DEF SnapshotOf, Snapshot
<1>4. QED
  BY <1>2, <1>3

\* A step is one of the new node's, or leaves it alone.
LEMMA NextSplit ==
  ASSUME [Next]_vars
  PROVE  \/ UNCHANGED <<pc, disk, files, memory, stops, losses>>
         \/ Start
         \/ Wiped
         \/ DoStatesync
         \/ Engine
         \/ DiscoveryTimeout
         \/ NoSnapshot
         \/ FetchEnds
         \/ \E s \in Snapshot : SelectSnapshot(s)
         \/ Restore
         \/ Import
         \/ VerifyState
         \/ FetchAnchor
         \/ ClearRestoreIncomplete
         \/ \E reach \in SUBSET Trusted : Verify(reach)
         \/ \E c \in Chunk, p \in Providers : FetchChunk(c, p)
         \/ \E c \in Chunk, p \in Providers : FetchBreaks(c, p)
         \/ \E p \in Providers : Catalog(p)
         \/ ImportFails
         \/ AnchorFails
         \/ Kill
         \/ PowerLoss
<1>1. ASSUME NEW p \in Providers, ProviderStep(p) \/ ProviderDies(p)
      PROVE  UNCHANGED <<pc, disk, files, memory, stops, losses>>
  BY <1>1 DEF ProviderStep, ProviderCommits, ProviderDumps, ProviderPrunes, ProviderStarts,
              ProviderDies, Do, faults
<1>2. CASE UNCHANGED vars
  BY <1>2 DEF vars, faults
<1>3. CASE Next
  BY <1>1, <1>3 DEF Next, StartStep, DownloadStep, RestoreStep
<1>4. QED
  BY <1>2, <1>3

\* Every step keeps the types.
LEMMA TypesStep ==
  NodeTypes /\ DownloadInv /\ [Next]_vars => NodeTypes'
<1> SUFFICES ASSUME NodeTypes, DownloadInv, [Next]_vars PROVE NodeTypes'
  OBVIOUS
<1>1. CASE UNCHANGED <<pc, disk, files, memory, stops, losses>>
  BY <1>1 DEF disk, files, memory, faults, NodeTypes
<1>2. CASE Start
  BY <1>2, Constants DEF Start, disk, files, memory, faults, NodeTypes
<1>3. CASE Wiped
  BY <1>3 DEF Wiped, disk, files, memory, faults, NodeTypes
<1>4. CASE DoStatesync
  BY <1>4 DEF DoStatesync, disk, files, memory, faults, NodeTypes
<1>5. CASE Engine
  BY <1>5, Constants DEF Engine, Exit, Forget, disk, files, memory, faults, NodeTypes
<1>6. CASE DiscoveryTimeout
  BY <1>6 DEF DiscoveryTimeout, disk, files, memory, faults, NodeTypes
<1>7. CASE NoSnapshot
  BY <1>7 DEF NoSnapshot, GivesUp, Known, disk, files, memory, faults, NodeTypes
<1>8. CASE FetchEnds
  BY <1>8, Constants DEF FetchEnds, disk, files, memory, faults, NodeTypes
<1>9. ASSUME NEW s \in Snapshot, SelectSnapshot(s) PROVE NodeTypes'
  BY <1>9, Constants DEF SelectSnapshot, Known, disk, files, memory, faults, NodeTypes
<1>10. CASE Restore
  <2>1. CASE Dump = best
    BY <1>10, <2>1 DEF Restore, disk, files, memory, faults, NodeTypes
  <2>2. CASE Dump # best
    BY <1>10, <2>2, Constants DEF Restore, Exit, Forget, disk, files, memory, faults, NodeTypes
  <2>3. QED
    BY <2>1, <2>2
<1>11. CASE Import
  BY <1>11 DEF Import, disk, files, memory, faults, NodeTypes, Database
<1>12. CASE VerifyState
  BY <1>12, Constants DEF VerifyState, Exit, Forget, CleanUp, disk, files, memory, faults, NodeTypes
<1>13. CASE FetchAnchor
  BY <1>13, Snapshots DEF FetchAnchor, disk, files, memory, faults, NodeTypes, Database
<1>14. CASE ClearRestoreIncomplete
  BY <1>14 DEF ClearRestoreIncomplete, disk, files, memory, faults, NodeTypes
<1>15. ASSUME NEW reach \in SUBSET Trusted, Verify(reach) PROVE NodeTypes'
  BY <1>15, Constants DEF Verify, BlacklistSnapshot, disk, files, memory, faults, NodeTypes
<1>16. ASSUME NEW c \in Chunk, NEW p \in Providers, FetchChunk(c, p) PROVE NodeTypes'
  BY <1>16, Constants DEF FetchChunk, disk, files, memory, faults, NodeTypes
<1>17. ASSUME NEW c \in Chunk, NEW p \in Providers, FetchBreaks(c, p) PROVE NodeTypes'
  <2>1. best \in Snapshot /\ SnapshotOf(p, best.height) \in Snapshot
    BY <1>17, Snapshots DEF FetchBreaks, Fetching, DownloadInv
  <2>2. tmp' \in [Chunk -> TmpFile]
    <3>1. CASE UNCHANGED tmp
      BY <3>1 DEF NodeTypes
    <3>2. ASSUME NEW size \in {"part", "full"},
                 tmp' = [tmp EXCEPT ![c] = [of |-> IF @.of = None THEN SnapshotOf(p, best.height)
                                                   ELSE @.of, size |-> size]]
          PROVE  tmp' \in [Chunk -> TmpFile]
      BY <2>1, <3>2 DEF NodeTypes, TmpFile
    <3>3. QED
      BY <1>17, <3>1, <3>2 DEF FetchBreaks
  <2>3. QED
    BY <1>17, <2>2 DEF FetchBreaks, disk, files, memory, faults, NodeTypes
<1>18. ASSUME NEW p \in Providers, Catalog(p) PROVE NodeTypes'
  BY <1>18 DEF Catalog, disk, files, memory, faults, NodeTypes
<1>19. CASE ImportFails
  BY <1>19, Constants DEF ImportFails, Exit, Forget, CleanUp, disk, files, memory, faults, NodeTypes
<1>20. CASE AnchorFails
  BY <1>20, Constants DEF AnchorFails, Exit, Forget, disk, files, memory, faults, NodeTypes
<1>21. CASE Kill
  BY <1>21, Constants DEF Kill, Exit, Forget, disk, files, memory, faults, NodeTypes
<1>22. CASE PowerLoss
  BY <1>22, Constants, SnapshotAssumption DEF PowerLoss, Exit, Forget, disk, files, memory, faults, NodeTypes
<1>23. QED
  BY <1>1, <1>2, <1>3, <1>4, <1>5, <1>6, <1>7, <1>8, <1>9, <1>10, <1>11, <1>12, <1>13, <1>14, <1>15, <1>16, <1>17, <1>18, <1>19, <1>20, <1>21, <1>22, NextSplit

\* Every step keeps what the marker says of the database.
LEMMA RestoreStepInv ==
  NodeTypes /\ RestoreInv /\ [Next]_vars => RestoreInv'
<1> SUFFICES ASSUME NodeTypes, RestoreInv, [Next]_vars PROVE RestoreInv'
  OBVIOUS
<1>1. CASE UNCHANGED <<pc, disk, files, memory, stops, losses>>
  BY <1>1 DEF disk, files, memory, faults, NodeTypes, RestoreInv, AcceptedIsWhole
<1>2. CASE Start
  BY <1>2, Constants DEF Start, disk, files, memory, faults, NodeTypes, RestoreInv, AcceptedIsWhole
<1>3. CASE Wiped
  BY <1>3, Constants DEF Wiped, disk, files, memory, faults, NodeTypes, RestoreInv, AcceptedIsWhole
<1>4. CASE DoStatesync
  BY <1>4 DEF DoStatesync, disk, files, memory, faults, NodeTypes, RestoreInv, AcceptedIsWhole
<1>5. CASE Engine
  BY <1>5, Constants DEF Engine, Exit, Forget, disk, files, memory, faults, NodeTypes, RestoreInv, AcceptedIsWhole
<1>6. CASE DiscoveryTimeout
  BY <1>6 DEF DiscoveryTimeout, disk, files, memory, faults, NodeTypes, RestoreInv, AcceptedIsWhole
<1>7. CASE NoSnapshot
  BY <1>7 DEF NoSnapshot, GivesUp, Known, disk, files, memory, faults, NodeTypes, RestoreInv, AcceptedIsWhole
<1>8. CASE FetchEnds
  BY <1>8, Constants DEF FetchEnds, disk, files, memory, faults, NodeTypes, RestoreInv, AcceptedIsWhole
<1>9. ASSUME NEW s \in Snapshot, SelectSnapshot(s) PROVE RestoreInv'
  BY <1>9, Constants DEF SelectSnapshot, Known, disk, files, memory, faults, NodeTypes, RestoreInv, AcceptedIsWhole
<1>10. CASE Restore
  BY <1>10, Constants DEF Restore, Exit, Forget, disk, files, memory, faults, NodeTypes, RestoreInv, AcceptedIsWhole
<1>11. CASE Import
  BY <1>11 DEF Import, disk, files, memory, faults, NodeTypes, RestoreInv, AcceptedIsWhole
<1>12. CASE VerifyState
  BY <1>12, Constants DEF VerifyState, Exit, Forget, CleanUp, disk, files, memory, faults, NodeTypes, RestoreInv, AcceptedIsWhole
<1>13. CASE FetchAnchor
  BY <1>13 DEF FetchAnchor, disk, files, memory, faults, NodeTypes, RestoreInv, AcceptedIsWhole
<1>14. CASE ClearRestoreIncomplete
  BY <1>14 DEF ClearRestoreIncomplete, disk, files, memory, faults, NodeTypes, RestoreInv, AcceptedIsWhole
<1>15. ASSUME NEW reach \in SUBSET Trusted, Verify(reach) PROVE RestoreInv'
  BY <1>15, Constants DEF Verify, BlacklistSnapshot, disk, files, memory, faults, NodeTypes, RestoreInv, AcceptedIsWhole
<1>16. ASSUME NEW c \in Chunk, NEW p \in Providers, FetchChunk(c, p) PROVE RestoreInv'
  BY <1>16, Constants DEF FetchChunk, disk, files, memory, faults, NodeTypes, RestoreInv, AcceptedIsWhole
<1>17. ASSUME NEW c \in Chunk, NEW p \in Providers, FetchBreaks(c, p) PROVE RestoreInv'
  BY <1>17 DEF FetchBreaks, disk, files, memory, faults, NodeTypes, RestoreInv, AcceptedIsWhole
<1>18. ASSUME NEW p \in Providers, Catalog(p) PROVE RestoreInv'
  BY <1>18 DEF Catalog, disk, files, memory, faults, NodeTypes, RestoreInv, AcceptedIsWhole
<1>19. CASE ImportFails
  BY <1>19, Constants DEF ImportFails, Exit, Forget, CleanUp, disk, files, memory, faults, NodeTypes, RestoreInv, AcceptedIsWhole
<1>20. CASE AnchorFails
  BY <1>20, Constants DEF AnchorFails, Exit, Forget, disk, files, memory, faults, NodeTypes, RestoreInv, AcceptedIsWhole
<1>21. CASE Kill
  BY <1>21, Constants DEF Kill, Exit, Forget, disk, files, memory, faults, NodeTypes, RestoreInv, AcceptedIsWhole
<1>22. CASE PowerLoss
  BY <1>22, Constants DEF PowerLoss, Exit, Forget, disk, files, memory, faults, NodeTypes, RestoreInv, AcceptedIsWhole
<1>23. QED
  BY <1>1, <1>2, <1>3, <1>4, <1>5, <1>6, <1>7, <1>8, <1>9, <1>10, <1>11, <1>12, <1>13, <1>14, <1>15, <1>16, <1>17, <1>18, <1>19, <1>20, <1>21, <1>22, NextSplit

\* Every step keeps the temporary files to one snapshot.
LEMMA DownloadStepInv ==
  NodeTypes /\ DownloadInv /\ [Next]_vars => DownloadInv'
<1> SUFFICES ASSUME NodeTypes, DownloadInv, [Next]_vars PROVE DownloadInv'
  OBVIOUS
<1>1. CASE UNCHANGED <<pc, disk, files, memory, stops, losses>>
  BY <1>1 DEF disk, files, memory, faults, NodeTypes, DownloadInv, Syncing
<1>2. CASE Start
  BY <1>2, Constants DEF Start, disk, files, memory, faults, NodeTypes, DownloadInv, Syncing
<1>3. CASE Wiped
  BY <1>3, Constants DEF Wiped, disk, files, memory, faults, NodeTypes, DownloadInv, Syncing
<1>4. CASE DoStatesync
  BY <1>4, Constants DEF DoStatesync, disk, files, memory, faults, NodeTypes, DownloadInv, Syncing
<1>5. CASE Engine
  BY <1>5, Constants DEF Engine, Exit, Forget, disk, files, memory, faults, NodeTypes, DownloadInv, Syncing
<1>6. CASE DiscoveryTimeout
  BY <1>6 DEF DiscoveryTimeout, disk, files, memory, faults, NodeTypes, DownloadInv, Syncing
<1>7. CASE NoSnapshot
  BY <1>7 DEF NoSnapshot, GivesUp, Known, disk, files, memory, faults, NodeTypes, DownloadInv, Syncing
<1>8. CASE FetchEnds
  BY <1>8, Constants DEF FetchEnds, disk, files, memory, faults, NodeTypes, DownloadInv, Syncing
<1>9. ASSUME NEW s \in Snapshot, SelectSnapshot(s) PROVE DownloadInv'
  BY <1>9, Constants DEF SelectSnapshot, Known, disk, files, memory, faults, NodeTypes, DownloadInv, Syncing
<1>10. CASE Restore
  BY <1>10, Constants DEF Restore, Exit, Forget, disk, files, memory, faults, NodeTypes, DownloadInv, Syncing
<1>11. CASE Import
  BY <1>11 DEF Import, disk, files, memory, faults, NodeTypes, DownloadInv, Syncing
<1>12. CASE VerifyState
  BY <1>12, Constants DEF VerifyState, Exit, Forget, CleanUp, disk, files, memory, faults, NodeTypes, DownloadInv, Syncing
<1>13. CASE FetchAnchor
  BY <1>13 DEF FetchAnchor, disk, files, memory, faults, NodeTypes, DownloadInv, Syncing
<1>14. CASE ClearRestoreIncomplete
  BY <1>14 DEF ClearRestoreIncomplete, disk, files, memory, faults, NodeTypes, DownloadInv, Syncing
<1>15. ASSUME NEW reach \in SUBSET Trusted, Verify(reach) PROVE DownloadInv'
  BY <1>15, Constants DEF Verify, BlacklistSnapshot, disk, files, memory, faults, NodeTypes, DownloadInv, Syncing
<1>16. ASSUME NEW c \in Chunk, NEW p \in Providers, FetchChunk(c, p) PROVE DownloadInv'
  BY <1>16, Constants DEF FetchChunk, disk, files, memory, faults, NodeTypes, DownloadInv, Syncing
<1>17. ASSUME NEW c \in Chunk, NEW p \in Providers, FetchBreaks(c, p) PROVE DownloadInv'
  <2>1. best \in Snapshot /\ cur = best /\ SnapshotOf(p, best.height) = best
    BY <1>17 DEF FetchBreaks, Fetching, DownloadInv
  <2>2. \A d \in Chunk : tmp'[d].of \in {None, cur}
    <3>1. CASE UNCHANGED tmp
      BY <1>17, <3>1 DEF FetchBreaks, Fetching, DownloadInv, Syncing
    <3>2. ASSUME NEW size \in {"part", "full"},
                 tmp' = [tmp EXCEPT ![c] = [of |-> IF @.of = None THEN SnapshotOf(p, best.height)
                                                   ELSE @.of, size |-> size]]
          PROVE  \A d \in Chunk : tmp'[d].of \in {None, cur}
      BY <1>17, <2>1, <3>2 DEF FetchBreaks, Fetching, NodeTypes, DownloadInv, Syncing
    <3>3. QED
      BY <1>17, <3>1, <3>2 DEF FetchBreaks
  <2>3. QED
    BY <1>17, <2>1, <2>2 DEF FetchBreaks, Fetching, disk, files, memory, faults, DownloadInv, Syncing
<1>18. ASSUME NEW p \in Providers, Catalog(p) PROVE DownloadInv'
  BY <1>18 DEF Catalog, disk, files, memory, faults, NodeTypes, DownloadInv, Syncing
<1>19. CASE ImportFails
  BY <1>19, Constants DEF ImportFails, Exit, Forget, CleanUp, disk, files, memory, faults, NodeTypes, DownloadInv, Syncing
<1>20. CASE AnchorFails
  BY <1>20, Constants DEF AnchorFails, Exit, Forget, disk, files, memory, faults, NodeTypes, DownloadInv, Syncing
<1>21. CASE Kill
  BY <1>21, Constants DEF Kill, Exit, Forget, disk, files, memory, faults, NodeTypes, DownloadInv, Syncing
<1>22. CASE PowerLoss
  BY <1>22, Constants DEF PowerLoss, Exit, Forget, disk, files, memory, faults, NodeTypes, DownloadInv, Syncing
<1>23. QED
  BY <1>1, <1>2, <1>3, <1>4, <1>5, <1>6, <1>7, <1>8, <1>9, <1>10, <1>11, <1>12, <1>13, <1>14, <1>15, <1>16, <1>17, <1>18, <1>19, <1>20, <1>21, <1>22, NextSplit

\* Every step keeps the account of how a node comes to an empty database.
LEMMA FreshStepInv ==
  NodeTypes /\ RestoreInv /\ FreshInv /\ [Next]_vars => FreshInv'
<1> SUFFICES ASSUME NodeTypes, RestoreInv, FreshInv, [Next]_vars PROVE FreshInv'
  OBVIOUS
<1>1. CASE UNCHANGED <<pc, disk, files, memory, stops, losses>>
  BY <1>1 DEF disk, files, memory, faults, NodeTypes, RestoreInv, FreshInv
<1>2. CASE Start
  BY <1>2, Constants DEF Start, disk, files, memory, faults, NodeTypes, RestoreInv, FreshInv
<1>3. CASE Wiped
  BY <1>3 DEF Wiped, disk, files, memory, faults, NodeTypes, RestoreInv, FreshInv
<1>4. CASE DoStatesync
  BY <1>4 DEF DoStatesync, disk, files, memory, faults, NodeTypes, RestoreInv, FreshInv
<1>5. CASE Engine
  BY <1>5, Constants DEF Engine, Exit, Forget, disk, files, memory, faults, NodeTypes, RestoreInv, FreshInv
<1>6. CASE DiscoveryTimeout
  BY <1>6 DEF DiscoveryTimeout, disk, files, memory, faults, NodeTypes, RestoreInv, FreshInv
<1>7. CASE NoSnapshot
  BY <1>7 DEF NoSnapshot, GivesUp, Known, disk, files, memory, faults, NodeTypes, RestoreInv, FreshInv
<1>8. CASE FetchEnds
  BY <1>8, Constants DEF FetchEnds, disk, files, memory, faults, NodeTypes, RestoreInv, FreshInv
<1>9. ASSUME NEW s \in Snapshot, SelectSnapshot(s) PROVE FreshInv'
  BY <1>9, Constants DEF SelectSnapshot, Known, disk, files, memory, faults, NodeTypes, RestoreInv, FreshInv
<1>10. CASE Restore
  BY <1>10, Constants DEF Restore, Exit, Forget, disk, files, memory, faults, NodeTypes, RestoreInv, FreshInv
<1>11. CASE Import
  BY <1>11 DEF Import, disk, files, memory, faults, NodeTypes, RestoreInv, FreshInv
<1>12. CASE VerifyState
  BY <1>12, Constants DEF VerifyState, Exit, Forget, CleanUp, disk, files, memory, faults, NodeTypes, RestoreInv, FreshInv
<1>13. CASE FetchAnchor
  BY <1>13, Snapshots DEF FetchAnchor, disk, files, memory, faults, NodeTypes, RestoreInv, FreshInv
<1>14. CASE ClearRestoreIncomplete
  BY <1>14, Constants DEF ClearRestoreIncomplete, disk, files, memory, faults, NodeTypes, RestoreInv, FreshInv
<1>15. ASSUME NEW reach \in SUBSET Trusted, Verify(reach) PROVE FreshInv'
  BY <1>15, Constants DEF Verify, BlacklistSnapshot, disk, files, memory, faults, NodeTypes, RestoreInv, FreshInv
<1>16. ASSUME NEW c \in Chunk, NEW p \in Providers, FetchChunk(c, p) PROVE FreshInv'
  BY <1>16, Constants DEF FetchChunk, disk, files, memory, faults, NodeTypes, RestoreInv, FreshInv
<1>17. ASSUME NEW c \in Chunk, NEW p \in Providers, FetchBreaks(c, p) PROVE FreshInv'
  BY <1>17 DEF FetchBreaks, disk, files, memory, faults, NodeTypes, RestoreInv, FreshInv
<1>18. ASSUME NEW p \in Providers, Catalog(p) PROVE FreshInv'
  BY <1>18 DEF Catalog, disk, files, memory, faults, NodeTypes, RestoreInv, FreshInv
<1>19. CASE ImportFails
  BY <1>19, Constants DEF ImportFails, Exit, Forget, CleanUp, disk, files, memory, faults, NodeTypes, RestoreInv, FreshInv
<1>20. CASE AnchorFails
  BY <1>20, Constants DEF AnchorFails, Exit, Forget, disk, files, memory, faults, NodeTypes, RestoreInv, FreshInv
<1>21. CASE Kill
  BY <1>21, Constants DEF Kill, Exit, Forget, disk, files, memory, faults, NodeTypes, RestoreInv, FreshInv
<1>22. CASE PowerLoss
  BY <1>22, Constants DEF PowerLoss, Exit, Forget, disk, files, memory, faults, NodeTypes, RestoreInv, FreshInv
<1>23. QED
  BY <1>1, <1>2, <1>3, <1>4, <1>5, <1>6, <1>7, <1>8, <1>9, <1>10, <1>11, <1>12, <1>13, <1>14, <1>15, <1>16, <1>17, <1>18, <1>19, <1>20, <1>21, <1>22, NextSplit

SyncInv == NodeTypes /\ RestoreInv /\ DownloadInv /\ FreshInv

\* The four parts together are inductive.
THEOREM SyncInvariant == Spec => []SyncInv
<1>1. Init => SyncInv
  <2>1. Init => NodeTypes
    <3>1. 0 \in 0 .. MaxHeight
      BY SnapshotAssumption
    <3>2. Init => anchor = 0 /\ retry = 0 /\ stops = 0 /\ losses = 0 /\ marker = FALSE
                  /\ db = Empty /\ tmp = NoTmps /\ pool = NoPool /\ best = None
      BY Zenon DEF Init
    <3>3. Init => marker \in BOOLEAN /\ db \in Database
      BY <3>2, Constants, Zenon
    <3>4. Init => tmp \in [Chunk -> TmpFile] /\ pool \in [Snapshot -> SUBSET Providers]
      BY <3>2, Constants, Zenon
    <3>5. Init => anchor \in 0 .. MaxHeight /\ retry \in Nat /\ stops \in Nat /\ losses \in Nat
      BY <3>1, <3>2
    <3>6. Init => best \in Snapshot \cup {None}
      BY <3>2, Zenon
    <3>7. QED
      BY <3>3, <3>4, <3>5, <3>6, Zenon DEF NodeTypes
  <2>2. Init => RestoreInv /\ FreshInv
    BY Constants DEF Init, RestoreInv, FreshInv, AcceptedIsWhole
  <2>3. Init => DownloadInv
    BY Constants DEF Init, DownloadInv, Syncing
  <2>4. QED
    BY <2>1, <2>2, <2>3 DEF SyncInv
<1>2. SyncInv /\ [Next]_vars => SyncInv'
  BY TypesStep, RestoreStepInv, DownloadStepInv, FreshStepInv DEF SyncInv
<1>3. QED
  BY <1>1, <1>2, PTL DEF Spec

\* Whenever the node stops, also in the middle of psql, the database that its
\* next start takes for initialized is the whole state of the chain at the
\* height of the stored anchor; only a power loss separates the two.
THEOREM RestoreIsAllOrNothing == Spec => []AcceptedIsWhole
<1>1. SyncInv => AcceptedIsWhole
  BY DEF SyncInv, RestoreInv
<1>2. QED
  BY <1>1, SyncInvariant, PTL

\* downloadChunkResumable never appends to the bytes of another snapshot.
THEOREM ResumeIsSafe == Spec => []ResumesSameSnapshot
<1>1. SyncInv => ResumesSameSnapshot
  BY DEF SyncInv, DownloadInv, ResumesSameSnapshot, Syncing
<1>2. QED
  BY <1>1, SyncInvariant, PTL

\* A node starts from the genesis after it gave up looking for snapshots, or
\* after a stop between the stored anchor and the removed marker.
THEOREM FreshStarts == Spec => []FreshStartIsDeliberate
<1>1. SyncInv => FreshStartIsDeliberate
  BY DEF SyncInv, FreshInv, FreshStartIsDeliberate
<1>2. QED
  BY <1>1, SyncInvariant, PTL

-----------------------------------------------------------------------------
(* The providers                                                           *)

Complete(x, h) == x.chunks[h] = ChunksOf(h)

\* What the directory of a provider holds in each of its jobs.  A deletion is
\* under way only above the limit, so a header left without its chunks is
\* among those that the next start deletes.
ProviderOK(x, max) ==
  /\ x \in Provider
  /\ \A k \in Heights : k > x.height => x.chunks[k] = {} /\ k \notin x.header \cup x.reg
  /\ x.job \in {"idle", "dump"} => x.header = x.reg /\ \A h \in x.reg : Complete(x, h)
  /\ x.job = "dump" =>
       /\ x.height \in Heights /\ x.height \notin x.reg
       /\ \E n \in 0 .. ChunkCount[x.height] : x.chunks[x.height] = 0 .. n - 1
  /\ x.job = "prune" =>
       /\ x.reg # {} /\ Cardinality(x.reg) > max
       /\ x.header = x.reg \/ x.header = x.reg \ {Min(x.reg)}
       /\ \A h \in x.reg \ {Min(x.reg)} : Complete(x, h)
  /\ x.job = "down" =>
       /\ x.reg = {}
       /\ \A h \in x.header : Complete(x, h) \/ Cardinality({k \in x.header : k > h}) >= max

ProvidersInv == \A p \in Providers : ProviderOK(prov[p], MaxSnapshots[p])

\* The fields of a provider.
LEMMA ProviderFields ==
  ASSUME NEW x \in Provider
  PROVE  /\ x.height \in 0 .. MaxHeight /\ x.chunks \in [Heights -> SUBSET Chunk]
         /\ x.header \in SUBSET Heights /\ x.reg \in SUBSET Heights
         /\ x.job \in {"idle", "dump", "prune", "down"}
         /\ x = [height |-> x.height, chunks |-> x.chunks, header |-> x.header,
                 reg |-> x.reg, job |-> x.job]
BY DEF Provider

\* Sets of heights are finite, and the lowest one is the lowest.
LEMMA HeightSets ==
  ASSUME NEW S \in SUBSET Heights
  PROVE  /\ IsFiniteSet(S) /\ Cardinality(S) \in Nat
         /\ S # {} => Min(S) \in S /\ \A h \in S : Min(S) <= h
         /\ \A h \in S : Cardinality(S \ {h}) = Cardinality(S) - 1
<1>1. IsFiniteSet(Heights)
  BY SnapshotAssumption, FS_Interval DEF Heights
<1>2. IsFiniteSet(S)
  BY <1>1, FS_Subset
<1>3. Cardinality(S) \in Nat /\ \A h \in S : Cardinality(S \ {h}) = Cardinality(S) - 1
  BY <1>2, FS_CardinalityType, FS_RemoveElement
<1>4. ASSUME S # {} PROVE Min(S) \in S /\ \A h \in S : Min(S) <= h
  <2>1. S \subseteq Nat
    BY SnapshotAssumption DEF Heights
  <2>2. IsWellFoundedOn(OpToRel(<, Nat), Nat)
    BY NatLessThanWellFounded, Zenon
  <2>3. PICK x \in S : \A y \in S : <<y, x>> \notin OpToRel(<, Nat)
    BY <1>4, <2>1, <2>2, WFMin, Zenon
  <2>4. \A y \in S : ~(y < x)
    BY <2>1, <2>3 DEF OpToRel
  <2>5. \A y \in S : x <= y
    BY <2>1, <2>4
  <2>6. QED
    BY <2>5 DEF Min
<1>5. QED
  BY <1>2, <1>3, <1>4

\* The chunks of a snapshot are numbered from 0.
LEMMA ChunkFacts ==
  ASSUME NEW h \in Heights
  PROVE  /\ ChunkCount[h] \in Nat \ {0} /\ ChunksOf(h) = 0 .. ChunkCount[h] - 1
         /\ ChunksOf(h) \subseteq Chunk
         /\ \A n \in Nat : Cardinality(0 .. n - 1) = n
<1>1. ChunkCount[h] \in Nat \ {0}
  BY SnapshotAssumption DEF Heights
<1>2. ASSUME NEW n \in Nat PROVE Cardinality(0 .. n - 1) = n
  <2>1. 0 \in Int /\ n - 1 \in Int
    OBVIOUS
  <2>2. Cardinality(0 .. n - 1) = IF 0 > n - 1 THEN 0 ELSE n - 1 - 0 + 1
    BY <2>1, FS_Interval
  <2>3. QED
    BY <2>2
<1>3. QED
  BY <1>1, <1>2 DEF ChunksOf, Chunk

\* A commit, which may start a snapshot of its height.
LEMMA CommitKeeps ==
  ASSUME NEW x, NEW max, ProviderOK(x, max), x.job = "idle", x.height < MaxHeight
  PROVE  ProviderOK(CommitProviderBlock(x), max)
<1> DEFINE y == CommitProviderBlock(x)
<1>0. x \in Provider
  BY DEF ProviderOK
<1>1. /\ y.height = x.height + 1 /\ y.chunks = x.chunks /\ y.header = x.header /\ y.reg = x.reg
      /\ y.job \in {"idle", "dump"}
  BY <1>0, ProviderFields DEF CommitProviderBlock, Provider
<1>2. y \in Provider
  <2>1. x.height + 1 \in 0 .. MaxHeight
    BY <1>0, ProviderFields, SnapshotAssumption
  <2>2. QED
    BY <1>0, <2>1 DEF CommitProviderBlock, Provider
<1>3. x.height + 1 \in Heights /\ x.height \in Nat
  BY <1>0, ProviderFields, SnapshotAssumption DEF Heights
<1>4. x.chunks[x.height + 1] = {} /\ x.height + 1 \notin x.reg
  BY <1>3 DEF ProviderOK
<1>5. x.chunks[x.height + 1] = 0 .. 0 - 1 /\ 0 \in 0 .. ChunkCount[x.height + 1]
  BY <1>3, <1>4, ChunkFacts
<1>6. \A k \in Heights : k > y.height => k > x.height
  BY <1>1, <1>3 DEF Heights
<1>7. QED
  BY <1>1, <1>2, <1>3, <1>4, <1>5, <1>6 DEF ProviderOK, Complete

\* The next chunk file.
LEMMA WriteKeeps ==
  ASSUME NEW x, NEW max, ProviderOK(x, max), x.job = "dump",
         x.chunks[x.height] # ChunksOf(x.height)
  PROVE  ProviderOK(WriteChunk(x), max)
<1> DEFINE y == WriteChunk(x)
           more == x.chunks[x.height] \cup {Cardinality(x.chunks[x.height])}
<1>0. x \in Provider /\ x.height \in Heights /\ x.height \notin x.reg
  BY DEF ProviderOK
<1>1. PICK n \in 0 .. ChunkCount[x.height] : x.chunks[x.height] = 0 .. n - 1
  BY DEF ProviderOK
<1>2. n \in Nat /\ n + 1 \in 0 .. ChunkCount[x.height] /\ Cardinality(x.chunks[x.height]) = n
  BY <1>0, <1>1, ChunkFacts
<1>3. more = 0 .. (n + 1) - 1
  BY <1>1, <1>2
<1>4. more \in SUBSET Chunk
  BY <1>0, <1>2, <1>3, ChunkFacts
<1>5. y = [x EXCEPT !.chunks = [x.chunks EXCEPT ![x.height] = more]]
  BY DEF WriteChunk
<1>6. [x.chunks EXCEPT ![x.height] = more] \in [Heights -> SUBSET Chunk]
  BY <1>0, <1>4, ProviderFields
<1>7. /\ y.height = x.height /\ y.header = x.header /\ y.reg = x.reg /\ y.job = x.job
      /\ y.chunks = [x.chunks EXCEPT ![x.height] = more] /\ y \in Provider
  BY <1>0, <1>5, <1>6 DEF Provider
<1>8. y.chunks[x.height] = more /\ \A k \in Heights : k # x.height => y.chunks[k] = x.chunks[k]
  BY <1>0, <1>7, ProviderFields
<1>9. x.height \in Nat /\ x.reg \subseteq Heights
  BY <1>0, ProviderFields DEF Heights
<1>10. \A k \in Heights : k > y.height => y.chunks[k] = {} /\ k \notin y.header \cup y.reg
  <2>1. \A k \in Heights : k > x.height => k # x.height
    BY <1>9 DEF Heights
  <2>2. QED
    BY <1>7, <1>8, <2>1 DEF ProviderOK
<1>11. y.header = y.reg /\ \A h \in y.reg : Complete(y, h)
  BY <1>0, <1>7, <1>8, <1>9 DEF ProviderOK, Complete
<1>12. \E m \in 0 .. ChunkCount[y.height] : y.chunks[y.height] = 0 .. m - 1
  BY <1>2, <1>3, <1>7, <1>8
<1>13. QED
  BY <1>0, <1>7, <1>10, <1>11, <1>12 DEF ProviderOK

\* A dump that fails.
LEMMA DumpFailsKeeps ==
  ASSUME NEW x, NEW max, ProviderOK(x, max), x.job = "dump"
  PROVE  ProviderOK(DumpFails(x), max)
<1> DEFINE y == DumpFails(x)
           less == [x.chunks EXCEPT ![x.height] = {}]
<1>0. x \in Provider /\ x.height \in Heights /\ x.height \notin x.reg
  BY DEF ProviderOK
<1>1. y = [[x EXCEPT !.chunks = less] EXCEPT !.job = "idle"]
  BY DEF DumpFails
<1>2. less \in [Heights -> SUBSET Chunk]
  BY <1>0, ProviderFields
<1>3. /\ y.height = x.height /\ y.header = x.header /\ y.reg = x.reg /\ y.job = "idle"
      /\ y.chunks = less /\ y \in Provider
  BY <1>0, <1>1, <1>2 DEF Provider
<1>4. \A k \in Heights : k # x.height => y.chunks[k] = x.chunks[k]
  BY <1>0, <1>3, ProviderFields
<1>5. x.height \in Nat /\ x.reg \subseteq Heights
  BY <1>0, ProviderFields DEF Heights
<1>6. QED
  BY <1>0, <1>3, <1>4, <1>5 DEF ProviderOK, Complete, Heights

\* The header, and the snapshot is registered.
LEMMA RegisterKeeps ==
  ASSUME NEW x, NEW max, ProviderOK(x, max), x.job = "dump",
         x.chunks[x.height] = ChunksOf(x.height)
  PROVE  ProviderOK(RegisterSnapshot(x, max), max)
<1> DEFINE y == RegisterSnapshot(x, max)
           reg == x.reg \cup {x.height}
<1>0. x \in Provider /\ x.height \in Heights /\ x.header = x.reg
  BY DEF ProviderOK
<1>1. /\ y.height = x.height /\ y.header = reg /\ y.reg = reg /\ y.chunks = x.chunks
      /\ y.job = (IF Cardinality(reg) > max THEN "prune" ELSE "idle")
      /\ y \in Provider
  BY <1>0, ProviderFields DEF RegisterSnapshot, Provider
<1>2. \A h \in reg : Complete(y, h)
  BY <1>1 DEF ProviderOK, Complete
<1>3. \A k \in Heights : k > x.height => k \notin reg /\ y.chunks[k] = {}
  BY <1>0, <1>1 DEF ProviderOK, Heights
<1>4. QED
  BY <1>1, <1>2, <1>3 DEF ProviderOK

\* A chunk file of the oldest snapshot goes.
LEMMA RemoveChunkKeeps ==
  ASSUME NEW x, NEW max, NEW c, ProviderOK(x, max), x.job = "prune"
  PROVE  ProviderOK(RemoveChunk(x, c), max)
<1> DEFINE y == RemoveChunk(x, c)
           low == Min(x.reg)
           less == [x.chunks EXCEPT ![low] = x.chunks[low] \ {c}]
<1>0. x \in Provider /\ x.reg # {} /\ x.reg \in SUBSET Heights
  BY ProviderFields DEF ProviderOK
<1>1. low \in x.reg
  BY <1>0, HeightSets
<1>2. less \in [Heights -> SUBSET Chunk]
  BY <1>0, <1>1, ProviderFields
<1>3. y = [x EXCEPT !.chunks = less]
  BY DEF RemoveChunk
<1>4. /\ y.height = x.height /\ y.header = x.header /\ y.reg = x.reg /\ y.job = x.job
      /\ y.chunks = less /\ y \in Provider
  BY <1>0, <1>2, <1>3 DEF Provider
<1>5. \A k \in Heights : k # low => y.chunks[k] = x.chunks[k]
  BY <1>0, <1>1, <1>4, ProviderFields
<1>6. ~(low > x.height)
  BY <1>0, <1>1 DEF ProviderOK
<1>7. \A k \in Heights : k > x.height => k # low
  BY <1>6
<1>8. QED
  BY <1>0, <1>4, <1>5, <1>7 DEF ProviderOK, Complete

\* The header of the oldest snapshot goes.
LEMMA RemoveHeaderKeeps ==
  ASSUME NEW x, NEW max, ProviderOK(x, max), x.job = "prune"
  PROVE  ProviderOK(RemoveHeader(x), max)
<1> DEFINE y == RemoveHeader(x)
<1>0. x \in Provider
  BY DEF ProviderOK
<1>1. /\ y.height = x.height /\ y.header = x.header \ {Min(x.reg)} /\ y.reg = x.reg
      /\ y.job = x.job /\ y.chunks = x.chunks /\ y \in Provider
  BY <1>0, ProviderFields DEF RemoveHeader, Provider
<1>2. QED
  BY <1>1 DEF ProviderOK, Complete

\* The deleted snapshot leaves the registered ones.
LEMMA UnregisterKeeps ==
  ASSUME NEW x, NEW max \in Nat, ProviderOK(x, max), x.job = "prune", Min(x.reg) \notin x.header
  PROVE  ProviderOK(Unregister(x, max), max)
<1> DEFINE y == Unregister(x, max)
           reg == x.reg \ {Min(x.reg)}
<1>0. x \in Provider /\ x.reg \in SUBSET Heights /\ x.reg # {}
  BY ProviderFields DEF ProviderOK
<1>1. Min(x.reg) \in x.reg
  BY <1>0, HeightSets
<1>2. x.header = reg
  BY <1>1 DEF ProviderOK
<1>3. /\ y.height = x.height /\ y.header = reg /\ y.reg = reg /\ y.chunks = x.chunks
      /\ y.job = (IF Cardinality(reg) > max THEN "prune" ELSE "idle")
      /\ y \in Provider
  BY <1>0, <1>2, ProviderFields DEF Unregister, Provider
<1>4. Cardinality(reg) > max => reg # {}
  BY FS_EmptySet
<1>5. QED
  BY <1>3, <1>4 DEF ProviderOK, Complete

\* The process dies, in the middle of whatever it does.
LEMMA DieKeeps ==
  ASSUME NEW x, NEW max \in Nat, ProviderOK(x, max), x.job # "down"
  PROVE  ProviderOK(Die(x), max)
<1> DEFINE y == Die(x)
<1>0. x \in Provider /\ x.reg \in SUBSET Heights /\ x.header \in SUBSET Heights
      /\ x.job \in {"idle", "dump", "prune"}
  BY ProviderFields DEF ProviderOK
<1>1. /\ y.height = x.height /\ y.header = x.header /\ y.reg = {} /\ y.chunks = x.chunks
      /\ y.job = "down" /\ y \in Provider
  BY <1>0 DEF Die, Provider
<1>2. ASSUME NEW h \in x.header
      PROVE  Complete(x, h) \/ Cardinality({k \in x.header : k > h}) >= max
  <2>1. CASE x.job # "prune" \/ h # Min(x.reg)
    BY <1>0, <1>2, <2>1 DEF ProviderOK
  <2>2. CASE x.job = "prune" /\ h = Min(x.reg)
    <3>1. x.reg # {} /\ Cardinality(x.reg) > max /\ x.header = x.reg
      BY <1>2, <2>2 DEF ProviderOK
    <3>2. \A k \in x.reg : h <= k
      BY <1>0, <2>2, <3>1, HeightSets
    <3>3. {k \in x.header : k > h} = x.reg \ {h}
      BY <1>0, <3>1, <3>2 DEF Heights
    <3>4. Cardinality(x.reg \ {h}) = Cardinality(x.reg) - 1 /\ Cardinality(x.reg) \in Nat
      BY <1>0, <1>2, <3>1, HeightSets
    <3>5. QED
      BY <3>1, <3>3, <3>4
  <2>3. QED
    BY <2>1, <2>2
<1>3. \A k \in Heights : k > x.height => x.chunks[k] = {} /\ k \notin x.header
  BY DEF ProviderOK
<1>4. QED
  BY <1>1, <1>2, <1>3 DEF ProviderOK, Complete

\* A start registers what has a header and deletes the oldest above the limit.
LEMMA LoadKeeps ==
  ASSUME NEW x, NEW max \in Nat, ProviderOK(x, max), x.job = "down"
  PROVE  ProviderOK(LoadSnapshots(x, max), max)
<1> DEFINE y == LoadSnapshots(x, max)
           old == {h \in x.header : ~(Cardinality({k \in x.header : k > h}) < max)}
           kept == [h \in Heights |-> IF h \in old THEN {} ELSE x.chunks[h]]
<1>0. x \in Provider /\ x.header \in SUBSET Heights /\ x.chunks \in [Heights -> SUBSET Chunk]
  BY ProviderFields DEF ProviderOK
<1>1. /\ y.height = x.height /\ y.header = x.header \ old /\ y.reg = x.header \ old
      /\ y.chunks = kept /\ y.job = "idle" /\ y \in Provider
  BY <1>0 DEF LoadSnapshots, Provider
<1>2. ASSUME NEW h \in x.header \ old PROVE kept[h] = ChunksOf(h)
  <2>1. Cardinality({k \in x.header : k > h}) < max
    BY <1>2
  <2>2. Cardinality({k \in x.header : k > h}) \in Nat
    <3>1. {k \in x.header : k > h} \in SUBSET Heights
      BY <1>0
    <3>2. QED
      BY <3>1, HeightSets
  <2>3. x.chunks[h] = ChunksOf(h)
    BY <1>2, <2>1, <2>2 DEF ProviderOK, Complete
  <2>4. QED
    BY <1>0, <1>2, <2>3
<1>3. \A k \in Heights : k > x.height => kept[k] = {} /\ k \notin x.header
  BY DEF ProviderOK
<1>4. QED
  BY <1>1, <1>2, <1>3 DEF ProviderOK, Complete

\* A step of a provider keeps its directory in order, and a step of the node
\* leaves the providers alone.
LEMMA ProvidersStep ==
  ProvidersInv /\ [Next]_vars /\ prov \in [Providers -> Provider]
    => ProvidersInv' /\ prov' \in [Providers -> Provider]
<1> SUFFICES ASSUME ProvidersInv, [Next]_vars, prov \in [Providers -> Provider]
             PROVE  ProvidersInv' /\ prov' \in [Providers -> Provider]
  OBVIOUS
<1>1. \A p \in Providers : MaxSnapshots[p] \in Nat /\ EndHeight[p] \in 0 .. MaxHeight
  BY StateSyncAssumption
<1>2. ASSUME UNCHANGED prov PROVE ProvidersInv' /\ prov' \in [Providers -> Provider]
  BY <1>2 DEF ProvidersInv
<1>3. ASSUME NEW p \in Providers, NEW y, Do(p, y), ProviderOK(y, MaxSnapshots[p])
      PROVE  ProvidersInv' /\ prov' \in [Providers -> Provider]
  <2>1. prov' = [prov EXCEPT ![p] = y] /\ y \in Provider
    BY <1>3 DEF Do, ProviderOK
  <2>2. \A q \in Providers : prov'[q] = IF q = p THEN y ELSE prov[q]
    BY <2>1
  <2>3. QED
    BY <1>3, <2>1, <2>2 DEF ProvidersInv
<1>4. ASSUME NEW p \in Providers, ProviderStep(p) \/ ProviderDies(p)
      PROVE  ProvidersInv' /\ prov' \in [Providers -> Provider]
  <2>1. ProviderOK(prov[p], MaxSnapshots[p]) /\ MaxSnapshots[p] \in Nat
    BY <1>1 DEF ProvidersInv
  <2>2. CASE ProviderCommits(p)
    <3>1. prov[p].height < MaxHeight
      <4>1. prov[p].height \in 0 .. MaxHeight
        BY ProviderFields
      <4>2. QED
        BY <1>1, <2>2, <4>1, SnapshotAssumption DEF ProviderCommits
    <3>2. QED
      BY <1>3, <2>1, <2>2, <3>1, CommitKeeps DEF ProviderCommits
  <2>3. CASE ProviderDumps(p)
    BY <1>3, <2>1, <2>3, WriteKeeps, RegisterKeeps DEF ProviderDumps
  <2>4. CASE ProviderPrunes(p)
    BY <1>3, <2>1, <2>4, RemoveChunkKeeps, RemoveHeaderKeeps, UnregisterKeeps DEF ProviderPrunes
  <2>5. CASE ProviderStarts(p)
    BY <1>3, <2>1, <2>5, LoadKeeps DEF ProviderStarts
  <2>6. CASE ProviderDies(p)
    BY <1>3, <2>1, <2>6, DieKeeps, DumpFailsKeeps DEF ProviderDies
  <2>7. QED
    BY <1>4, <2>2, <2>3, <2>4, <2>5, <2>6 DEF ProviderStep
<1>5. CASE UNCHANGED vars
  BY <1>2, <1>5 DEF vars
<1>6. CASE Next /\ ~\E p \in Providers : ProviderStep(p) \/ ProviderDies(p)
  <2>1. UNCHANGED prov
    BY <1>6 DEF Next, StartStep, DownloadStep, RestoreStep, Catalog, Start, Wiped, DoStatesync,
       Engine, DiscoveryTimeout, NoSnapshot, FetchEnds, SelectSnapshot, Restore, Import,
       VerifyState, FetchAnchor, ClearRestoreIncomplete, Verify, FetchChunk, FetchBreaks,
       ImportFails, AnchorFails, Kill, PowerLoss
  <2>2. QED
    BY <1>2, <2>1
<1>7. QED
  BY <1>4, <1>5, <1>6

\* The directory of every provider stays in order.
THEOREM ProvidersInvariant == Spec => [](ProvidersInv /\ prov \in [Providers -> Provider])
<1> DEFINE Inv == ProvidersInv /\ prov \in [Providers -> Provider]
<1>1. Init => Inv
  <2> SUFFICES ASSUME Init PROVE Inv
    OBVIOUS
  <2> DEFINE taken(p) == {h \in 1 .. StartHeight[p] : StartHeight[p] - h < MaxSnapshots[p]}
  <2>1. ASSUME NEW p \in Providers
        PROVE  /\ ProviderOK(Holding(StartHeight[p], taken(p)), MaxSnapshots[p])
               /\ prov[p] = Holding(StartHeight[p], taken(p))
    <3> DEFINE x == Holding(StartHeight[p], taken(p))
    <3>1. StartHeight[p] \in 0 .. MaxHeight /\ taken(p) \in SUBSET Heights
      BY StateSyncAssumption, SnapshotAssumption DEF Heights
    <3>2. \A h \in Heights : ChunksOf(h) \in SUBSET Chunk
      BY DEF Chunk
    <3>3. /\ x.height = StartHeight[p] /\ x.header = taken(p) /\ x.reg = taken(p) /\ x.job = "idle"
          /\ x.chunks = [k \in Heights |-> IF k \in taken(p) THEN ChunksOf(k) ELSE {}]
      BY DEF Holding
    <3>4. x \in Provider
      BY <3>1, <3>2 DEF Holding, Provider
    <3>5. \A k \in Heights : k > x.height => k \notin taken(p)
      BY <3>1, <3>3 DEF Heights
    <3>6. \A h \in taken(p) : x.chunks[h] = ChunksOf(h)
      BY <3>1, <3>3
    <3>7. ProviderOK(x, MaxSnapshots[p])
      BY <3>3, <3>4, <3>5, <3>6 DEF ProviderOK, Complete
    <3>8. QED
      BY <3>7 DEF Init
  <2>2. \A p \in Providers : Holding(StartHeight[p], taken(p)) \in Provider
    BY <2>1 DEF ProviderOK
  <2>3. QED
    BY <2>1, <2>2 DEF Init, ProvidersInv
<1>2. Inv /\ [Next]_vars => Inv'
  BY ProvidersStep
<1>3. QED
  BY <1>1, <1>2, PTL DEF Spec

\* Whenever a provider died, in the middle of a dump or of a deletion, what it
\* offers afterwards has all of its files (deleteOldestSnapshot, loadSnapshots).
THEOREM OffersComplete == Spec => []ServesComplete
<1>1. ProvidersInv /\ prov \in [Providers -> Provider] => ServesComplete
  BY DEF ProvidersInv, ProviderOK, ServesComplete, Serves, Complete, Provider
<1>2. QED
  BY <1>1, ProvidersInvariant, PTL

-----------------------------------------------------------------------------
(* The types                                                               *)

\* The types of the rest of the node, with the reason why retry is bounded: a
\* node that gave up looks for snapshots only after another start.
RestTypes ==
  /\ pc \in Syncing \cup {"off", "wiped", "decide", "engine", "restore", "import", "check",
                          "anchor", "clear", "up"}
  /\ final \in [Chunk -> Snapshot \cup {None}]
  /\ asked \subseteq Providers
  /\ cur \in Snapshot \cup {None}
  /\ tried \in [Chunk -> SUBSET Providers]
  /\ retry \in 0 .. MaxRetries + 1
  /\ retry > MaxRetries => pc \in {"engine", "up"}

\* The values that a stopped node comes back with.
LEMMA Forgotten ==
  /\ NoFiles \in [Chunk -> Snapshot \cup {None}]
  /\ NothingTried \in [Chunk -> SUBSET Providers]
  /\ 0 \in 0 .. MaxRetries + 1 /\ ~(0 > MaxRetries) /\ MaxRetries \in Nat
<1>1. MaxRetries \in Nat
  BY StateSyncAssumption
<1>2. QED
  BY <1>1 DEF NoFiles, NothingTried

\* Every step keeps the types of the rest.
LEMMA RestTypesStep ==
  NodeTypes /\ DownloadInv /\ RestTypes /\ [Next]_vars => RestTypes'
<1> SUFFICES ASSUME NodeTypes, DownloadInv, RestTypes, [Next]_vars PROVE RestTypes'
  OBVIOUS
<1> USE DEF RestTypes, Syncing
<1>1. CASE UNCHANGED <<pc, disk, files, memory, stops, losses>>
  BY <1>1 DEF files, memory
<1>2. CASE Start
  BY <1>2, Forgotten DEF Start, disk, files, memory, faults
<1>3. CASE Wiped
  BY <1>3, Forgotten DEF Wiped, disk, files, memory, faults
<1>4. CASE DoStatesync
  BY <1>4, Forgotten DEF DoStatesync, disk, files, memory, faults
<1>5. CASE Engine
  BY <1>5, Forgotten DEF Engine, Exit, Forget, disk, files, memory, faults
<1>6. CASE DiscoveryTimeout
  BY <1>6, Forgotten DEF DiscoveryTimeout, disk, files, memory, faults
<1>7. CASE NoSnapshot
  BY <1>7, Forgotten DEF NoSnapshot, GivesUp, disk, files, memory, faults
<1>8. CASE FetchEnds
  BY <1>8, Forgotten DEF FetchEnds, disk, files, memory, faults
<1>9. ASSUME NEW s \in Snapshot, SelectSnapshot(s) PROVE RestTypes'
  BY <1>9, Forgotten DEF SelectSnapshot, disk, files, memory, faults
<1>10. CASE Restore
  BY <1>10, Forgotten DEF Restore, Exit, Forget, disk, files, memory, faults
<1>11. CASE Import
  BY <1>11, Forgotten DEF Import, disk, files, memory, faults
<1>12. CASE VerifyState
  BY <1>12, Forgotten DEF VerifyState, Exit, Forget, disk, files, memory, faults
<1>13. CASE FetchAnchor
  BY <1>13, Forgotten DEF FetchAnchor, disk, files, memory, faults
<1>14. CASE ClearRestoreIncomplete
  BY <1>14, Forgotten DEF ClearRestoreIncomplete, disk, files, memory, faults
<1>15. ASSUME NEW reach \in SUBSET Trusted, Verify(reach) PROVE RestTypes'
  BY <1>15, Forgotten DEF Verify, disk, files, memory, faults
<1>16. ASSUME NEW c \in Chunk, NEW p \in Providers, FetchChunk(c, p) PROVE RestTypes'
  BY <1>16, Forgotten DEF FetchChunk, Fetching, DownloadInv, disk, files, memory, faults
<1>17. ASSUME NEW c \in Chunk, NEW p \in Providers, FetchBreaks(c, p) PROVE RestTypes'
  BY <1>17, Forgotten DEF FetchBreaks, disk, files, memory, faults
<1>18. ASSUME NEW p \in Providers, Catalog(p) PROVE RestTypes'
  BY <1>18, Forgotten DEF Catalog, disk, files, memory, faults
<1>19. CASE ImportFails
  BY <1>19, Forgotten DEF ImportFails, Exit, Forget, disk, files, memory, faults
<1>20. CASE AnchorFails
  BY <1>20, Forgotten DEF AnchorFails, Exit, Forget, disk, files, memory, faults
<1>21. CASE Kill
  BY <1>21, Forgotten DEF Kill, Exit, Forget, disk, files, memory, faults
<1>22. CASE PowerLoss
  BY <1>22, Forgotten DEF PowerLoss, Exit, Forget, disk, files, memory, faults
<1>23. QED
  BY <1>1, <1>2, <1>3, <1>4, <1>5, <1>6, <1>7, <1>8, <1>9, <1>10, <1>11, <1>12, <1>13, <1>14, <1>15, <1>16, <1>17, <1>18, <1>19, <1>20, <1>21, <1>22, NextSplit

\* The node and its providers keep their shape, and no more than MaxRetries + 1
\* discoveries are made (DiscoverSnapshots).
THEOREM TypesKept == Spec => []TypeOK
<1> DEFINE Provs == ProvidersInv /\ prov \in [Providers -> Provider]
<1>1. Init => RestTypes
  BY Forgotten DEF Init, RestTypes, Syncing
<1>2. RestTypes /\ SyncInv /\ [Next]_vars => RestTypes'
  BY RestTypesStep DEF SyncInv
<1>3. Spec => []RestTypes
  BY <1>1, <1>2, SyncInvariant, PTL DEF Spec
<1>4. Spec => [](prov \in [Providers -> Provider])
  <2>1. Provs => prov \in [Providers -> Provider]
    OBVIOUS
  <2>2. QED
    BY <2>1, ProvidersInvariant, PTL
<1>5. SyncInv /\ RestTypes /\ prov \in [Providers -> Provider] => TypeOK
  BY DEF SyncInv, NodeTypes, RestTypes, TypeOK, Database, TmpFile
<1>6. QED
  BY <1>3, <1>4, <1>5, SyncInvariant, PTL
=============================================================================
