------------------------------ MODULE StateSync ------------------------------
(***************************************************************************)
(* A new node takes its database from a snapshot of the network.  It asks  *)
(* peers for their catalogs, takes the highest snapshot, has its metadata  *)
(* confirmed by a trusted provider, fetches the chunks, checks the hash of *)
(* the whole dump, pipes it through psql, compares the app hash, and       *)
(* stores the block of the snapshot's height, the anchor, in its block     *)
(* store.  A marker file says that a restore has begun and has not been    *)
(* accepted; a start that finds it drops what was restored.                *)
(*                                                                         *)
(* A snapshot is a height and the state that was dumped: "chain" is the    *)
(* state that the blocks lead to, "other" stands for any other one.  The   *)
(* hash of a dump or of a chunk tells two snapshots apart, and the app     *)
(* hash tells two states apart.                                            *)
(***************************************************************************)
EXTENDS SnapshotStore, Sequences

CONSTANTS
  Providers,        \* nodes that serve snapshots
  TrustedProviders, \* the configured sequence of trusted ones
  DumpState,        \* the state that a provider dumps at a height
  MaxSnapshots,     \* of each provider
  StartHeight,      \* the height of each provider at the beginning
  EndHeight,        \* bound: and at the end
  MaxRetries,       \* discoveries without a usable snapshot
  MaxStops,         \* bound: how often the new node is stopped
  MaxDeaths         \* bound: deaths of each provider

ASSUME StateSyncAssumption ==
  /\ TrustedProviders \in Seq(Providers) /\ Len(TrustedProviders) > 0
  /\ DumpState \in [Providers -> [Heights -> {"chain", "other"}]]
  /\ MaxSnapshots \in [Providers -> Nat \ {0}]
  /\ StartHeight \in [Providers -> 0 .. MaxHeight]
  /\ EndHeight \in [Providers -> 0 .. MaxHeight]
  /\ MaxDeaths \in [Providers -> Nat] /\ {MaxRetries, MaxStops} \subseteq Nat

VARIABLES
  prov,    \* the providers
  pc,      \* where the new node is
  marker,  \* the file restore-incomplete
  db,      \* its database
  anchor,  \* the height of the block in its block store, 0 for none
  final,   \* chunk files by index: the snapshot they are of
  tmp,     \* temporary chunk files: the snapshot and how much of the chunk
  pool,    \* discovered snapshots with the peers that advertised them
  asked,   \* peers whose catalog is on its way
  cur,     \* currentSnapshot
  best,    \* the snapshot of this round of the download
  tried,   \* by chunk, the peers that have failed to send it in this round
  retry,   \* discoveries so far
  stops,   \* how often the node was stopped
  losses,  \* how often by a power loss
  deaths   \* how often each provider died

disk == <<marker, db, anchor>>
files == <<final, tmp>>
memory == <<pool, asked, cur, best, tried, retry>>
faults == <<stops, losses, deaths>>
vars == <<prov, pc, disk, files, memory, faults>>

None == [height |-> 0, state |-> "none"]
Snapshot == [height : Heights, state : {"chain", "other"}]
SnapshotOf(p, h) == [height |-> h, state |-> DumpState[p][h]]

Trusted == {TrustedProviders[i] : i \in DOMAIN TrustedProviders}

Empty == [stage |-> "empty", of |-> None]
NoTmp == [of |-> None, size |-> "none"]
NoFiles == [c \in Chunk |-> None]
NoTmps == [c \in Chunk |-> NoTmp]
NoPool == [s \in Snapshot |-> {}]
NothingTried == [c \in Chunk |-> {}]

Forget ==
  /\ pool' = NoPool /\ asked' = {}
  /\ cur' = None /\ best' = None
  /\ tried' = NothingTried /\ retry' = 0

\* The process is gone, whether it failed or was stopped.
Exit == pc' = "off" /\ Forget

Init ==
  /\ prov = [p \in Providers |->
       Holding(StartHeight[p],
               {h \in 1 .. StartHeight[p] : StartHeight[p] - h < MaxSnapshots[p]})]
  /\ pc = "off" /\ marker = FALSE /\ db = Empty /\ anchor = 0
  /\ final = NoFiles /\ tmp = NoTmps
  /\ pool = NoPool /\ asked = {}
  /\ cur = None /\ best = None /\ tried = NothingTried /\ retry = 0
  /\ stops = 0 /\ losses = 0 /\ deaths = [p \in Providers |-> 0]

-----------------------------------------------------------------------------
(* Providers.                                                              *)

Do(p, next) ==
  /\ prov' = [prov EXCEPT ![p] = next]
  /\ UNCHANGED <<pc, disk, files, memory>>

ProviderCommits(p) ==
  /\ prov[p].job = "idle" /\ prov[p].height < EndHeight[p]
  /\ Do(p, CommitProviderBlock(prov[p])) /\ UNCHANGED faults

ProviderDumps(p) ==
  /\ prov[p].job = "dump" /\ UNCHANGED faults
  /\ IF prov[p].chunks[prov[p].height] # ChunksOf(prov[p].height)
     THEN Do(p, WriteChunk(prov[p]))
     ELSE Do(p, RegisterSnapshot(prov[p], MaxSnapshots[p]))

ProviderPrunes(p) ==
  /\ prov[p].job = "prune" /\ UNCHANGED faults
  /\ LET h == Min(prov[p].reg)
     IN \/ \E c \in prov[p].chunks[h] : Do(p, RemoveChunk(prov[p], c))
        \/ h \in prov[p].header /\ Do(p, RemoveHeader(prov[p]))
        \/ /\ prov[p].chunks[h] = {} /\ h \notin prov[p].header
           /\ Do(p, Unregister(prov[p], MaxSnapshots[p]))

\* The bound on the deaths covers failed dumps as well.
ProviderDies(p) ==
  /\ deaths[p] < MaxDeaths[p] /\ prov[p].job # "down"
  /\ \/ Do(p, Die(prov[p]))
     \/ prov[p].job = "dump" /\ Do(p, DumpFails(prov[p]))
  /\ deaths' = [deaths EXCEPT ![p] = @ + 1] /\ UNCHANGED <<stops, losses>>

ProviderStarts(p) ==
  /\ prov[p].job = "down"
  /\ Do(p, LoadSnapshots(prov[p], MaxSnapshots[p])) /\ UNCHANGED faults

-----------------------------------------------------------------------------
(* The start of the new node.                                              *)

\* NewStateSyncService deletes the received files; isDbInitialized looks at
\* the marker first, then at the schemas: all of them there is initialized,
\* some of them is a leftover to be dropped.
Start ==
  /\ pc = "off"
  /\ final' = NoFiles /\ tmp' = NoTmps
  /\ \/ marker /\ db' = Empty /\ pc' = "wiped"
     \/ ~marker /\ db.stage \in {"half", "whole"} /\ db' = db /\ pc' = "engine"
     \/ ~marker /\ db.stage \in {"empty", "few"} /\ db' = Empty /\ pc' = "decide"
  /\ UNCHANGED <<prov, marker, anchor, memory, faults>>

\* The schemas are dropped before the marker is removed.
Wiped ==
  /\ pc = "wiped"
  /\ marker' = FALSE /\ pc' = "decide"
  /\ UNCHANGED <<prov, db, anchor, files, memory, faults>>

\* DoStatesync does nothing when there is a block in the block store.
DoStatesync ==
  /\ pc = "decide"
  /\ IF anchor # 0 THEN pc' = "engine" /\ UNCHANGED asked
     ELSE pc' = "discover" /\ asked' = Providers
  /\ UNCHANGED <<prov, disk, files, pool, cur, best, tried, retry, faults>>

\* initializeState of the consensus engine: a database that is ahead of the
\* block store without an intent of this node stops it.  A database behind
\* the block store replays what is there and gets the rest from the network.
Engine ==
  /\ pc = "engine"
  /\ IF db.of.height > anchor THEN Exit ELSE pc' = "up" /\ UNCHANGED memory
  /\ UNCHANGED <<prov, disk, files, faults>>

-----------------------------------------------------------------------------
(* Discovery and download.                                                 *)

Syncing == {"discover", "select", "verify", "fetch"}

\* requestSnapshotCatalogs runs in its own goroutine, which outlives the
\* discovery timeout.  The blacklist is not looked at.
Catalog(p) ==
  /\ pc \in Syncing /\ p \in asked
  /\ \/ /\ Serves(prov[p])
        /\ pool' = [s \in Snapshot |-> pool[s] \cup
              {q \in {p} : HasSnapshot(prov[p], s.height) /\ s = SnapshotOf(p, s.height)}]
     \/ UNCHANGED pool
  /\ asked' = asked \ {p}
  /\ UNCHANGED <<prov, pc, disk, files, cur, best, tried, retry, faults>>

DiscoveryTimeout ==
  /\ pc = "discover" /\ pc' = "select"
  /\ UNCHANGED <<prov, disk, files, memory, faults>>

Known == {s \in Snapshot : pool[s] # {}}

\* Mutant: no limit.
GivesUpNever(n) == FALSE

\* Mutant: off by one.
GivesUpEarly(n) == n >= MaxRetries

\* The head of the loop of DiscoverSnapshots.
GivesUp(n) == n > MaxRetries

\* An empty pool: the next discovery, or block sync from the genesis.
NoSnapshot ==
  /\ pc = "select" /\ Known = {}
  /\ retry' = retry + 1
  /\ IF GivesUp(retry') THEN pc' = "engine" /\ asked' = {}
     ELSE pc' = "discover" /\ asked' = Providers
  /\ UNCHANGED <<prov, disk, files, pool, cur, best, tried, faults>>

\* Mutant: temporary files of another snapshot stay.
SelectSnapshotKeeps(s) ==
  /\ pc = "select" /\ s \in Known /\ \A q \in Known : q.height <= s.height
  /\ best' = s /\ cur' = s /\ tmp' = tmp
  /\ pc' = "verify"
  /\ UNCHANGED <<prov, disk, final, pool, asked, tried, retry, faults>>

\* bestSnapshot; another snapshot than the last one loses the temporary files
\* of that one, and keeps its final files.
SelectSnapshot(s) ==
  /\ pc = "select" /\ s \in Known /\ \A q \in Known : q.height <= s.height
  /\ best' = s /\ cur' = s
  /\ tmp' = IF cur = s THEN tmp ELSE NoTmps
  /\ pc' = "verify"
  /\ UNCHANGED <<prov, disk, final, pool, asked, tried, retry, faults>>

\* VerifySnapshot when only the providers of reach can be reached: the first
\* trusted provider that has a snapshot of this height decides.  Nobody can
\* be reached: try again.  Somebody has none and nobody has one: invalid.
VerifySnapshot(s, reach) ==
  LET t == TrustedProviders
      has == {i \in DOMAIN t : t[i] \in reach /\ HasSnapshot(prov[t[i]], s.height)}
  IN CASE has # {} -> IF SnapshotOf(t[Min(has)], s.height) = s THEN "valid" ELSE "invalid"
       [] \A i \in DOMAIN t : t[i] \notin reach -> "failed"
       [] OTHER -> "invalid"

\* Mutant: the snapshot stays in the pool.
BlacklistSnapshotNot(s) == pool

BlacklistSnapshot(s) == [pool EXCEPT ![s] = {}]

\* Invalid: the snapshot leaves the pool, and its files, temporary and final,
\* are removed.
Verify(reach) ==
  /\ pc = "verify" /\ \A p \in reach : Serves(prov[p])
  /\ \/ /\ VerifySnapshot(best, reach) = "valid"
        /\ pc' = "fetch" /\ tried' = NothingTried
        /\ UNCHANGED <<pool, files>>
     \/ /\ VerifySnapshot(best, reach) = "invalid"
        /\ pc' = "select"
        /\ pool' = BlacklistSnapshot(best)
        /\ final' = [c \in Chunk |-> IF c \in ChunksOf(best.height) THEN None ELSE final[c]]
        /\ tmp' = [c \in Chunk |-> IF c \in ChunksOf(best.height) THEN NoTmp ELSE tmp[c]]
        /\ UNCHANGED tried
     \/ /\ VerifySnapshot(best, reach) = "failed"
        /\ pc' = "select" /\ UNCHANGED <<pool, files, tried>>
  /\ UNCHANGED <<prov, disk, asked, cur, best, retry, faults>>

Needed == {c \in ChunksOf(best.height) : final[c] = None}
GivenUp(c) == pool[best] \subseteq tried[c]
Fetching(c, p) ==
  /\ pc = "fetch" /\ c \in Needed /\ p \in pool[best] \ tried[c]
  /\ \A d \in Needed : ~GivenUp(d)

\* downloadChunkResumable: the stream ends.  What is there is hashed, and
\* either becomes the final file or is removed.  A peer without the chunk,
\* or asked for the bytes behind its end, sends one byte in answer.
FetchChunk(c, p) ==
  /\ Fetching(c, p) /\ Serves(prov[p])
  /\ IF /\ HasChunk(prov[p], best.height, c)
        /\ tmp[c].size # "full" /\ tmp[c].of \in {None, best}
        /\ SnapshotOf(p, best.height) = best
     THEN final' = [final EXCEPT ![c] = best] /\ UNCHANGED tried
     ELSE tried' = [tried EXCEPT ![c] = @ \cup {p}] /\ UNCHANGED final
  /\ tmp' = [tmp EXCEPT ![c] = NoTmp]
  /\ UNCHANGED <<prov, pc, disk, pool, asked, cur, best, retry, faults>>

\* The stream breaks, before a byte was sent, in the middle, or behind the
\* last byte.  The temporary file stays, and the peer is asked again until
\* maxRetries is reached.
FetchBreaks(c, p) ==
  /\ Fetching(c, p)
  /\ \/ UNCHANGED tmp
     \/ /\ Serves(prov[p]) /\ HasChunk(prov[p], best.height, c)
        /\ tmp[c].size # "full"
        /\ \E size \in {"part", "full"} :
             tmp' = [tmp EXCEPT ![c] = [of |-> IF @.of = None THEN SnapshotOf(p, best.height)
                                               ELSE @.of, size |-> size]]
  /\ \/ tried' = [tried EXCEPT ![c] = @ \cup {p}]
     \/ UNCHANGED tried
  /\ UNCHANGED <<prov, pc, disk, final, pool, asked, cur, best, retry, faults>>

\* chunkFetcher ends: all files are there, and the pool is not read again; or
\* no peer has sent a chunk, which cancels the other downloads and tries the
\* same snapshot again.
FetchEnds ==
  /\ pc = "fetch"
  /\ \/ /\ Needed = {} /\ pc' = "restore" /\ cur' = None
        /\ pool' = NoPool /\ asked' = {}
     \/ /\ \E c \in Needed : GivenUp(c)
        /\ pc' = "select" /\ UNCHANGED <<pool, asked, cur>>
  /\ tried' = NothingTried
  /\ UNCHANGED <<prov, disk, files, best, retry, faults>>

-----------------------------------------------------------------------------
(* The restore.                                                            *)

\* What the received files hold together.
Dump == IF \A c \in ChunksOf(best.height) : final[c] = best THEN best ELSE None

\* Mutant: psql starts without the marker.
RestoreUnmarked ==
  /\ pc = "restore"
  /\ IF Dump = best THEN pc' = "import" /\ UNCHANGED memory ELSE Exit
  /\ UNCHANGED <<prov, disk, files, faults>>

\* restoreDB up to psql: the dump has the hash that was confirmed, or the
\* node stops.  The marker is on disk before psql starts.
Restore ==
  /\ pc = "restore"
  /\ IF Dump = best THEN pc' = "import" /\ marker' = TRUE /\ UNCHANGED memory
     ELSE Exit /\ UNCHANGED marker
  /\ UNCHANGED <<prov, db, anchor, files, faults>>

\* Dropping the schemas after a failure may fail as well.
CleanUp == db' = Empty \/ UNCHANGED db

\* psql executes one statement after the other, each on its own: some
\* schemas, all of them with part of the rows, everything.
Import ==
  /\ pc = "import"
  /\ \/ db.stage = "empty" /\ db' = [stage |-> "few", of |-> best] /\ UNCHANGED pc
     \/ db.stage = "few" /\ db' = [stage |-> "half", of |-> best] /\ UNCHANGED pc
     \/ db.stage = "half" /\ db' = [stage |-> "whole", of |-> best] /\ pc' = "check"
  /\ UNCHANGED <<prov, marker, anchor, files, memory, faults>>

\* psql fails.  Counted as a stop, and the node stops.
ImportFails ==
  /\ pc = "import" /\ stops < MaxStops
  /\ CleanUp /\ Exit /\ stops' = stops + 1
  /\ UNCHANGED <<prov, marker, anchor, files, losses, deaths>>

\* verifyState compares with the app hash of the trusted provider, that of
\* its block at this height.
VerifyState ==
  /\ pc = "check"
  /\ \/ db.of.state = "chain" /\ pc' = "anchor" /\ UNCHANGED <<db, memory>>
     \/ db.of.state # "chain" /\ Exit /\ CleanUp
  /\ UNCHANGED <<prov, marker, anchor, files, faults>>

\* fetchAnchorBlock asks the trusted providers only, and the block must
\* commit to the app hash of the restored state.
FetchAnchor ==
  /\ pc = "anchor"
  /\ \E p \in Trusted : prov[p].job # "down" /\ prov[p].height >= db.of.height
  /\ anchor' = db.of.height /\ pc' = "clear"
  /\ UNCHANGED <<prov, marker, db, files, memory, faults>>

\* maxBlockRetries attempts without a block.  Counted as a stop.
AnchorFails ==
  /\ pc = "anchor" /\ stops < MaxStops
  /\ Exit /\ stops' = stops + 1
  /\ UNCHANGED <<prov, disk, files, losses, deaths>>

\* The restore is accepted.
ClearRestoreIncomplete ==
  /\ pc = "clear"
  /\ marker' = FALSE /\ pc' = "engine"
  /\ UNCHANGED <<prov, db, anchor, files, memory, faults>>

Kill ==
  /\ pc # "off" /\ stops < MaxStops
  /\ Exit /\ stops' = stops + 1
  /\ UNCHANGED <<prov, disk, files, losses, deaths>>

\* The marker and the database are synced to the disk, the block store is
\* not: Store leaves that to the next commit of a block.
PowerLoss ==
  /\ pc # "off" /\ stops < MaxStops
  /\ Exit /\ stops' = stops + 1 /\ losses' = losses + 1
  /\ anchor' \in {0, anchor}
  /\ UNCHANGED <<prov, marker, db, files, deaths>>

-----------------------------------------------------------------------------
ProviderStep(p) ==
  ProviderCommits(p) \/ ProviderDumps(p) \/ ProviderPrunes(p) \/ ProviderStarts(p)

StartStep == Start \/ Wiped \/ DoStatesync \/ Engine
DownloadStep ==
  \/ DiscoveryTimeout \/ NoSnapshot \/ FetchEnds
  \/ \E s \in Snapshot : SelectSnapshot(s)
RestoreStep == Restore \/ Import \/ VerifyState \/ FetchAnchor \/ ClearRestoreIncomplete

Next ==
  \/ \E p \in Providers : ProviderStep(p) \/ ProviderDies(p) \/ Catalog(p)
  \/ StartStep \/ DownloadStep \/ RestoreStep
  \/ \E reach \in SUBSET Trusted : Verify(reach)
  \/ \E c \in Chunk, p \in Providers : FetchChunk(c, p) \/ FetchBreaks(c, p)
  \/ ImportFails \/ AnchorFails \/ Kill \/ PowerLoss

Spec == Init /\ [][Next]_vars

\* Each process goes on, a stopped node is started again, and a stream that
\* is tried again and again is not broken every time.
Fairness ==
  /\ \A p \in Providers : WF_vars(ProviderStep(p))
  /\ WF_vars(StartStep) /\ WF_vars(DownloadStep) /\ WF_vars(RestoreStep)
  /\ SF_vars(Verify(Trusted))
  /\ SF_vars(\E c \in Chunk, p \in Providers : FetchChunk(c, p))
  /\ \A p \in Providers : SF_vars(\E c \in Chunk : tmp[c].size # "full" /\ FetchChunk(c, p))

FairSpec == Spec /\ Fairness

-----------------------------------------------------------------------------
(* Properties.                                                             *)

\* Every variable keeps its shape, and no more than MaxRetries + 1 discoveries
\* are made (DiscoverSnapshots).
TypeOK ==
  /\ prov \in [Providers -> Provider]
  /\ pc \in Syncing \cup {"off", "wiped", "decide", "engine", "restore", "import", "check",
                          "anchor", "clear", "up"}
  /\ marker \in BOOLEAN
  /\ db \in [stage : {"empty", "few", "half", "whole"}, of : Snapshot \cup {None}]
  /\ anchor \in 0 .. MaxHeight
  /\ final \in [Chunk -> Snapshot \cup {None}]
  /\ tmp \in [Chunk -> [of : Snapshot \cup {None}, size : {"none", "part", "full"}]]
  /\ pool \in [Snapshot -> SUBSET Providers] /\ asked \subseteq Providers
  /\ cur \in Snapshot \cup {None} /\ best \in Snapshot \cup {None}
  /\ tried \in [Chunk -> SUBSET Providers] /\ retry \in 0 .. MaxRetries + 1

Stranded == db.stage = "whole" /\ anchor = 0 /\ ~marker

\* A database that the next start would take for initialized is the whole
\* state of the chain at the height of the anchor: not a restore that broke
\* off, not one of mixed files, not one that failed the app hash check.  Only
\* a power loss takes the anchor away from under it.
AcceptedIsWhole ==
  ~marker /\ db.stage \in {"half", "whole"} =>
    /\ db.stage = "whole" /\ db.of.state = "chain"
    /\ anchor = db.of.height \/ (anchor = 0 /\ losses > 0)

\* A download is only ever resumed behind bytes of the same snapshot, though
\* the names of the files do not tell one snapshot from another.
ResumesSameSnapshot ==
  pc \in {"verify", "fetch"} => \A c \in Chunk : tmp[c].of \in {None, best}

\* A provider never offers a snapshot with files missing, whenever it died.
ServesComplete ==
  \A p \in Providers : Serves(prov[p]) =>
    \A h \in prov[p].reg : prov[p].chunks[h] = ChunksOf(h)

\* A node starts with an empty database only after it has looked for
\* snapshots MaxRetries + 1 times, or when it was stopped between storing the
\* anchor and removing the marker: then state sync does not run again.
FreshStartIsDeliberate ==
  pc = "up" /\ db = Empty => retry > MaxRetries \/ (anchor # 0 /\ stops > 0)

\* The node comes up, whatever snapshots it met and whenever it was stopped,
\* if the snapshots of the trusted providers are those of the chain from some
\* point on, and unless a power loss took its anchor.
ComesUp ==
  <>[](\A p \in Trusted : \A h \in prov[p].reg : DumpState[p][h] = "chain")
    => <>[](pc = "up" \/ Stranded)
=============================================================================
