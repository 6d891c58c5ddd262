# CenDB in TLA+

This directory holds the TLA+ models of CenDB: the components whose correctness
depends on interleavings, failures and long histories, the TLC configurations
that check them on small instances, and TLAPS proofs of the results that hold
for every instance. `PROJECT.json` is the machine-readable index: components,
runs, the lines every definition models, faults that show that the properties
bite, hazards and theorems.

- `tlc -config X.cfg M` checks a run, for the pairs listed under *Runs*.
- `tlapm MProofs.tla` checks the proofs of a module.

Contents: 1 inventory, 2 modules, 3 runs, 4 proofs, 5 what the checks showed,
6 what is not modelled, 7 plan.

---

## 1. Inventory

CenDB is a Rust workspace of crates under `src/source/crates`. The crates are
libraries that a program composes; there is no server process of their own.
Nearly all state is behind `&mut self`, so concurrency is concentrated in a few
places that use locks and atomics, and the remaining difficulty lies in failure
between two file operations and in long sequences of calls.

### Storage and transactions

| Component | State | Operations | What makes it correct |
|---|---|---|---|
| Transaction manager, `cendb-tx/mvcc.rs` | timestamp oracle, transaction table, `committed_ts`, `latest_writes` | `begin`, `record_write`, `commit`, `abort` | snapshots never move; of two overlapping writers of a key one aborts; validation aborts nobody else |
| Concurrent manager, `cendb-tx/concurrent_tm.rs` | the same, behind atomics and `RwLock`s, plus a collector and its callback | the same and `run_gc`, from any thread | the same under every interleaving; the collector drops no entry somebody still conflicts with (but for its two races), and hands out no version twice; calls return |
| Write-ahead log, `cendb-tx/wal.rs` | the log file, what of it is durable, LSN counters, checkpoint counters | `open`, `append`, `commit`, `checkpoint`, `truncate_to_checkpoint`; `AriesRecovery::analyze`, `redo`, `undo` | acknowledged commits survive crashes; LSNs are never reused; winners and losers are what the log says |
| Buffer pool, `cendb-buffer` | frames, page table, free list, LRU-K history, evictable list | `pin`, drop of a guard, `new_page`, `mark_dirty`, `flush_page`, `flush_all`, eviction | no dirty page is lost; table and frames agree; a miss finds a frame; scans do not push out hot pages |
| Key-value projection, `cendb-projection/kv.rs` | pending rows and their order, sealed PAX blocks, index from key to place | `put`, `get`, `delete`, `flush_pending`, `iter`, `len`, `compact`, `persist_to_segment`, `load_from_segment` | it is a map; compaction and flushing are invisible; a restart brings back the last saved map |
| Segment files, `cendb-storage/segment.rs` | blocks, directory, header | `create`, `append_block`, `seal`, `open` | a sealed segment reads back what was written, an unsealed one is recognised |
| PAX blocks and encodings, `cendb-storage` | none outside a block | encode, decode, zone maps | decoding inverts encoding; a zone map excludes no block with a match |
| Relational, time-series and graph projections, `cendb-projection` | pending rows, sealed blocks, a primary-key index, block summaries, an adjacency overlay | insert, flush, lookup, scan, traverse | a lookup finds the newest row, a scan every row once, whatever blocks it skips; what a failed flush loses is known |
| Documents, `cendb-projection/document.rs` | none outside a document | build, decode, field and path lookup | a document comes back; a path finds what the tree has there |
| Versions, collector, savepoints, `cendb-tx/mvcc.rs` | `min_active_ts`; write set and savepoints | `is_visible_to`, `can_gc`, `savepoint`, `rollback_to`, `release_savepoint` | a snapshot sees one version of a key; what is collected is seen by nobody; rollbacks only take writes back |
| Blob store, `cendb-cas` | reference counts in memory, `_index.cdb`, `.blob` and `.meta` files | `put`, `retain`, `release`, `get`, `open` | a referenced blob is readable; the last release, and no other, removes it |
| Point-in-time recovery, `cendb-pitr` | version chains | write, read as of, gc | a read as of a time sees that time |
| Catalog and backup, `cendb-system` | maps of tables, schemas, indexes; files copied one by one | create, drop, backup, restore | names are unique; a backup is one state |

### Distribution and security

| Component | State | Operations | What makes it correct |
|---|---|---|---|
| Raft node and cluster, `cendb-replication/lib.rs` | term, vote, log, commit index, snapshot, membership | elections, `append`, heartbeats, snapshots, adding and removing nodes | one leader per term; committed entries stay; state machines agree |
| WAL shipping, `wal_shipping.rs` | last shipped LSN, files in the replica's directory, last applied LSN | ship, `catch_up` | a replica applies every record once and in order |
| Transport and failover, `tcp_transport.rs` | listener thread, connections, queue; heartbeat times; replica list and cursor | send, listen, poll, stop; check a leader; route reads | a message arrives at most once, and is lost after `Ok` only with its connection; no failover without a silence; reads are spread |
| In-process network and I/O ring, `cendb-net` | mailboxes, partitions; batch and results | send, receive, partition, heal; submit, complete | order and frames are kept; every operation has one result |
| Session store, `cendb-security/session_store.rs` | one JSON line per session in a file | `save`, `load`, `delete`, `delete_expired` | a saved session is loaded, a deleted one is not, from any thread |
| Authentication, `auth.rs` | users, lockout, session cache over the store, API keys | create and deactivate users, login, validate, logout, create and revoke keys | lockout counts and ends when it should; a logged-out token stays out |
| Audit, Merkle, RBAC, masking | hash chain, tree, role assignments, masking rules | append, verify, prune; build, prove, verify; grant, check; mask | an edit of one field is found; a proof is good for one content; a check allows what a role grants; a mask never shows the whole |
| KMS, TDE, field encryption | secrets, column keys, sealed texts | encrypt, decrypt, replace a key | a text comes back or is refused, whatever was cut, changed or spliced |

### Queries

| Component | State | Operations | What makes it correct |
|---|---|---|---|
| CenQL, `cendb-cenql` | none between calls | parse, display | a statement comes back from its text; what is read from a damaged text is what the text says |
| Optimizer, `cendb-optimizer` | histograms, sketches | push filters down, choose operators, estimate | a rewritten plan gives the same rows; merged statistics are those of the whole |
| Executor, `cendb-executor`, `cendb-jit` | runs and partitions that spilled | join, sort, filter, sum, pipeline stages | every method gives what the definition over whole inputs gives |
| Indexes: radix tree, full-text, secondary, R-tree, vector, RDF | trees, postings, versioned entries, layers of links | insert, remove, search | each agrees with the scan it replaces |
| Chaos harness, `cendb-chaos` | volatile and durable files, a schedule of faults; a workload's log | read, write, sync, crash; run, crash, verify | faults spoil only what they name; the crash tests accept exactly what the analysis should give |
| Import, export, FFI, facade | none of their own | | conversion code |

### Interaction

A writer takes a snapshot from a transaction manager, records the keys it
writes, appends records to the log and commits in both; nothing in the
repository ties the two commits, or the log and the buffer pool, together: the
pool writes dirty pages without asking how far the log is durable, and the
caller has to. Projections sit on segments and do not use the pool. The blob
store uses the radix tree as its index, and sees what that tree loses. Point-in-time recovery sits on
`TransactionManager`. Authentication keeps a cache in front of a session store
that several threads share. WAL shipping copies log files; the Raft cluster is
in-process and calls its nodes directly.

### Hard behaviours

- **Lock windows.** The concurrent manager takes several locks in sequence per
  commit and the collector computes its horizon outside all of them; the session
  store reads under one lock section and replaces the file under another.
- **Failure between file operations.** Log truncation (write, rename, reopen),
  the blob store's release (data, metadata, index), saving of a segment
  (truncate, blocks, directory, header), the write-back of a victim.
- **Torn and unsynced writes.** A crash keeps any prefix beyond the last fsync.
- **State that survives its meaning.** Evictable marks of pinned frames, index
  entries of deleted keys, collector lists made before a newer commit.
- **Recursion and limits.** The automatic checkpoint inside `append`; a pool
  whose every frame is marked or pinned.

The hazards, each with its line and the properties that cover it, are in
`PROJECT.json`.

---

## 2. Modules

Each module keeps the names of the source. A faulty variant of an operation, named
`Operation_WhatIsWrong` or introduced by the comment "A mutant", stands before the
operation; it is in no specification and serves only to show that a property can
fail. Variables described as *not in the code*, or as ghosts, are history that the
properties need.

| Module | Crate | Models |
|---|---|---|
| `SnapshotIsolation`, `KvMap` | | abstract specifications |
| `TransactionManager`, `ConcurrentTM`, `Mvcc`, `WriteAheadLog` | `cendb-tx` | transactions, versions, savepoints, log |
| `BufferPool` | `cendb-buffer` | replacement policy and pool |
| `KvStore`, `Projections`, `CenDoc` | `cendb-projection` | key-value, relational, time-series and graph projections, documents |
| `PaxLayout`, `PaxBlock`, `Codec` | `cendb-storage` | blocks and column encodings |
| `BlobStore` | `cendb-cas` | blobs with reference counts |
| `Pitr`, `SystemCatalog` | `cendb-pitr`, `cendb-system` | version chains; catalog and hot backup |
| `RaftCluster`, `WalShipping` | `cendb-replication` | cluster, shipping |
| `Transport` | `cendb-replication`, `cendb-net` | TCP transport with failover and routing; simulated network, I/O ring |
| `Chaos` | `cendb-chaos` | faulty file system, crash tests |
| `FileSessionStore`, `AuthManager`, `TamperEvidence`, `DataProtection` | `cendb-security` | sessions, logins, audit chain and Merkle tree, encryption at rest, roles and masks |
| `ArtTree`, `Search`, `Hnsw` | `cendb-index`, `cendb-search`, `cendb-vector` | radix tree; full text, snippets, secondary indexes; vector index |
| `CenqlParser`, `Optimizer`, `Executor` | `cendb-cenql`, `cendb-optimizer`, `cendb-executor`, `cendb-jit` | parsing, planning, execution |
| `Rdf`, `Spatial` | `cendb-rdf`, `cendb-spatial` | triples and SPARQL; geometry and R-tree |

### Hosts

Components that share no state in the code share a run: `MCTransactionManager`,
`MCReplication`, `MCProjections`, `MCStorage`, `MCQuery` and `MCSecurity` put them side by
side, the variable `part` names the component that moves in a behaviour, and
the others stand still in one initial state. This is a sum of state
machines and not a product: TLC explores each part as if it were alone, and an
invariant about a part says so (`part = "raft" => ...`). Where a module holds several
components, or is extended along with others, each has its own prefix (`AuditInit`,
`MerkleNext`, `RaftNext`, `ShipInit`, `StoreSpec`).

A host EXTENDS the components that are proved about and takes the others as instances.
`MCTransactionManager`, `MCReplication` and `MCSecurity` extend all of theirs, and
their proof modules speak of the host's own specification, `SumSpec`, where a property
collects several parts (`HistorySafe`, `RecoverySafe`, `AuditSafe`, `EncryptionSafe`,
`AccessSafe`).

### SnapshotIsolation (abstract)

Transactions with a status, the length of the history they started from and
their writes; a commit appends to the history if nothing committed since
overlaps in its writes. No timestamps, locks or tables.

### TransactionManager

`mvcc.rs`. Every method takes `&mut self`, so every method is one action;
`commit` is two, by the verdict of validation. The oracle's `fetch_add` is part
of the action that calls it. A call that returns an error and changes nothing is
a stuttering step. The isolation level is carried and never consulted, as in the
code. `ImplementsSI` maps the commit order to the order of timestamps.

### ConcurrentTM

`concurrent_tm.rs`. A thread runs `begin`, `commit` and `run_gc` one lock section
at a time:

| Label | Code |
|---|---|
| `insert` | between the load of the oracle and the insertion in `begin` |
| `validate`, `allocate`, `mark`, `publish_ts`, `publish` | `commit`: from the acquisition of the write lock of `latest_writes` to its release |
| `abort` | the conflict path |
| `notify`, `count` | the GC callback for superseded versions, the commit counter |
| `gc_min` ... `gc_reset` | `run_gc`: minimum of active snapshots, scan under a read lock, removal under a write lock, `committed_ts`, `txns`, reset |

Only the write lock of `latest_writes` is held across steps (`lw_lock`). `mode`
fixes, for a behaviour, the collector's interval and what the clients do: whether
their calls overlap, whether they call `run_gc`, and whether a thread touches a
transaction another one began. `overtaken` (not in the code) is set where a collection
meets one of its two races: its minimum passes over a `begin` that has read the oracle and
is not yet in the table, or its removal takes an entry that is newer than its scan. A transaction begins for `SnapshotIsolation` when
it loads the oracle and commits when it allocates its timestamp.

### WriteAheadLog

`wal.rs`. The file is a sequence of records, `Torn` where one was cut; `synced`
is the durable prefix. `append` is one step (a write, and with
`sync_on_every_record` an fsync); `commit`, `checkpoint` and truncation have a
step per file operation, with a crash or an I/O error possible before each; the re-open
after a rename may fail too, which leaves the handle on the removed file. A rename that
succeeded is taken to be durable. The fsync of `sync_on_every_record` may fail for every
record, a checkpoint's and a new transaction's first among them. The analysis pass is the left fold the code performs; redo and undo are the
selections it makes. `exposed` marks the transactions acknowledged while the log
was damaged and `archived` those whose records a truncation dropped.

### BufferPool

`lru.rs` and `pool.rs`/`frame.rs`. The replacer is a record, `replacer`, and the policy
operators on it: access history of length K, scan accesses, the evictable list with its
stale entries, and the choice of a victim. The pool has the frames, the page
table and the source; a guard is alive or not. The page source can fail on read
and on write-back, at the place of the call, and the actions keep what the code
has already changed by then.

### KvMap (abstract) and KvStore

`kv.rs`, with `segment.rs` as far as saving and loading use it. A row is a key and
a value; `Huge` is a value that no block holds and `Empty` the empty value, which
is what `delete` writes as a tombstone, so that a put of it is a deletion too;
`Absent`, no value, is none of those (`KvStoreAssumption`).
Flushing divides the pending rows into blocks (`Chunks`: a block ends where it is full or
before a row that does not fit), stops at the first that does not fit, and seals those
before it (`SealAll`), which gives each row the place the index then has for its key.
`iter` walks the blocks in order and drops the rows whose key is pending; `compact` puts
back what an iteration found, sorted by key. Saving is
`PersistCreate`, one `PersistAppend` per block and `PersistSeal`, and may end
after each. A restart is of the process, and what was written stays. The truncation and the
header are one step: a file without a header is refused by `open`, and the process that finds
one is taken to start with an empty store. `ImplementsMap` maps the store to what `get` returns and the segment
to what a load of it would return.

### BlobStore

`blob.rs`. A blob is its hash; `put`, `retain` and `release` have a step per file
operation, and `OperationFails` and `Restart` may come at each, leaving the index
file unopened, cut or complete.

The index is a radix tree, and `BlobStore` knows it by its operations only: `IndexGet`,
`IndexInsert`, `IndexRemove`, `Collapses` and `IndexIter` are constants. `MCStorage` gives
them the tree of `ArtTree`, with hashes of two bytes of which two begin alike, so that a
release can collapse a node and hide another blob (section 5); the proofs assume nothing of
them. The index file is the list of the tree's leaves, which a collapse does not shorten.

Not in the code are `refs`, what tables hold; `counts`, what the calls have made of each
count, whatever the tree finds, and `saved`, the same when the file was written. A hash is
*astray* (`Astray`) while the tree finds another count for it than that, and `forked` once it
was counted or put again in that condition: from then on its count may be too low and nothing
is said of it. `orphaned` are hashes whose removal was cut before the index was rewritten;
`file_cut` and `index_cut` say that the index file is a prefix and that it was loaded;
`collapsed_index` that a removal has collapsed a node since the store was opened.

### FileSessionStore

`session_store.rs`. `save` is one lock section; `delete` and `delete_expired` are
two, the read and the replacement. A save can be cut inside its line or before
its newline, a replacement can fail before the rename, the process can restart.
`held` and `gone` record what callers were told, `exposed` the tokens that an
overlapping removal may have reverted.

### AuthManager

`auth.rs`. Every call takes `&mut self` and is one action; `login` is three, by what it
finds: a wrong password, the right one, or a user that does not exist or is
inactive (it still clears an expired lockout). A login refused because the account
is locked changes nothing. The verification takes time, so the clock may advance
inside `login`, between its two readings. The session store is the map its trait
describes; each of its operations may fail, and the manager ignores the error.
After a restart only the store is left, and the host creates its users again. The clock is
the wall clock (`auth.rs:522`); it is taken never to be set back.
`failures` records the interval of every failed verification since the last
success, `kept` the sessions whose save succeeded and `out` the tokens that `logout`
removed from the store; none of them is in the code.

### Mvcc

`mvcc.rs`, the rest. The versions of a key are those that the writers of
`TransactionManager` create, each ended by the next commit of the key; the code leaves
storing them to its caller. `update_min_active_ts` and `can_gc` run against them.
`NestedTransaction` is a write set and a list of savepoints whose names may repeat.

### Pitr and SystemCatalog

`PitrManager` commits in the order of its oracle; the public `VersionChain` takes timestamps
in any order, and both are modelled, from timestamp 1 on (`PitrAssumption`). The catalog has
an action for every call on tables, columns, indexes, views and procedures. The backup
copies files one after the other, buffer by buffer, while writers go on; creation, each
copy, the metadata and the verification can fail, and a directory lists files in any order.
A backup may go to a directory that holds an earlier one: what is not copied yet is then still
what was there (`former`, `Directory`), its metadata included, until the new metadata replace
it; these can be cut, and no reader accepts cut ones (that all but the last newline was
written is left out). `complete` is the directory when its metadata were last written whole,
and `places` says of every write where it went; neither is in the code.
There are finitely many files and at least one (`BackupAssumption`), and none comes or goes
between two backups.

### WalShipping, RaftCluster, Transport

Shipping is creation, write and fsync of a segment file, with a failure at each; the
replica, another process, lists the directory at any time. A call of `RaftCluster` runs to
its end before the next, so it is one action; a panic is a state. `Transport` has four
parts. The TCP transport has a step for each thing sender, listener thread and poller do; a
connection breaks before, in or after its frame, and `stop` does not end the thread that
holds the port. `Ok` says that the kernel has the bytes, and no more: a connection that breaks
afterwards (`ConnectionBreaks`) takes the message along, and nobody is told (`severed`, not in
the code). `set_leader` takes two locks in sequence, and a check can fall between; it and
`record_heartbeat` read the clock before they take the lock, so that the older of two
overlapping calls can store last (`overlapped`). The
replica list and its cursor are the router. The network is a mailbox per node with
partitions, and the queue of `io_uring.rs`, which on every platform runs its batch on
submission. The parts run side by side in `TransportSpec`.

### Chaos

`ChaosVfs` with its volatile and durable contents, the schedule of faults and the crash,
and the two crash tests over the analysis and the reader of `WriteAheadLog`, which it
extends: the draws of the generators are choices, and what is checked is the verdict of the
tests. A fault applies at the first operation its schedule names (`FirstOf`); its path is
the set of files whose names contain its filter.

### Projections, CenDoc, PaxLayout, PaxBlock, Codec

Rows wait in `pending`; a flush makes blocks of them, fails at the first row that a
block refuses, and keeps what it has changed by then. A graph's flush writes nodes and then
edges, and either half may fail. `PaxLayout` says what a block does
to values and where it puts them (regions in bytes, alignment, zone maps);
`PaxBlock` builds blocks row by row. `CenDoc` encodes and decodes trees with interned
strings. `Codec` has every encoding with both directions, in words of `W` and bytes of `B`
bits; the code's 64 and 8 are constants here, as all arithmetic wraps at `2^W`.

### TamperEvidence, DataProtection

Hashes are free of collisions and ciphers are ideal: a sealed text is a nonce, a
unit per unit of text and a tag that depends on everything. A hash is of what the code
concatenates: resource, row count and detail of an audit entry follow each other without their
lengths (`Run`), so that two entries can have one hash. Cuts, changes and splices act
on units. Globs and masks work on sequences of characters.

In the audit log `chain` (not in the code) is the log without any prune: each entry refers to the hash of the
one before it. `entries` is what prunes have kept of it, and a gap is where the two differ.
Pruning goes by time and the clock may be set back, so that a prune can drop entries from
the middle, and a later one those behind the gap. `WhatAssumption`, `KeyAssumption`, `ValueAssumption`, `GlobAssumption` and `MaskAssumption` say that fields, texts, keys,
patterns and values are sequences.

### ArtTree, Search, Hnsw

The four node layouts are distinguished and their capacities are constants, so that small
key sets grow and shrink them; what follows a collapse is left to the blob store, where the tree
is used. `Search` has the inverted index, snippets and the versioned
secondary index, used in the order its comment prescribes. The table that the index is
compared with (`history`, not in the code) has for each commit the version of each row, with
the commit it came from: value and slot alone do not tell two versions of a row apart once a
relocation has freed a slot and it is used again. A slot is a segment and a place in it:
`relocate` looks for the place alone (`SamePlace`), as block ids are unique in their segment
only, so a compaction of one segment can take along an entry of another (`strayed`, not in the
code). In `Hnsw` a vector is a point on a line
and the level drawn for a node is any level.

### CenqlParser, Optimizer, Executor, Rdf, Spatial

The parsers work on tokens: a result is a position and a value, or failure. A behaviour
writes a statement (or a query) down, and then loses a token or the end of its text.
`Optimizer` has plans that grow from scans, filter push-down, the planners and
their estimates, histograms and sketches; a plan's meaning (`Eval`) is not in the code.
`Executor` feeds joins, sorts, filters and pipelines row by row, batch by batch or stage by
stage. In `Spatial` arithmetic is exact: points are even integers, so that midpoints are
integers, and a recursion that would not end is an outcome (`overflow`).

### Proof modules

| Module | Proves about | Extends |
|---|---|---|
| `TransactionManagerProofs` | `TransactionManager`, `Mvcc`, `Pitr`, `SystemCatalog` | `MCTransactionManager` |
| `ConcurrentTMProofs` | `ConcurrentTM` | `ConcurrentTM` |
| `WriteAheadLogProofs` | `WriteAheadLog`, `Chaos` | `MCReplication` |
| `BufferPoolProofs` | `BufferPool` | `BufferPool` |
| `StorageProofs` | `BlobStore`, `Search` | both |
| `KvStoreProofs` | `KvStore` | `KvStore` |
| `SecurityProofs` | `AuthManager`, `FileSessionStore`, `TamperEvidence`, `DataProtection` | `MCSecurity` |
| `ReplicationProofs` | `RaftCluster`, `WalShipping`, `Transport` | all three |

See section 4.

---

## 3. Runs

Twelve runs: seven that pass and five that show a disagreement between the code
and its own comments. Sizes are distinct states.

| Run | Module and config | Result | Size |
|---|---|---|---|
| `tm` | `MCTransactionManager` | pass | 1.4 million |
| `ctm` | `ConcurrentTM` | pass | 524 thousand |
| `ctm_gc_race` | `ConcurrentTM`, `ConcurrentTMGcRace.cfg` | violation of `NoLostUpdate` | |
| `log` | `MCReplication` | pass | 2.0 million |
| `wal_torn_tail` | `WriteAheadLog`, `WriteAheadLogTorn.cfg` | violation of `AckedRecovered` | |
| `wal_auto_checkpoint` | `WriteAheadLog`, `WriteAheadLogAuto.cfg` | violation of `CheckpointsSpaced` | |
| `projections` | `MCProjections` | pass | 233 thousand |
| `storage` | `MCStorage` | pass | 700 thousand |
| `query` | `MCQuery` | pass | 667 thousand |
| `bp_new_page` | `BufferPool`, `BufferPoolNewPage.cfg` | violation of `ExistingPagesKept` | |
| `security` | `MCSecurity` | pass | 1.1 million |
| `session_store_race` | `FileSessionStore`, `FileSessionStoreRace.cfg` | violation of `SafeToShare` | |

### What they check

**tm.** `FirstCommitterWins` (no lost update), `ValidationExact` (the verdict of
`commit` is the one the whole history gives), `TimestampsAccounted` (every
timestamp handed out belongs to one committed transaction) and `ImplementsSI`.
`VersionsSafe`: every snapshot sees exactly one version of a key, and the collector
frees none that a transaction begun since its last update can see. `HistorySafe`: reads in the
past at or after the gc cutoff are exact, whatever the order of commits; savepoints
nest; a backup consists of buffers that the files had while it ran, is the database if
nothing was written meanwhile, verifies after a failure only when what is there is the earlier
backup, and not after damage; indexes of the
catalog stand on columns of its tables, but for the ways the catalog itself leaves
them behind.

**ctm.** Four modes: overlapping calls without collection; one call at a time
with collection at every second commit and on demand; overlapping calls with
threads that abort each other's transactions; overlapping calls with collection at every
commit. `FirstCommitterWins` (no lost update) and `CollectorSafe` (the collector leaves the
entry that an active transaction conflicts with, and hands out no version twice): the part
about entries and updates holds in a behaviour until the collector is overtaken, so its two
races are the only ways to lose an update, and no version is handed out twice even then.
`CommittedIsFinal`, `CallsReturn` (liveness) and, in the first mode, `ImplementsSI`.
`ctm_gc_race` checks `NoLostUpdate` without that condition, in the fourth mode.

**log.** `Durability`: with `sync_on_commit`, a commit acknowledged on an undamaged
log is recovered after any crash or error. `LsnOrder`: the readable log ascends
and the next LSN lies above it. `RecoverySafe`: the one-pass analysis equals its
definition over the whole log, and redo and undo divide the data records; the faulty
file system spoils only what its faults name; the crash tests accept what the analysis
makes of every workload and crash. `ShippingSafe`: a replica skips no segment and
takes no half for a whole unless a shipment was cut or the shipper restarted.
`RaftSafe`: with members and snapshots standing still, what is committed begins
every log and is executed in order; without membership changes nothing panics
before the second snapshot. `OneWinnerPerTerm`: a second winner in a term needs a
majority of nodes added since the first. `TransportSafe`: what arrives was sent with `Ok` and
arrives once, what was sent with `Ok` is on its connection, waits or has been handed out unless
that connection broke, and what failed never arrives; a failover follows a silence unless two
calls that hear of the leader overlap; reads are balanced; frames, order and results are kept.

**projections.** `ImplementsMap` (the key-value store is a map with a saved copy),
`StoreSound` (an entry leads to the newest row of its key, a key without one is absent or
its tombstone pending), `CompactExact`. `LayoutsExact`: documents survive encoding, the
regions of a PAX block lie apart, its rows come back, and its zones cover its keys.

**storage.** `CountCovers` (the count the index finds is never below the references held),
`ReferencedReadable` (a referenced blob has its file, and is found), `CountExact` (without
faults counts, files and index agree), each but for what a collapse of the index hides: there
the file and the true count are right and the lookup is not. `CodecsExact`: whatever
encoding is chosen or forced, a column comes back. `SearchSafe`: a snippet shows as many
matches as any piece of its length, and the secondary index has for every commit since the
gc cutoff the rows that the table held then, at the right places as long as no compaction took
an entry of another segment along. `IndexesExact`: the radix tree is a map as
long as no key begins with another and no inner node took its parent's place; the index of
the blob store leads no lookup astray before a collapse, and finds everything again when the
store is reopened; the text search and HNSW agree with their definitions.
`ProjectionsExact`: relational lookups and iterations, time-series scans and graph
overlays against the rows that were accepted, also after flushes that failed.

**query.** `PoolCoherent` (page table and frames agree, and a reader gets the latest
contents), `NeverExhausted` (without a guard alive a miss finds a frame) and
`ScanResistance` (a hot page goes only when every cached page is hot); the last two are
stated up to the first I/O error, because after one they do not hold (section 5).
`QuerySafe`: every join, the external sort, the partitioned join, batched and compiled
filters and sums, and pipelines give what their definitions over whole inputs give
(`ExecutorSafe`, a part of it); push-down keeps the rows of plans without `or`; histograms
and sketches stay sound when merged; SPARQL rows are solutions; segment intersection, point
in ring and hull are exact, the box filter loses no match; a CenQL statement comes back from
its text, a `where` that was parsed is kept, and what a damaged text parses to is what it
says.

**security.** `SessionsDurable`: for tokens outside the window of another removal a saved
session is loaded and a deleted one is not, and only a cut save makes the file unreadable.
`Throttled` (of the failed logins since the last success, the one `max_failed_attempts`
later begins `lockout_duration` after the earlier one ended), `StoredUntilEnd` (a session
whose save succeeded is in the store until it expires or its user logs out, through
restarts), `LoggedOutForGood` (a token that `logout` removed from the store is in neither
cache nor store again). `AuditSafe`: the chain verifies until a prune keeps entries after
those it drops; removals and swaps are found where they were made, and so are all edits of one
field, and of several unless bytes only moved from one to the next, which is never found.
`EncryptionSafe`:
envelopes and fields give back what was written or fail; a Merkle proof is good for one
content. `AccessSafe`: checks allow exactly what roles grant; a masked column shows at most
the ends its first rule allows.

### Bounds

- *tm*: four transactions, two keys. A lost update needs two transactions and a
  third to tell a snapshot from the latest state; the fourth lets one transaction
  begin after all of that. All results of this run are also proved without the bounds.
- *ctm*: two threads, three transactions, one key, all four modes. Each race found or excluded
  takes two threads, since every lock section of one can come between any two of
  the other; the third transaction is the one that starts after a collection. The safety
  properties and the refinement are also proved for any number of each.
- *log*, write-ahead log: five LSNs, two transactions, one crash, one error. A truncation takes a
  checkpoint and needs records on both sides of it, a truncated log then a reopen
  and another append; a second crash starts again from a file that one crash can
  already produce. `AutoTruncateThreshold` is 4 so that it is reached. All properties of this
  run are also proved without bounds.
- *query*, pool: three pages in two frames with K = 2, so that some page is always out, and
  a clock of five accesses, enough for one page to be hot, one cold and a third
  to ask for a frame, twice. `MaxMarks` bounds the list that only grows, at three entries of a
  frame: a page is hot with its second drop, which leaves two entries, and a third lets a scan
  load and drop pages while a hot one is cached. The pool's three properties are also proved
  without these bounds.
- *projections*, key-value store: two keys, two rows per block, two pending rows, and no
  call once more than two rows are sealed (a call may exceed that): enough for a row that
  supersedes another in an earlier block, a tombstone behind it, a flush that fails after it
  has sealed a block, and a saved segment of more than one block. The three properties of
  the store are also proved without these bounds.
- *storage*, blobs: three hashes so that a cut index file can end in the middle and the
  removal of one moves the node of the other two up; two references to a blob and three in all,
  so that a hidden blob with a reference can be put again beside a third; two faults, so that
  a fault follows upon the state another one left. Its three properties are also proved
  without bounds.
- *security*, session store: two threads, two tokens, expiry times 1 and 2, three lines, two
  faults. A line cut before its newline and the line that joins it are two.
  `SessionsDurable` is also proved without the bounds.
- *security*, authentication: one user (accounts do not influence each other), two
  attempts, a lockout of two seconds, a verification of at most one, four failures
  and five seconds, so that a lockout is reached, expires and is reached again; two
  sessions and one API key. These properties are also proved without the bounds.

- *tm*, the other parts: three transactions with the collector; savepoints of two names, so
  that one repeats; two writes to two files of several buffers, so that
  a copy can mix states within a file and between files; two tables, columns and indexes.
- *log*, shipping: three segments, one restart and one time interval; a segment can be
  passed over only by a later one. Raft: three to five nodes in four mixes of terms,
  entries, snapshots and changes of membership (`MCLimits`), since their product is too
  large; each known way to a second winner or a reused index needs two of these at a time.
  TCP: two senders, three messages. Faults: every type, for one file or any, alone and three
  at once; chaos workloads of three transactions.
- *projections*, the other parts: documents nested three deep where the limit is two; PAX
  schemas of two and three columns, blocks in which some rows do not fit.
- *storage*: columns of up to four values out of the ends and the middle of an 8-bit word;
  node capacities 2, 3 and 5, so that five keys pass through all layouts; words of
  one and two letters, texts of up to six characters; two rows, four slots in two segments and
  three commits, with which a slot is freed by a relocation and used again, and two rows have the
  same place in different segments; after a relocation that took an entry along only commits
  and collections follow, and after a restart from a cut index file the blob store stops (`SearchSafe` is also proved without these
  bounds); four vectors with one or two levels; three pending rows, blocks that hold one
  or three; a series split over blocks; graphs of a few parallel edges, flushed twice.
- *query*: three rows a side for joins, five pushes for sorts with runs of two, rows around
  the size of a batch, pipelines of three stages, plans of four nodes, five triples and
  seven queries, sixteen geometries, every pair of stages and every pair of binary operators
  in CenQL.
- *security*: up to seven blocks for the Merkle tree (odd levels at every height), two blobs with
  two providers' secrets of the same concatenation, two column keys, patterns with every wildcard.
  These properties are also proved without the bounds.

Bounds on counters are guards of the actions and named `Max...`; when all are
spent a behaviour ends, which is why the configurations say
`CHECK_DEADLOCK FALSE`. That calls finish is `CallsReturn`, and `NeverExhausted` is the
corresponding statement for the pool. `TxnSymmetry` and `Symmetry` permute
transactions and threads; they are used only in runs without liveness.

### Fairness

Only `ConcurrentTM` states any: weak fairness of each thread's steps inside a
call. It says that a thread that can run is scheduled. It is enough because a
thread waits for one thing only, the write lock of `latest_writes`, and the
thread that holds it needs a bounded number of steps, none of which waits; when
the lock is contended for ever each waiting thread is disabled now and then, so
the property is checked with a bounded number of transactions, in which
contention ends. No client is assumed to call anything.

---

## 4. Proofs

Eight modules. A theorem holds for every value of the constants that its
assumptions allow; the bounds the runs need are natural numbers there, and nothing else. In
each proof the inductive invariant has one lemma per action (or one per part of the
invariant, where the actions are many and alike), and the theorem puts them together with
the temporal rule.

### TransactionManagerProofs

`TypeCorrect`, `NoLostUpdate` (`Spec => []FirstCommitterWins`), `TimestampsAreAccounted`,
`ValidationIsExact`, `Refinement` (`Spec => ImplementsSI`), `VersionsAreSafe`
(`GcSpec => []VersionsSafe`) and `HistoryIsSafe` (`SumSpec => []HistorySafe`), for every set
of keys and isolation levels and every `MaxTxn` in `Nat`.

The invariant is `IInv == TypeOK /\ TimestampsOrdered /\ LatestWritesExact /\
TimestampsAccounted /\ FirstCommitterWins`. `FirstCommitterWins` is not inductive by itself:
validation looks at `latest_writes`, not at the history, so one has to know that
`latest_writes[k]` is the greatest commit timestamp among the writers of `k`
(`LatestWritesExact`), that no snapshot lies above the oracle and that a new timestamp
exceeds every earlier one (`TimestampsOrdered`). Then a commit without conflict has every
earlier writer of its keys in its snapshot, and the verdict of validation is the one that
the history gives.

*Refinement.* The history of `SnapshotIsolation` is the commits in the order of their
timestamps, and since every timestamp belongs to one commit (`TimestampsAccounted`), the
position in it is the timestamp less one (`CommitOrderLists`). A commit appends
(`CommitMaps`), a conflict maps to an abort, and every other step leaves the order alone.

*Versions.* A version ends at the commit that follows its own among the writers of the key,
so the version that a snapshot sees is the last one at or before it, and only that
(`SeenIsLast`, `LastIsSeen`). For the collector one adds that transactions begun since
`update_min_active_ts` have a snapshot at or after the minimum it stored (`CollectorIInv`);
nothing of the kind holds for older ones (section 5).

*History*, for any keys, files, tables and columns; each of the four parts has its invariant.

- `PitrInv`: a version that is gone was followed by another at or before the cutoff, and one
  that is there has the value committed at its time and ends at a later commit or not at all
  (`KeyTimes`). As long as commits come in order it ends at the next commit or before
  (`NextEnds`). A late commit leaves gaps and overlaps between versions, but no read since
  the cutoff falls into one: the newest version at or before a time is still there.
- `SaveInv`: the savepoints nest, each write set being the beginning of the next (`Nest`),
  also where names repeat.
- `BackupInv` places the copy in a listing of the directory: the files before a position are
  copied, and the checksum is the buffers read so far, file by file (`CopyingAt`). Each
  buffer of the copy is one that its file had at a moment while the backup ran
  (`FromMoments`); what is changed afterwards differs from the checksum (`Differs`). After a
  failure the directory mixes two backups under the metadata of the earlier one (`EarlierInv`).
  A buffer says which write it is of, so that bytes that agree with the metadata are those of
  the backup the metadata are of, file by file (`SameBytes`), and a mixture does not verify.
- `CatalogInv`: an index stands on columns of its table unless the catalog has let go of them.

### ConcurrentTMProofs

`FirstCommitterAlwaysWins`, `CollectorIsSafe`, `CommittedStaysFinal`
(`CommittedIsFinal`), `ConcurrentRefinement` (`ImplementsSI`) and `SerialCollectionIsSafe`, for
any threads, keys and number of transactions, under `Disciplined`: no mode lets threads commit
each other's transactions. Collections overlap every other call. What the races of `run_gc`
break, `NoLostUpdate` and `ConflictsKept`, is proved for behaviours that met neither
(`~overtaken`, part of the properties), and no version is handed out twice in any.
`SerialCollectionIsSafe` proves both without that condition under `Serial`: while calls overlap
nobody calls `run_gc` and the collector is not due. The modes of the `ctm` run are disciplined
(`AllModesDisciplined`).

`IInv` has thirteen parts. Types and scheduling (`Types`, `Scheduled`: the lock belongs to a
commit that has validated and not yet published); what a call still knows of the tables when
it has let go of them (`Identified`, `Recorded`); the collector's counter (`Counted`), without
which it cannot be excluded that a commit makes the collector due; and timestamps (`Timed`,
`TimedCalls`, `Stamped`). The argument is in `Remembered`: of every committed writer
of a key `latest_writes` has a timestamp at least as great, or the writer is about to publish
it under the lock, or no snapshot in use is older than it. `Bounded` is what lets the
collector remove entries without hurting that; both are claimed as long as it has not been
overtaken. `Validated` says that what validation found is still so at the mark, and `Disposed`
that a superseded version is handed out once.

*Refinement*, in modes without collection and foreign calls: a transaction begins when it
loads the oracle and commits when it allocates its timestamp. Between these points and the
update of the table only the call knows of it, so the mapping and the invariant read the call
(`InsertsAt`, `MarksAt`); `Order` says that timestamps and commits correspond one to one.
Each step changes one transaction at most, in one of six ways, and each way is a step
of `SnapshotIsolation` or a stutter. In other modes the property maps every behaviour to a
constant one, and says nothing.

### WriteAheadLogProofs

`AcknowledgedCommitsSurvive` (`Durability`), `LsnsAreOrdered` (`LsnOrder`),
`RecoveryFindsOutcomes` (`OutcomesExact`) and `RecoveryIsSafe` (`SumSpec => []RecoverySafe`), for
any transactions, any configurations and any number of records, crashes and errors, with torn
records or without, any schedule of faults and any number of harness transactions.

`IInv` has eleven parts. Those of durability: an acknowledged commit is archived or has a
readable record in the synced prefix (`AckedDurable`), the record of the commit in progress
is in the file unless the handle is on the dummy file of a failed reopen (`CommitWritten`),
and a rename puts a file in place that starts with a checkpoint (`RenameSafe`), so that only
what is before one is lost. Of order: readable records ascend and are below the next LSN
(`Ordered`, `Ahead`), with one LSN of slack where `sync_on_every_record` reuses one. Of
outcomes: what the client knows fits the records (`Known`) and nothing of a transaction
follows its end (`EndIsLast`).

`analyze` is a fold over the records, and no fact about folds is at hand: the proofs
use its equation (`AnalyzeIsPass`) and take the least prefix for which a claim about the pass
fails, which its last step contradicts. So the one-pass analysis is proved to find the
winners and losers that positions in the log define (`AnalyzeIsExact`).

*Recovery.* `SumInv == IInv /\ VfsInv /\ HarnessInv`. What `redo` and `undo` select are the data
records at two disjoint sets of positions that together are all of them, so their lengths
add up. `VfsInv` says that a file without a fault of its own is what the client wrote, and
durable up to its last sync unless a fault lied about that one. `HarnessInv` describes the logs
that the crash tests write: the LSN of a record is its position, transactions come one after
the other, the record that ends one is its last, and what survives a crash is a prefix. The
tests' own counts are then what the analysis of that prefix gives.

### BufferPoolProofs

`PoolStaysCoherent` (`PoolCoherent`), `MissFindsAFrame` (`NeverExhausted`) and
`ScansSpareTheHotSet` (the action property `ScanResistance`), for any pages and frames and
any K. `Frame` is finite and not empty, as `new` refuses a pool of no frames.

Coherence needs that a clean frame holds what the source holds (`CleanFrames`), or an
eviction without a write-back would lose data, and that the live guard alone pins
(`PinnedByGuard`), or a frame in use could be a victim. That a miss finds a frame needs
that no frame is lost: until the first error each is free or evictable once its guard
is gone (`NoFrameLost`), and the policy knows nothing of empty frames (`EmptyFrames`).
The policy's choice is the oldest K-th access among the cold candidates, or among all
if none is cold; a minimum exists as the candidates are not empty (`LeastNat`), and this is
what `ScanResistance` follows from.

### StorageProofs

*Blobs.* `Spec => []CountCovers` (`CountsCover`) and `Spec => []ReferencedReadable`
(`ReferencedBlobsReadable`), for any number of blobs, references and faults, from
`StoreInvariant`, which says that `IInv` is invariant:

- `MemoryCovers`: the count that the calls have made covers the references held and the one
  that the call in progress will answer for;
- `DiskCovers`: the count that a restart would load covers the references held;
- `CallConsistent`: a release that removes files is the last one, a put that writes
  them the first;
- `MemoryListed`, `DiskListed`: a hash counted in memory, or on disk, has its file, but
  for a release cut half way or under way;
- `InvType`: types without the bounds.

The two halves about the disk are needed because a restart replaces memory by what
the disk says, and the promise because a call raises the count before it answers.
The invariant is about `counts`, the counts made by the calls, and not about what the tree
finds: of the tree nothing is assumed, neither that it finds what was put nor that its leaves
are all there. What the properties say of lookups is for hashes that are not astray, where
the two agree; a hash that is counted or put while it is astray is forked, and the
invariant lets go of it, since a put that starts again at 1 makes the count too low for good.
That a reopened store leads no lookup astray is a matter of the tree, and is model-checked
(`IndexesExact`).

`Spec => []CountExact` (`CountsAreExact`) rests on the same invariant and two equalities
that hold while there was no fault: the count is the references held and the one
promised (`CountsExact`), and the files are those of the hashes counted, but for the file
that the call in progress has written or removed already (`FilesExact`). The step of a
fault only has to be seen to count it.

*Snippets and secondary indexes.* `SearchIsSafe` (`SearchSpec => []SearchSafe`), for any text,
needles, rows, values and number of commits. `SnippetAssumption` says that needles are words,
without the gap; the windows compared are sets of match starts. The best window that begins at
a match is the best of all, as moving a window up to its first match loses none
(`BestIsBest`), and two marks do not overlap as a match that began inside another would have a gap
inside a needle (`MatchesApart`).

`SecInv` says, while no transaction gave one value to two rows: a version is in the table
from its commit until another takes its place (`Lasting`), a value and a commit name one row
(`OneRow`), an entry is visible exactly while its version is in the table (`EntriesTrue`),
since the cutoff every version has an entry (`EntriesAll`), and, until a compaction takes an
entry of another segment along, it says where the version is (`SlotsTrue`). `supersede` looks
for the value and the commit and not for the row, so `OneRow` is what makes it end the right
entry; a relocation changes no value and no commit, so it can spoil the places only.

### KvStoreProofs

`AlwaysStoreSound` (`StoreSound`), `Refinement` (`Spec => ImplementsMap`) and
`CompactionIsExact` (the action property `CompactExact`), for any keys and values, any
capacity of blocks and of the pending buffer, and any number of calls. `KvStoreAssumption`:
keys are integers, since `compact` sorts them, a value that no block holds is among the
values, and the capacities are not 0.

`IInv` has two halves. `StoreOK` is about the store: an entry of the index leads to the
key's row in the last block that has one (`Sound`), and `pending_order` lists the pending
keys once each (`Ordered`). A key without an entry may still have rows in the blocks, after
a `delete` (`Orphan`): then its tombstone is pending, or a flush would bring an old row back
into sight. Between the two steps of `delete` that is not so yet, and `StoreOK` takes the
keys for which it need not hold. `SegmentOK` is about a save in progress: what has been
written followed by what is still to be written are the blocks of the store, in their order.

*Flushing.* The chunks are a fold over the pending rows, and every row is in one place of
one chunk (`ChunksDivided`); so each key has at most one row in them, and after sealing the
index leads to it. What `get` returns is the same before and after, whether the flush ends
or stops half way.

*Refinement.* Every call maps to one step of `KvMap` on what `get` returns (`MapStep`); the
copy that a load would return (`Saved`) changes where a save creates or seals its segment.

*Compaction.* The survivors are put back one after the other into an empty store, each put perhaps
with a flush. `Fresh` holds after each: no key has two rows, none is a tombstone, nothing is
too large for a block, so no flush fails. The rows of an iteration are then
counted block by block.

### SecurityProofs

*Authentication.* `Spec => []Throttled`, `[]LockedWhenExhausted`, `[]StoredUntilEnd` and
`[]LoggedOutForGood`, for any users, thresholds, durations and number of sessions.
`AuthAssumption` says that the constants are natural numbers and that `max_failed_attempts`
is at least 1; with 0 the code locks at the first failure and the counter exceeds the
threshold.

The invariant has two halves. `LockoutInv` adds to the two properties of the lockout
that a recorded lockout ends `lockout_duration` after every failure so far
(`LockoutCovers`), and that the failures the counter has forgotten are that long past
(`UncountedPast`): `Throttled` speaks of failures that `failed_attempts` no longer counts,
and the code has no other memory of them. `SessionInv` adds that a token names one
session and was issued (`TokensUnique`), without which an expired session could take
another one's place in the store along with it. There is a lemma for each half per
operation, and `Step` puts them together, one case per action.

*Session store.* `SessionsAreDurable` (`StoreSpec => []SessionsDurable`), for any threads,
tokens and number of calls, failures and restarts. `StoreAssumption` says that a line that
does not parse is no session and that times are natural numbers.

The file, and what each removal has read and not yet written, are *faithful* to the answers
given: every session held is there and none that is gone, but for tokens exposed by an
overlapping removal (`Faithful`, `Pending`). A replacement turns the second into the first.
The rest is about the text: a line appended to a file that ends in a newline replaces the
session of its token and no other, and while no save was cut the file ends in one.

*Audit.* `AuditAlwaysSafe`, for any entries, of which `WhatAssumption` says that the fields
are sequences of bytes and row counts all have one length. Of `chain` the proof needs that each
entry refers to the one before it (`Linked`), that the log is drawn from it in order and ends
with its last entry (`Within`), and that entries were forwarded. Every hash contains the one
before it, so no two of a chain are equal (`HashesDiffer`); therefore a log that verifies is the
whole chain (`LinkedIsWhole`), and a removal or a swap breaks a link at its place. An edit
does if it changes the bytes that are hashed (`EditIsFound`), which one that changes a single
field always does (`OneFieldTells`), and otherwise it leaves every hash as it was
(`EditIsUnseen`).

*Merkle tree, envelopes, fields.* `EncryptionIsSafe`. The levels of a tree are each the
parents of the one below (`Tree`), as many blocks make trees of one shape (`TreesAlike`),
and equal roots then mean equal leaves (`RootTells`); a proof climbs the levels of the tree
(`ProofClimbs`), so that it leads to the root for one content only. Of every blob that was
not damaged `KmsInv` says that it is an envelope of its text under its master key, and of
every other that it is refused; `FieldInv` that every stored field is the sealed text of its
plain value under a key of its column, or was never sealed.

*Roles and masks.* `AccessIsSafe`. The assignments that were made are those the table has
(`RbacInv`). The glob matcher asks row by row, from the end of the pattern, whether a `*`
can take some of the text (`Walks`), and its definition, that the text divides into pieces
one for each pattern character, unfolds in the same way (`FitsUnfolds`, `GlobIsExact`).
Every mask hides some of a value that is not empty, and shows at most the ends it allows
(`HidesSome`).

### ReplicationProofs

`ClusterIsSafe` (`RaftSpec => []RaftSafe`) and `OneWinner` (`RaftSpec => OneWinnerPerTerm`),
for any set of nodes and any mix of calls. `ClusterAssumption`: there are finitely many nodes,
the initial ones are among them, and `None` is no node.

`OneWinner` needs no fixed membership: whoever took part in a won election and is still
there has voted in that term or moved on (`ElectionsKnown`), so the voters of a second
winner are new, and they are a majority of the nodes. `RaftSafe` is proved from `OneTerm`
(with fixed members a candidate's term is greater than every other, and everyone follows),
`OneLog` (before the first snapshot all logs are the proposed entries in order, and what was
committed begins them) and `ExecutedLog`. These are strong because `RaftCluster` calls its
nodes synchronously and loses no message; the proof says so of the code, not of Raft. The
acknowledgements of an entry are a fold over a set of nodes, and its value is found by its
equation and the smallest set that would not have it.

`ShippingIsSafe` (`ShipSpec => []ShippingSafe`), for any segments, intervals and restarts:
without a fault the directory holds what has been shipped and the one segment being written,
which is newer, and the replica is no further than that (`Unbroken`).

`TransportIsSafe` (`TransportSpec => []TransportSafe`), for any senders, nodes, timeouts and
number of messages. `TransportAssumption`: `Nil` is no number, there are finitely many
nodes. A message is in one place: with its sender, on a connection, with the listener, in
the queue, or handed out (`TcpInv`); what failed is not among those handed out, and what was
sent with `Ok` is whole in its place unless its connection broke. `FailoverInv`:
unless a call that hears of the leader is under way or the last two overlapped, the time the
manager has is no earlier than the last sign of life. `RouterInv`: since the last change of the list the reads of the
replicas differ by one at most, those the cursor has passed being ahead (`Spread`).
`NetInv`: what arrived at a node and what waits there ascends in the order of sending, and a
partition cuts both ways. `RingInv`: results and waiting operations are numbered one after
the other.

### Only model-checked

- *Liveness*: `CallsReturn`, which is out of the prover's reach.
- *Recursive definitions*: what one computes for every input would need an induction over
  data that the provers cannot instantiate. Documents, PAX blocks, CenQL, codecs, executor,
  optimizer, RDF, spatial operators, the radix tree, HNSW and the inverted index
  (`LayoutsExact`, `CodecsExact`, `QuerySafe`, `IndexesExact`) are checked over all small
  inputs instead, against definitions that do not share their recursion.
- *Sorts and folds over rows*: `ProjectionsExact`, where flushes sort, and scans and
  overlays fold over blocks.

---

## 5. What the checks showed

Five disagreements with the code's own comments are runs of their own; TLC prints
a behaviour of a few steps.

1. **A lost update next to the collector** (`concurrent_tm.rs:124`, `:317`). `begin`
   reads the oracle before its transaction is in the table, and `run_gc` removes
   keys it listed under an earlier lock. Either window drops the entry that a
   running transaction has to conflict with.
2. **Commits behind a torn tail** (`wal.rs:317`). Reopening seeks to the end of the file
   and leaves the damage in place; what is appended behind it is never read.
3. **The automatic checkpoint** (`wal.rs:353`) calls `append`, which finds the counter
   not yet reset and checkpoints again, without end.
4. **new_page of a page that is not cached** (`pool.rs:200`) replaces it by zeros.
5. **Removal of a session** (`session_store.rs:330`) undoes a save that another thread
   made between its two lock sections.

Others were met while modelling. The models contain the behaviour and the
properties are stated around it:

- *Concurrent manager*: a collection hands the callback the newest version of a key,
  which active snapshots read (`concurrent_tm.rs:332`, against the comment at 112);
  `is_committed` is false again after a collection (`:343`, against `:339`); a
  timestamp is visible in the oracle before its writes are (`:188`); when two
  threads commit one transaction the loser can abort what the winner committed
  (`:180`), which the modes of the passing run exclude.
- *Transaction manager*: a read-only transaction may write (`mvcc.rs:245`).
- *Log*: a write that fails half way leaves a torn record in a log that stays open
  (`wal.rs:342`); a failed rename leaves the handle on a removed file (`:520`);
  truncation drops the records of running transactions (`:496`); an fsync that
  fails with `sync_on_every_record` has its LSN used again (`:344`); aborted
  transactions are not undone (`:606`).
- *Pool*: a failed read loses the frame it was for (`pool.rs:170`); a failed
  write-back takes the victim out of the policy (`:283`); the evictable list grows
  with every unpin (`lru.rs:72`); nothing makes the log durable before a page is
  written (`pool.rs:238`).
- *Key-value projection*: before a compaction `iter` yields superseded rows and
  pending tombstones, and `len` counts a key twice (`kv.rs:435`, `:187`); an
  oversized value makes every later flush fail (`:164`); saving truncates the
  previous segment first, and an unsealed segment loads as an empty store.
- *Blob store*: after a crash between the removal of the files and of the index
  entry, the next put of that content is taken for a duplicate (`blob.rs:245`); the
  index is not replaced atomically (`:368`); after a failed put or retain the count
  stays one too high and the blob is never removed (`:160`). A release whose removal collapses a
  node of the radix tree (`:250`, `art.rs:672`) hides other blobs whose hashes share the
  node's first byte, without any fault: `get`, `retain` and `release` do not find them, and a put
  of that content starts its count again at 1 (`:193`), below the references held. The leaves
  are still in the tree and in the index file, so opening the store again brings them back.
- *Authentication*: the module's comment says that a failed attempt while the account
  is locked refreshes the timer (`auth.rs:37`); `login` returns before it looks at the
  timer (`:264`), as its own comment says (`:251`). With a lockout duration of 0 an entry
  is recorded all the same (`:293`, against `:189`), and expires at once. An error of
  the store is dropped at login, validation and logout: a session may exist in the
  cache only, and a token whose removal failed is valid again (`:372`).
- *Session store*: a line cut before its newline makes the file unreadable as soon
  as another line follows (`session_store.rs:315`).
- *Versions*: `update_min_active_ts` takes the current timestamp where its comment speaks of
  the smallest one among the active transactions (`mvcc.rs:465`): versions that a running
  snapshot reads may be collected, and `VersionsSafe` speaks of transactions begun since.
- *Hot backup*: the copy is no snapshot; files, and buffers of one file, may be of different
  moments (`backup.rs:50`), and the checksum depends on the order in which the directory is
  listed. A backup that fails in a directory with an earlier one leaves the earlier metadata
  there (`:44`, `:80`); it verifies only if all the bytes are still those.
- *Raft*: members added between two elections of a term can elect a second leader
  (`replication/lib.rs:217`); after a snapshot indexes are counted from one again, and a
  second snapshot drains past the end of the log (`:385`).
- *WAL shipping*: a restarted shipper sends LSNs again, and a replica that finds a
  file empty counts it as applied (`wal_shipping.rs:219`).
- *TCP*: `stop` only drops the handle of the listener thread, which keeps its port and goes on
  receiving (`tcp_transport.rs:148`, against its comment). `send` answers `Ok` when the kernel has
  the bytes (`:133`), and a message can still be lost with its connection. A heartbeat reads the
  clock before it takes the lock (`:216`), so the older of two overlapping ones can be stored.
- *Audit*: after a prune in the middle the chain does not verify, and sequence numbers are
  assigned again (`audit.rs:135`). Resource, row count and detail are hashed without their
  lengths (`audit.rs:94`), so an edit that moves bytes from one to the next is not found, against
  "detect if any entry was modified" (`audit.rs:19`).
- *KMS*: the master key hashes token and key name one after the other, so that two pairs
  with the same concatenation share it (`kms.rs:369`).
- *PAX*: a `Null` comes back as the zero of its kind; a row refused at its second column
  stays in the first and shifts that column (`pax.rs:186`).
- *Relational, graph*: a failed flush loses the rows that waited behind the refused one
  (`relational.rs:123`); a second flush of a graph replaces its edges block.
- *Radix tree*: a node that takes the place of its parent keeps neither the parent's prefix
  nor its byte (`art.rs:672`), so that keys below it are not found (for what that does to
  blobs see above).
- *Secondary index*: `supersede` ends every entry of the value with that timestamp
  (`secondary.rs:112`), also of another row. `relocate` compares block and slot and not the
  segment (`secondary.rs:147`), though block ids are unique only with it (`lib.rs:24` of
  `cendb-core`): an entry with the same place in another segment is redirected too.
- *HNSW*: a node inserted again under its id may leave links to layers it no longer
  has, and a later insert then indexes past them.
- *Optimizer*: `split_and` cuts at every "and", also inside an "or" (`plan.rs:652`); a histogram
  estimates 0 for the greatest value.
- *Spatial*: `Multi*` geometries are their own only component, so that some predicates on
  two of them do not return.
- *CenQL*: what follows a statement is not looked at (`parser.rs:647`), so that a `where`
  with a lost keyword is accepted without its condition; `Display` prints operators,
  directions and window kinds by their Rust names, which do not parse, though a test says
  "The displayed form should still parse." (`parser.rs:1128`).

---

## 6. What is not modelled

- *Floating point*: scores, HyperLogLog estimates, buffers, geohashes, reference
  systems and cosine distances. Models use exact numbers where only order matters.
- *Text formats*: the characters of the lexers, N-Triples, Turtle, WKT, WKB, GeoJSON, import
  and export, JSON of the catalog. These are character loops without state; the parsers of
  CenQL and SPARQL are modelled from tokens on.
- *Cryptography*: hashes and ciphers are ideal.
- *Bytes*: of records, rows and messages beyond what decides (whether a row fits,
  where regions lie, whether a frame is whole); CRC collisions; casts of the zero-copy views.
- *Caller's duty*: storing versions, ordering log and pages, creating users after a restart.
- Statistics counters, the memory-mapped source (read-only), the fuzz and stress drivers,
  FFI and the facade. What a file system may lose of files that were never fsynced is
  modelled for the log and not for the blob store.

Components without a module are listed with the reason in `PROJECT.json`.

---

## 7. Plan

1. *done* All components of section 1 with state of their own have a module; hazards have a
   property each.
2. *done* The refinement of `SnapshotIsolation` by both managers and of `KvMap` by the
   key-value store, the log with its recovery and crash tests, the pool, the blob store,
   history, replication with its transport, secondary indexes and snippets, and the security
   components are proved for every value of their constants. Still to write: the regions of
   a PAX block (a part of `LayoutsExact`), the lookups of the relational store (a part of
   `ProjectionsExact`), and the postings of the inverted index (a part of `IndexesExact`).
3. Larger instances where a part is small, and the composition of the log with the pool,
   once the code connects them.
