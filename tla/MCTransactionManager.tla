------------------------ MODULE MCTransactionManager ------------------------
(***************************************************************************)
(* The transaction manager with its version collector for TLC, and the     *)
(* components that keep history beside it: savepoints, version chains, the *)
(* catalog and the hot backup.  They share no state, so a behaviour is one *)
(* of a single part; the other parts stand still.                          *)
(***************************************************************************)
EXTENDS Mvcc, Pitr, SystemCatalog

CONSTANTS k1, k2,   \* model values: the keys
          MaxGcTxn  \* bound: transactions begun while the collector runs

VARIABLE part

MCKey == {k1, k2}
MCIsolation == {"Snapshot"}

tm_vars == <<current, next_txn_id, txns, committed_ts, latest_writes, min_active_ts, updated_at>>

SumInit == /\ part \in {"tm", "gc", "savepoints", "pitr", "backup", "catalog"}
           /\ Init /\ GcInit /\ SaveInit /\ PitrInit /\ BackupInit /\ CatalogInit

SumNext == /\ part' = part
           /\ IF part \in {"tm", "gc"} THEN TRUE ELSE UNCHANGED tm_vars
           /\ IF part = "savepoints" THEN TRUE ELSE UNCHANGED save_vars
           /\ IF part = "pitr" THEN TRUE ELSE UNCHANGED pitr_vars
           /\ IF part = "backup" THEN TRUE ELSE UNCHANGED backup_vars
           /\ IF part = "catalog" THEN TRUE ELSE UNCHANGED catalog_vars
           /\ \/ part = "tm" /\ Next /\ UNCHANGED gc_vars
              \/ part = "gc" /\ GcNext /\ next_txn_id' <= MaxGcTxn + 1
              \/ part = "savepoints" /\ SaveNext
              \/ part = "pitr" /\ PitrNext
              \/ part = "backup" /\ BackupNext
              \/ part = "catalog" /\ CatalogNext

SumSpec == SumInit /\ [][SumNext]_<<part, tm_vars, save_vars, pitr_vars, backup_vars, catalog_vars>>

\* Time-travel reads at or after the gc cutoff give what was committed then,
\* and rolling back to a savepoint only ever takes writes back.  A backup is
\* made of what the files held while it ran, its checksum finds later damage,
\* and a failed copy verifies only where it left an earlier backup as it was;
\* the catalog leaves no index of a dropped table.
HistorySafe == PitrSafe /\ Nested /\ BackupSafe /\ IndexesAnchored
=============================================================================
