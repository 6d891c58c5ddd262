-------------------------------- MODULE Mvcc --------------------------------
(***************************************************************************)
(* Versions and savepoints (cendb-tx/src/mvcc.rs).                         *)
(***************************************************************************)
EXTENDS TransactionManager, FiniteSets, Integers, Sequences, SequencesExt

(***************************************************************************)
(* Version visibility and the version collector of cendb-tx/src/mvcc.rs,   *)
(* over the transactions of TransactionManager.  The versions of a key are *)
(* those its committed and active writers create, each ended by the next   *)
(* commit of the key; the repository leaves storing them to the caller.    *)
(***************************************************************************)
VARIABLES min_active_ts,   \* of the collector
          updated_at       \* next_txn_id when it was last updated

gc_vars == <<min_active_ts, updated_at>>

\* u64::MAX, the end of a version that is not superseded.  It is above every
\* timestamp: the transactions of a behaviour take at most 2..(MaxTxn + 1).
Live == MaxTxn + 2

GcInit == min_active_ts = 0 /\ updated_at = 1

\* The versions of k: begin_ts 0 while the writer is active
Version(k, t) ==
    LET later == {u \in Begun : Committed(u) /\ k \in txns[u].write_set /\ txns[u].commit_ts > txns[t].commit_ts}
    IN  [begin_ts |-> txns[t].commit_ts, txn_id |-> t,
         end_ts |-> IF Active(t) \/ later = {} THEN Live
                    ELSE CHOOSE e \in 2..current : \E u \in later : e = txns[u].commit_ts /\ \A v \in later : e <= txns[v].commit_ts]
Versions(k) == {Version(k, t) : t \in {t \in Begun : txns[t].state # "Aborted" /\ k \in txns[t].write_set}}

\* A mutant: the end of a version is still inside it.
IsVisibleToEnd(v, read_ts, reader) ==
    v.txn_id = reader \/ (v.begin_ts <= read_ts /\ v.end_ts >= read_ts /\ v.begin_ts \in committed_ts)

IsVisibleTo(v, read_ts, reader) ==
    v.txn_id = reader \/ (v.begin_ts <= read_ts /\ v.end_ts > read_ts /\ v.begin_ts \in committed_ts)

\* update_min_active_ts: the current timestamp, whatever transactions are active
UpdateMinActiveTs == /\ min_active_ts # current
                     /\ min_active_ts' = current /\ updated_at' = next_txn_id
                     /\ UNCHANGED vars

CanGc(v) == v.end_ts # Live /\ v.end_ts < min_active_ts

GcNext == (Next /\ UNCHANGED gc_vars) \/ UpdateMinActiveTs
GcSpec == Init /\ GcInit /\ [][GcNext]_<<vars, gc_vars>>

-----------------------------------------------------------------------------
\* An active transaction sees of every key the last version committed in its
\* snapshot, and besides that at most the version it wrote itself.
SeesOneVersion == \A t \in Begun, k \in Key : Active(t) =>
    LET seen == {v \in Versions(k) : IsVisibleTo(v, txns[t].read_ts, t) /\ v.txn_id # t}
        past == {u \in Snapshot(t) : k \in txns[u].write_set}
    IN  IF past = {} THEN seen = {}
        ELSE Cardinality(seen) = 1 /\ \A v \in seen : v.txn_id \in past /\ \A u \in past : txns[u].commit_ts <= v.begin_ts

\* What the collector lets go is seen by no transaction that began after the
\* update.  One that was active then may still see it: the collector takes the
\* current timestamp where its comment speaks of the smallest active one.
CollectedUnseen == \A k \in Key : \A v \in Versions(k) : CanGc(v) =>
    \A t \in updated_at..(next_txn_id - 1) : Active(t) => v.txn_id = t \/ ~IsVisibleTo(v, txns[t].read_ts, t)

VersionsSafe == SeesOneVersion /\ CollectedUnseen

-----------------------------------------------------------------------------
(***************************************************************************)
(* Savepoints of a transaction (cendb-tx/src/mvcc.rs, NestedTransaction).  *)
(* Names may repeat: the last savepoint of a name is the one meant.        *)
(***************************************************************************)
CONSTANTS SpKey, SpName, MaxWrites, MaxSavepoints

VARIABLES write_set, savepoints

save_vars == <<write_set, savepoints>>

\* rposition: the last savepoint of the name, 0 if there is none
Position(name) == LET hits == {i \in DOMAIN savepoints : savepoints[i].name = name}
                  IN  IF hits = {} THEN 0 ELSE CHOOSE i \in hits : \A j \in hits : j <= i

SaveInit == write_set = <<>> /\ savepoints = <<>>

SaveWrite(k) == Len(write_set) < MaxWrites /\ write_set' = Append(write_set, k) /\ UNCHANGED savepoints

SavepointAt(name) == /\ Len(savepoints) < MaxSavepoints
                     /\ savepoints' = Append(savepoints, [name |-> name, snapshot |-> write_set])
                     /\ UNCHANGED write_set

\* A mutant: the savepoints after the one rolled back to are kept.
RollbackToKeeps(name) == /\ Position(name) # 0
                         /\ write_set' = savepoints[Position(name)].snapshot
                         /\ UNCHANGED savepoints

RollbackTo(name) == /\ Position(name) # 0
                    /\ write_set' = savepoints[Position(name)].snapshot
                    /\ savepoints' = SubSeq(savepoints, 1, Position(name))

ReleaseSavepoint(name) == /\ Position(name) # 0
                          /\ savepoints' = RemoveAt(savepoints, Position(name))
                          /\ UNCHANGED write_set

SaveNext == \/ \E k \in SpKey : SaveWrite(k)
            \/ \E name \in SpName : SavepointAt(name) \/ RollbackTo(name) \/ ReleaseSavepoint(name)

SaveSpec == SaveInit /\ [][SaveNext]_save_vars

-----------------------------------------------------------------------------
\* Savepoints nest: what each one would restore is a beginning of what the
\* next one would, and of the writes made so far, so that a rollback only
\* ever takes writes back.
Nested == \A i \in DOMAIN savepoints :
            IsPrefix(savepoints[i].snapshot, IF i = Len(savepoints) THEN write_set ELSE savepoints[i + 1].snapshot)
=============================================================================
