---------------------------- MODULE WriteAheadLog ----------------------------
(***************************************************************************)
(* WriteAheadLog and AriesRecovery of cendb-tx/src/wal.rs, with crashes.   *)
(*                                                                         *)
(* The file is a sequence of records; a record that was only partly        *)
(* written is Torn, and so is everything a reader would have to parse      *)
(* across it: from_bytes fails there with TruncatedRecord, CrcMismatch or  *)
(* UnknownRecordType, and every reader stops (a CRC collision is not       *)
(* modelled).  synced counts the items an fsync has made durable; a crash  *)
(* keeps at least those.  A call that takes several file operations is     *)
(* several steps, so that a crash or an I/O error can come in between;     *)
(* &mut self means that no other call interleaves with it.                 *)
(*                                                                         *)
(* Left out of a record: prev_lsn, page_id and payload, which the log      *)
(* stores for its caller and never reads.  Insert, Update and Delete are   *)
(* all "Data": no code in the module tells them apart.                     *)
(***************************************************************************)
EXTENDS Integers, Sequences, SequencesExt, FiniteSets, FiniteSetsExt, TLC

CONSTANTS Txn,                  \* transactions, each used once
          Config,               \* the values of WalConfig considered
          AutoTruncateThreshold,\* AUTO_TRUNCATE_THRESHOLD
          MaxLsn,               \* bound: LSNs assigned
          MaxCrashes,           \* bound: crashes
          MaxErrors,            \* bound: I/O errors
          Tear                  \* whether a crash can leave part of a record

NoTxn == 0

\* checkpoint_interval = 0 means that only the client checkpoints.
WalConfig == [checkpoint_interval : Nat, sync_on_commit : BOOLEAN,
              sync_on_every_record : BOOLEAN]

ASSUME WriteAheadLogAssumption ==
    /\ NoTxn \notin Txn
    /\ Config \subseteq WalConfig
    /\ {AutoTruncateThreshold, MaxLsn, MaxCrashes, MaxErrors} \subseteq Nat
    /\ Tear \in BOOLEAN

VARIABLES config,           \* the WalConfig the log was opened with
          file,             \* the log file, as the next reader would see it
          synced,           \* length of the durable part of file
          detached,         \* the handle no longer refers to the log file
          up,               \* the log is open
          next_lsn, last_record_lsn,
          since_checkpoint, \* records_since_checkpoint
          since_truncate,   \* total_appends_since_truncate
          call,             \* the call in progress and its transaction
          client,           \* what the user of the log knows of a transaction
          exposed,          \* transactions acknowledged on a damaged log
          archived,         \* transactions whose commit was truncated away
          budget            \* crashes and I/O errors still to come

memory == <<next_lsn, last_record_lsn, since_checkpoint, since_truncate>>
ghosts == <<client, exposed, archived>>
vars == <<config, file, synced, detached, up, memory, call, ghosts, budget>>

Torn == [lsn |-> 0, txn |-> NoTxn, type |-> "Torn"]
Idle == [op |-> "idle", txn |-> NoTxn]

LogRecord == [lsn : 1..MaxLsn, txn : Txn \cup {NoTxn},
              type : {"Data", "Commit", "Abort", "Checkpoint"}]

TypeOK == /\ config \in Config
          /\ file \in Seq(LogRecord \cup {Torn})
          /\ synced \in 0..Len(file)
          /\ {detached, up} \subseteq BOOLEAN
          /\ next_lsn \in 1..(MaxLsn + 1)
          /\ last_record_lsn \in 0..MaxLsn
          /\ since_checkpoint \in 0..MaxLsn
          /\ since_truncate \in Nat
          /\ call \in [op : {"idle", "commit", "checkpoint", "recurse",
                             "truncate", "rename"}, txn : Txn \cup {NoTxn}]
          /\ client \in [Txn -> {"new", "running", "acked", "aborted", "lost"}]
          /\ exposed \subseteq Txn
          /\ archived \subseteq Txn
          /\ budget \in [crashes : 0..MaxCrashes, errors : 0..MaxErrors]

-----------------------------------------------------------------------------
(* Reading the log. *)

\* read_all, and the loop of scan_to_end: stop at the first damage.
ReadAll(f) == LET torn == {i \in 1..Len(f) : f[i] = Torn}
              IN IF torn = {} THEN f ELSE SubSeq(f, 1, Min(torn) - 1)

MaxLsnOf(records) == Max({0} \cup {records[i].lsn : i \in 1..Len(records)})

Nothing == [committed |-> {}, aborted |-> {}, active |-> {}]

\* Fault: a commit record does not take its transaction out of active.
AnalyzeRecord_KeepsActive(acc, rec) ==
    CASE rec.type = "Data" -> [acc EXCEPT !.active = @ \cup {rec.txn}]
      [] rec.type = "Commit" -> [acc EXCEPT !.committed = @ \cup {rec.txn}]
      [] rec.type = "Abort" -> [acc EXCEPT !.aborted = @ \cup {rec.txn},
                                           !.active = @ \ {rec.txn}]
      [] rec.type = "Checkpoint" -> acc

AnalyzeRecord(acc, rec) ==
    CASE rec.type = "Data" -> [acc EXCEPT !.active = @ \cup {rec.txn}]
      [] rec.type = "Commit" -> [acc EXCEPT !.committed = @ \cup {rec.txn},
                                            !.active = @ \ {rec.txn}]
      [] rec.type = "Abort" -> [acc EXCEPT !.aborted = @ \cup {rec.txn},
                                           !.active = @ \ {rec.txn}]
      [] rec.type = "Checkpoint" -> acc

\* AriesRecovery::analyze: acc[i] is what the pass has gathered after i records.
\* The losers are the transactions still active; the aborted set is computed and
\* dropped.
Analyze(records) ==
    LET acc[i \in 0..Len(records)] ==
            IF i = 0 THEN Nothing ELSE AnalyzeRecord(acc[i - 1], records[i])
        result == acc[Len(records)]
    IN [committed_txns |-> result.committed, loser_txns |-> result.active]

\* A pass that tests each record applies those at the positions in I, in the
\* order of the log.
Filtered(records, I) ==
    [k \in 1..Cardinality(I) |-> records[CHOOSE i \in I : Cardinality({j \in I : j <= i}) = k]]

DataOf(records, txns) ==
    {i \in 1..Len(records) : records[i].type = "Data" /\ records[i].txn \in txns}

Redo(records) == Filtered(records, DataOf(records, Analyze(records).committed_txns))

Undo(records) == Reverse(Filtered(records, DataOf(records, Analyze(records).loser_txns)))

-----------------------------------------------------------------------------
(* Opening the log. *)

\* Fault: the last LSN on disk is assigned again.
Scan_ReusesLsn ==
    LET max == MaxLsnOf(ReadAll(file))
    IN /\ next_lsn' = IF max = 0 THEN 1 ELSE max
       /\ last_record_lsn' = max
       /\ since_truncate' = max

\* scan_to_end, and the counter that open seeds from the last LSN.  The file
\* is not cut at the damage: appends go to its end.
Scan ==
    LET max == MaxLsnOf(ReadAll(file))
    IN /\ next_lsn' = max + 1
       /\ last_record_lsn' = max
       /\ since_truncate' = max

Open == /\ ~up
        /\ up' = TRUE
        /\ Scan
        /\ since_checkpoint' = 0
        /\ UNCHANGED <<config, file, synced, detached, call, ghosts, budget>>

Init == /\ config \in Config
        /\ file = << >>
        /\ synced = 0
        /\ detached = FALSE
        /\ up = TRUE
        /\ next_lsn = 1
        /\ last_record_lsn = 0
        /\ since_checkpoint = 0
        /\ since_truncate = 0
        /\ call = Idle
        /\ client = [t \in Txn |-> "new"]
        /\ exposed = {}
        /\ archived = {}
        /\ budget = [crashes |-> MaxCrashes, errors |-> MaxErrors]

-----------------------------------------------------------------------------
(* Appending. *)

Ready == up /\ call = Idle
InCall(op) == up /\ call.op = op

AutoCheckpointDue == /\ config.checkpoint_interval > 0
                     /\ since_checkpoint + 1 >= config.checkpoint_interval

\* The record goes to the end of the file the handle refers to.
Written(t, type) == IF detached THEN file
                    ELSE Append(file, [lsn |-> next_lsn, txn |-> t, type |-> type])

\* append.  When an automatic checkpoint is due, append does not return but
\* calls checkpoint, whose own append finds the counter still past the
\* interval; call.txn is the transaction whose commit is waiting, if any.
WriteRecord(t, type, next_call) ==
    /\ next_lsn <= MaxLsn
    /\ file' = Written(t, type)
    /\ synced' = IF config.sync_on_every_record /\ ~detached THEN Len(file') ELSE synced
    /\ next_lsn' = next_lsn + 1
    /\ last_record_lsn' = next_lsn
    /\ since_checkpoint' = since_checkpoint + 1
    /\ since_truncate' = since_truncate + 1
    /\ call' = IF AutoCheckpointDue THEN [op |-> "recurse", txn |-> next_call.txn]
                                    ELSE next_call

\* sync_data on the handle.
SyncFile == synced' = IF detached THEN synced ELSE Len(file)

AppendData(t) ==
    /\ Ready
    /\ client[t] \in {"new", "running"}
    /\ WriteRecord(t, "Data", Idle)
    /\ client' = [client EXCEPT ![t] = "running"]
    /\ UNCHANGED <<config, detached, up, exposed, archived, budget>>

AppendAbort(t) ==
    /\ Ready
    /\ client[t] = "running"
    /\ WriteRecord(t, "Abort", Idle)
    /\ client' = [client EXCEPT ![t] = "aborted"]
    /\ UNCHANGED <<config, detached, up, exposed, archived, budget>>

\* The append of the checkpoint that append itself calls.
AutoCheckpoint ==
    /\ InCall("recurse")
    /\ WriteRecord(NoTxn, "Checkpoint", [op |-> "checkpoint", txn |-> call.txn])
    /\ UNCHANGED <<config, detached, up, ghosts, budget>>

\* The caller of commit has an error and does not know the outcome.
CommitUnknown(t) == client' = [u \in Txn |-> IF u = t THEN "lost" ELSE client[u]]

\* write_all fails after part of the record reached the file; the error goes
\* to the outermost caller and nothing else has changed.
AppendFails ==
    /\ Ready \/ InCall("recurse")
    /\ ~detached
    /\ budget.errors > 0
    /\ file' = Append(file, Torn)
    /\ CommitUnknown(call.txn)
    /\ call' = Idle
    /\ budget' = [budget EXCEPT !.errors = @ - 1]
    /\ UNCHANGED <<config, synced, detached, up, memory, exposed, archived>>

\* With sync_on_every_record: the record is written, its fsync fails, and
\* append returns before next_lsn is advanced.  The record may be that of a
\* checkpoint, one that append called included, whose error the outermost
\* caller gets.
AppendSyncFails(t, type) ==
    /\ Ready \/ (InCall("recurse") /\ type = "Checkpoint")
    /\ config.sync_on_every_record
    /\ budget.errors > 0
    /\ next_lsn <= MaxLsn
    /\ t = NoTxn <=> type = "Checkpoint"
    /\ type = "Data" => client[t] \in {"new", "running"}
    /\ type \in {"Commit", "Abort"} => client[t] = "running"
    /\ file' = Written(t, type)
    /\ IF type = "Data" THEN client' = [client EXCEPT ![t] = "running"]
       ELSE CommitUnknown(IF type = "Checkpoint" THEN call.txn ELSE t)
    /\ call' = Idle
    /\ budget' = [budget EXCEPT !.errors = @ - 1]
    /\ UNCHANGED <<config, synced, detached, up, memory, exposed, archived>>

\* commit: append ...
CommitAppend(t) ==
    /\ Ready
    /\ client[t] = "running"
    /\ WriteRecord(t, "Commit", [op |-> "commit", txn |-> t])
    /\ UNCHANGED <<config, detached, up, ghosts, budget>>

\* The log cannot be read to its end, or the handle is not on it.
Damaged == detached \/ ReadAll(file) # file

\* Fault: the acknowledgement does not wait for the fsync.
CommitSync_NoSync ==
    /\ InCall("commit")
    /\ UNCHANGED synced
    /\ client' = [client EXCEPT ![call.txn] = "acked"]
    /\ exposed' = IF Damaged THEN exposed \cup {call.txn} ELSE exposed
    /\ call' = Idle
    /\ UNCHANGED <<config, file, detached, up, memory, archived, budget>>

\* ... then fsync, and the caller has its answer.
CommitSync ==
    /\ InCall("commit")
    /\ IF config.sync_on_commit THEN SyncFile ELSE UNCHANGED synced
    /\ client' = [client EXCEPT ![call.txn] = "acked"]
    /\ exposed' = IF Damaged THEN exposed \cup {call.txn} ELSE exposed
    /\ call' = Idle
    /\ UNCHANGED <<config, file, detached, up, memory, archived, budget>>

-----------------------------------------------------------------------------
(* Checkpoint and truncation. *)

CheckpointAppend ==
    /\ Ready
    /\ WriteRecord(NoTxn, "Checkpoint", [op |-> "checkpoint", txn |-> NoTxn])
    /\ UNCHANGED <<config, detached, up, ghosts, budget>>

CheckpointSync ==
    /\ InCall("checkpoint")
    /\ SyncFile
    /\ since_checkpoint' = 0
    /\ call' = IF since_truncate >= AutoTruncateThreshold
               THEN [op |-> "truncate", txn |-> NoTxn] ELSE Idle
    /\ UNCHANGED <<config, file, detached, up, next_lsn, last_record_lsn, since_truncate,
                   ghosts, budget>>

\* sync_data fails in commit or checkpoint: the record stays in the file, the
\* counters stay as append left them, and the caller of commit has an error.
SyncFails ==
    /\ call.op \in {"commit", "checkpoint"}
    /\ up
    /\ call.op = "commit" => config.sync_on_commit
    /\ budget.errors > 0
    /\ budget' = [budget EXCEPT !.errors = @ - 1]
    /\ CommitUnknown(call.txn)
    /\ call' = Idle
    /\ UNCHANGED <<config, file, synced, detached, up, memory, exposed, archived>>

\* Position of the last checkpoint, 0 when there is none.
LastCheckpoint(records) ==
    Max({i \in 1..Len(records) : records[i].type = "Checkpoint"} \cup {0})

TruncateCall ==
    /\ Ready
    /\ call' = [op |-> "truncate", txn |-> NoTxn]
    /\ UNCHANGED <<config, file, synced, detached, up, memory, ghosts, budget>>

\* Steps 1 to 4 of truncate_to_checkpoint: the survivors are in the synced
\* temporary file and the handle of the log is closed.  With nothing to drop,
\* and on the error of read_all on a detached handle, the call returns.
TruncateWrite ==
    /\ InCall("truncate")
    /\ call' = IF detached \/ LastCheckpoint(ReadAll(file)) <= 1 THEN Idle
               ELSE [op |-> "rename", txn |-> NoTxn]
    /\ UNCHANGED <<config, file, synced, detached, up, memory, ghosts, budget>>

Survivors(records) == SubSeq(records, LastCheckpoint(records), Len(records))

\* Steps 5 and 6: rename, re-open.  When the file cannot be opened again the
\* handle is left on the removed dummy file.  The rename is taken to be on disk
\* before what is appended and synced after it: the directory is not synced.
TruncateRename ==
    LET records == ReadAll(file)
        dropped == SubSeq(records, 1, LastCheckpoint(records) - 1)
    IN /\ InCall("rename")
       /\ file' = Survivors(records)
       /\ synced' = Len(file')
       /\ archived' = archived \cup Analyze(dropped).committed_txns
       /\ call' = Idle
       /\ \/ since_truncate' = 0 /\ UNCHANGED <<detached, budget>>
          \/ /\ budget.errors > 0
             /\ budget' = [budget EXCEPT !.errors = @ - 1]
             /\ detached' = TRUE
             /\ UNCHANGED since_truncate
       /\ UNCHANGED <<config, up, next_lsn, last_record_lsn, since_checkpoint,
                      client, exposed>>

\* The rename fails: the handle is left on the removed dummy file, the log is as
\* it was, and the error goes to the caller.
TruncateFails ==
    /\ InCall("rename")
    /\ budget.errors > 0
    /\ detached' = TRUE
    /\ call' = Idle
    /\ budget' = [budget EXCEPT !.errors = @ - 1]
    /\ UNCHANGED <<config, file, synced, up, memory, ghosts>>

-----------------------------------------------------------------------------
\* A crash keeps the durable items, any further prefix, and, with Tear, part
\* of the next record.  What survives is on disk when the log is opened next.
Crash ==
    /\ up
    /\ budget.crashes > 0
    /\ \E n \in synced..Len(file) :
          \/ file' = SubSeq(file, 1, n)
          \/ /\ Tear
             /\ n < Len(file)
             /\ file' = Append(SubSeq(file, 1, n), Torn)
    /\ synced' = Len(file')
    /\ up' = FALSE
    /\ detached' = FALSE
    /\ call' = Idle
    /\ client' = [t \in Txn |-> IF client[t] = "running" THEN "lost" ELSE client[t]]
    /\ budget' = [budget EXCEPT !.crashes = @ - 1]
    /\ UNCHANGED <<config, memory, exposed, archived>>

Next == \/ Open
        \/ \E t \in Txn : AppendData(t) \/ AppendAbort(t) \/ CommitAppend(t)
        \/ CommitSync
        \/ AppendFails
        \/ \E t \in Txn \cup {NoTxn}, type \in {"Data", "Commit", "Abort", "Checkpoint"} :
              AppendSyncFails(t, type)
        \/ AutoCheckpoint
        \/ CheckpointAppend
        \/ CheckpointSync
        \/ SyncFails
        \/ TruncateCall
        \/ TruncateWrite
        \/ TruncateRename
        \/ TruncateFails
        \/ Crash

Spec == Init /\ [][Next]_vars
-----------------------------------------------------------------------------
(* Properties. *)

Recovered == archived \cup Analyze(ReadAll(file)).committed_txns

\* With sync_on_commit a transaction whose commit was acknowledged on a log
\* without damage is recovered as committed, now and after any crash, torn
\* record, failed write, fsync or rename, until a truncation archives it.
Durability == config.sync_on_commit =>
    \A t \in Txn \ exposed : client[t] = "acked" => t \in Recovered

\* "If true, fsync after every commit": the same of every acknowledged commit,
\* those that commit acknowledged behind a damaged record included.
AckedRecovered == config.sync_on_commit =>
    \A t \in Txn : client[t] = "acked" => t \in Recovered

\* The readable log is in LSN order and the next LSN is above all of it; only
\* with sync_on_every_record does a failed fsync leave a record whose LSN the
\* next append uses again.
LsnOrder ==
    LET records == ReadAll(file)
        slack == IF config.sync_on_every_record THEN 1 ELSE 0
    IN /\ \A i, j \in 1..Len(records) : i < j => records[i].lsn < records[j].lsn + slack
       /\ up => \A i \in 1..Len(records) : records[i].lsn < next_lsn + slack

\* The one-pass analysis agrees with the definition by the whole log that the
\* crash harness uses: a winner has a commit record, a loser has data and
\* neither a commit nor an abort record ...
Has(records, t, type) ==
    \E i \in 1..Len(records) : records[i].txn = t /\ records[i].type = type

OutcomesExact ==
    LET records == ReadAll(file)
        result == Analyze(records)
    IN /\ result.committed_txns = {t \in Txn : Has(records, t, "Commit")}
       /\ result.loser_txns = {t \in Txn : /\ Has(records, t, "Data")
                                           /\ ~Has(records, t, "Commit")
                                           /\ ~Has(records, t, "Abort")}

\* ... so that no data record is both redone and undone, and redo and undo
\* together leave out only aborted transactions.
AnalysisExact ==
    LET records == ReadAll(file)
        data == {i \in 1..Len(records) : records[i].type = "Data"}
    IN /\ OutcomesExact
       /\ Len(Redo(records)) + Len(Undo(records))
             = Cardinality({i \in data : ~Has(records, records[i].txn, "Abort")})

\* "Interval (in records) between automatic checkpoints": when no client calls
\* checkpoint, two checkpoint records are never adjacent.
CheckpointsSpaced ==
    \A i \in 1..(Len(file) - 1) :
        ~(file[i].type = "Checkpoint" /\ file[i + 1].type = "Checkpoint")
-----------------------------------------------------------------------------
(* The configurations the runs open a log with: checkpoints only when the  *)
(* client asks for them, an interval short enough to be reached (that of   *)
(* WalConfig::default is 1000), every record synced, nothing synced.       *)

Manual == [checkpoint_interval |-> 0, sync_on_commit |-> TRUE,
           sync_on_every_record |-> FALSE]
Automatic(n) == [Manual EXCEPT !.checkpoint_interval = n]
EveryRecord == [Manual EXCEPT !.sync_on_every_record = TRUE]
Unsynced == [Manual EXCEPT !.sync_on_commit = FALSE]

AllConfigs == {Manual, Automatic(4), EveryRecord, Unsynced}
ManualOnly == {Manual}
AutomaticOnly == {Automatic(2)}

\* Clients that never call checkpoint or truncate themselves.
NextNoCheckpoint == \/ Open
                    \/ \E t \in Txn : AppendData(t) \/ AppendAbort(t) \/ CommitAppend(t)
                    \/ CommitSync
                    \/ AutoCheckpoint
                    \/ CheckpointSync

SpecNoCheckpoint == Init /\ [][NextNoCheckpoint]_vars

TxnSymmetry == Permutations(Txn)
=============================================================================
