------------------------------- MODULE Chaos --------------------------------
(***************************************************************************)
(* The fault-injecting file system and the crash harness (cendb-chaos),    *)
(* whose analysis and reader are those of the write-ahead log.             *)
(***************************************************************************)
EXTENDS WriteAheadLog

(***************************************************************************)
(* The file system with scheduled faults of cendb-chaos: the operations    *)
(* and the crash of src/vfs.rs, the schedule of src/controller.rs.         *)
(* The client's view is a ghost: what its successful calls wrote, and what *)
(* it had written when a sync last succeeded.                              *)
(***************************************************************************)
CONSTANTS Path, Data, Offsets,  \* file names, byte strings, offsets of writes
          Schedules,            \* functions from operation numbers to faults [type, n, path]
          VfsMaxOps,            \* bound: operations between crashes
          MaxReboots            \* bound: crashes

\* The path of a fault: the files whose name contains its path_filter, all of them without one.
ASSUME ChaosAssumption == \A s \in Schedules : \A op \in DOMAIN s : s[op] \in Seq([type : STRING, n : Nat, path : SUBSET Path])

VARIABLES volatile, durable,    \* files by name
          faults, op_counter, enabled, fired,   \* ChaosController
          view, vfs_synced,     \* ghosts: the client's files, and as of the last sync
          doubt,                \* ghost: files with an error or a corruption
          lied,                 \* ghost: files a silent fault left unsynced
          reboots
vfs_vars == <<volatile, durable, faults, op_counter, enabled, fired, view, vfs_synced, doubt, lied, reboots>>
controller == <<faults, op_counter, enabled, fired>>

NoFiles == <<>>
VfsWith(f, p, bytes) == [q \in DOMAIN f \cup {p} |-> IF q = p THEN bytes ELSE f[q]]
Flip(b) == -b

VfsInit == /\ volatile = NoFiles /\ durable = NoFiles
           /\ faults \in Schedules /\ op_counter = 0 /\ enabled = TRUE /\ fired = {}
           /\ view = NoFiles /\ vfs_synced = NoFiles /\ doubt = {} /\ lied = {} /\ reboots = 0

\* check_faults: an operation's faults fire once, also when none is for the path
Armed(p) == IF enabled /\ op_counter \notin fired /\ op_counter \in DOMAIN faults
            THEN {i \in DOMAIN faults[op_counter] : p \in faults[op_counter][i].path} ELSE {}
CountOp == /\ op_counter < VfsMaxOps /\ op_counter' = op_counter + 1
           /\ fired' = IF enabled /\ op_counter \in DOMAIN faults THEN fired \cup {op_counter} ELSE fired
           /\ UNCHANGED <<faults, enabled>>
\* The first fault of a type the operation looks at decides
FirstOf(p, types) ==
    LET hits == {i \in Armed(p) : faults[op_counter][i].type \in types}
    IN  IF hits = {} THEN [type |-> "None", n |-> 0, path |-> {}]
        ELSE faults[op_counter][CHOOSE i \in hits : \A j \in hits : i <= j]

Create(p) ==
    LET failed == FirstOf(p, {"IoError"}).type = "IoError" IN
    /\ CountOp
    /\ volatile' = IF failed THEN volatile ELSE VfsWith(volatile, p, <<>>)
    /\ view' = IF failed THEN view ELSE VfsWith(view, p, <<>>)
    /\ doubt' = IF failed THEN doubt \cup {p} ELSE doubt
    /\ UNCHANGED <<durable, vfs_synced, lied, reboots>>

\* The file is filled with zeros up to the offset
Patched(old, off, bytes) ==
    [i \in 1..(IF off + Len(bytes) > Len(old) THEN off + Len(bytes) ELSE Len(old)) |->
       IF i \in (off + 1)..(off + Len(bytes)) THEN bytes[i - off] ELSE IF i <= Len(old) THEN old[i] ELSE 0]

\* A mutant: a torn write reports success.
Write_TornIsOk(p, off, bytes) ==
    LET f == FirstOf(p, {"IoError", "TornWrite", "CorruptData"})
        torn == SubSeq(bytes, 1, IF f.n < Len(bytes) THEN f.n ELSE Len(bytes))
    IN  /\ CountOp
        /\ volatile' = IF p \notin DOMAIN volatile \/ f.type = "IoError" THEN volatile
                       ELSE VfsWith(volatile, p, Patched(volatile[p], off, IF f.type = "TornWrite" THEN torn ELSE bytes))
        /\ view' = IF p \in DOMAIN view /\ f.type # "IoError" THEN VfsWith(view, p, Patched(view[p], off, bytes)) ELSE view
        /\ UNCHANGED <<durable, vfs_synced, doubt, lied, reboots>>
Write(p, off, bytes) ==
    LET f == FirstOf(p, {"IoError", "TornWrite", "CorruptData"})
        torn == SubSeq(bytes, 1, IF f.n < Len(bytes) THEN f.n ELSE Len(bytes))
        flipped == [i \in DOMAIN bytes |-> IF i = f.n + 1 THEN Flip(bytes[i]) ELSE bytes[i]]
        stored == CASE f.type = "TornWrite" -> torn [] f.type = "CorruptData" -> flipped [] OTHER -> bytes
        found == p \in DOMAIN volatile
        ok == found /\ f.type \in {"None", "CorruptData"}
    IN  /\ CountOp
        /\ volatile' = IF found /\ f.type # "IoError" THEN VfsWith(volatile, p, Patched(volatile[p], off, stored)) ELSE volatile
        /\ view' = IF ok /\ p \in DOMAIN view THEN VfsWith(view, p, Patched(view[p], off, bytes)) ELSE view
        /\ doubt' = IF f.type # "None" \/ (found # (p \in DOMAIN view)) THEN doubt \cup {p} ELSE doubt
        /\ UNCHANGED <<durable, vfs_synced, lied, reboots>>
AppendTo(p, bytes) == p \in DOMAIN volatile /\ Write(p, Len(volatile[p]), bytes)

Fsync(p) ==
    LET f == FirstOf(p, {"IoError", "SilentFsyncFail"})
        copied == f.type = "None" /\ p \in DOMAIN volatile
    IN  /\ CountOp
        /\ durable' = IF copied THEN VfsWith(durable, p, volatile[p]) ELSE durable
        /\ vfs_synced' = IF f.type # "IoError" /\ p \in DOMAIN view THEN VfsWith(vfs_synced, p, view[p]) ELSE vfs_synced
        /\ lied' = IF f.type = "SilentFsyncFail" THEN lied \cup {p} ELSE lied
        /\ UNCHANGED <<volatile, view, doubt, reboots>>

\* The schedule is cleared too: recovery runs without faults
CrashAndReboot ==
    /\ reboots < MaxReboots /\ reboots' = reboots + 1
    /\ volatile' = durable
    /\ faults' = NoFiles /\ op_counter' = 0 /\ fired' = {} /\ enabled' = TRUE
    /\ view' = vfs_synced
    /\ UNCHANGED <<durable, vfs_synced, doubt, lied>>
SetEnabled(on) == enabled # on /\ enabled' = on
                  /\ UNCHANGED <<volatile, durable, faults, op_counter, fired, view, vfs_synced, doubt, lied, reboots>>

VfsNext == \/ \E p \in Path : Create(p) \/ Fsync(p)
           \/ \E p \in Path, bytes \in Data : AppendTo(p, bytes) \/ \E off \in Offsets : Write(p, off, bytes)
           \/ CrashAndReboot
           \/ \E on \in BOOLEAN : SetEnabled(on)
VfsSpec == VfsInit /\ [][VfsNext]_vfs_vars

-----------------------------------------------------------------------------
\* A file on which no call failed, nothing was corrupted and no sync lied
\* holds what the client wrote, and after any number of crashes what it had
\* written when it last synced: a fault on one file never shows on another.
VfsHonest == \A p \in Path \ (doubt \cup lied) :
    /\ (p \in DOMAIN volatile) = (p \in DOMAIN view)
    /\ p \in DOMAIN view => volatile[p] = view[p]
    /\ (p \in DOMAIN vfs_synced) = (p \in DOMAIN durable)
    /\ p \in DOMAIN vfs_synced => durable[p] = vfs_synced[p]

-----------------------------------------------------------------------------
(***************************************************************************)
(* The crash tests of cendb-chaos: src/crash_simulator.rs on records in    *)
(* memory, src/disk_crash_harness.rs on the log file.  A workload runs     *)
(* transactions one after the other, a crash cuts or corrupts the log, and *)
(* the analysis is compared with the sets computed from the survivors.     *)
(*                                                                         *)
(* The draws of the generators are choices.  Bytes are left out: an offset *)
(* names a record, and whether it is at its end.  The analysis and the     *)
(* reader are those of the write-ahead log.                                *)
(***************************************************************************)
CONSTANTS MaxTxns, HarnessMaxOps  \* num_txns and num_ops

ASSUME HarnessAssumption == MaxTxns \in Nat

VARIABLES log,          \* the records that were written
          txn, ops,     \* the current transaction and its data records
          crashed_log,  \* what the crash left
          phase         \* "run", "memory", "disk": before and after the crash
harness_vars == <<log, txn, ops, crashed_log, phase>>

Record(type) == [lsn |-> Len(log) + 1, txn |-> txn, type |-> type]

HarnessInit == log = <<>> /\ txn = 1 /\ ops = 0 /\ crashed_log = <<>> /\ phase = "run"
HarnessAppend == /\ phase = "run" /\ txn <= MaxTxns /\ ops < HarnessMaxOps
              /\ log' = Append(log, Record("Data")) /\ ops' = ops + 1
              /\ UNCHANGED <<txn, crashed_log, phase>>
\* Commit, abort, or leave the transaction in flight
EndTxn(how) == /\ phase = "run" /\ txn <= MaxTxns /\ ops > 0
               /\ log' = IF how = "InFlight" THEN log ELSE Append(log, Record(how))
               /\ txn' = txn + 1 /\ ops' = 0
               /\ UNCHANGED <<crashed_log, phase>>

\* CrashPoint: records are dropped, or a payload changes under a new checksum,
\* which no analysis sees
CrashInMemory == /\ phase = "run" /\ phase' = "memory"
                 /\ \E n \in 0..Len(log) : crashed_log' = SubSeq(log, 1, n)
                 /\ UNCHANGED <<log, txn, ops>>

\* DiskCrashMode: a cut within a record tears it, so does a flipped byte
CutAt(n, within) == SubSeq(log, 1, n) \o (IF within THEN <<Torn>> ELSE <<>>)
Flipped(f, i) == [f EXCEPT ![i] = Torn]
CrashOnDisk ==
    /\ phase = "run" /\ phase' = "disk"
    /\ \E n \in 0..Len(log), within \in BOOLEAN :
         /\ within => n < Len(log)
         /\ LET cut == CutAt(n, within) IN
            crashed_log' = cut \/ \E i \in DOMAIN cut : crashed_log' = Flipped(cut, i)
    /\ UNCHANGED <<log, txn, ops>>

HarnessNext == HarnessAppend \/ (\E how \in {"Commit", "Abort", "InFlight"} : EndTxn(how)) \/ CrashInMemory \/ CrashOnDisk
HarnessSpec == HarnessInit /\ [][HarnessNext]_harness_vars

\* A mutant: damaged records are skipped and reading goes on.
SurvivingSkips == SelectSeq(crashed_log, LAMBDA r : r # Torn)
Surviving == IF phase = "disk" THEN ReadAll(crashed_log) ELSE crashed_log

HarnessWith(type) == {Surviving[i].txn : i \in {j \in DOMAIN Surviving : Surviving[j].type = type}}
ExpectedCommitted == HarnessWith("Commit")
ExpectedLosers == HarnessWith("Data") \ (HarnessWith("Commit") \cup HarnessWith("Abort"))
Verified == /\ Analyze(Surviving).committed_txns = ExpectedCommitted
            /\ Analyze(Surviving).loser_txns = ExpectedLosers

-----------------------------------------------------------------------------
WasEnded(t, type) == \E i \in DOMAIN log : log[i] = [lsn |-> i, txn |-> t, type |-> type]
LastOf(t) == CHOOSE i \in DOMAIN log : log[i].txn = t /\ \A j \in DOMAIN log : log[j].txn = t => j <= i

\* Every workload and every crash verifies; the survivors are a prefix of what
\* was written, so a recovered commit is never a phantom, a transaction that
\* committed is lost only with its last record, and all but one of the losers
\* of the cut were in flight before it.
HarnessVerifies == phase # "run" =>
    /\ Verified
    /\ Len(Surviving) <= Len(log) /\ Surviving = SubSeq(log, 1, Len(Surviving))
    /\ \A t \in 1..MaxTxns : /\ t \in Analyze(Surviving).committed_txns => WasEnded(t, "Commit")
                             /\ WasEnded(t, "Commit") => (t \in Analyze(Surviving).committed_txns) = (LastOf(t) <= Len(Surviving))
    /\ Cardinality({t \in Analyze(Surviving).loser_txns : WasEnded(t, "Commit") \/ WasEnded(t, "Abort")}) <= 1
=============================================================================
