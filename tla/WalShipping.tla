----------------------------- MODULE WalShipping -----------------------------
(***************************************************************************)
(* WalShipper and ReplicaApplier (cendb-replication/src/wal_shipping.rs).  *)
(* The primary seals segments with growing LSNs and ships them, in the     *)
(* order the caller likes, as files of a directory; the replica, another   *)
(* process, lists that directory whenever it wants.  A file is created,    *)
(* written and synced in that order, so it can be found empty; the calls   *)
(* can fail, and a restarted shipper has forgotten what it shipped.        *)
(***************************************************************************)
EXTENDS Integers, FiniteSets, FiniteSetsExt

CONSTANTS MaxSegments, MaxTime, Interval, MaxRestarts   \* bounds; Interval is the policy's duration

VARIABLES policy,             \* "OnCommit", "Interval" or "OnSegmentSeal"
          sealed, now,        \* the primary's last LSN, the clock
          last_shipped_lsn, last_ship_time, segments_shipped,
          writing,            \* the LSN being written, 0 if none
          files,              \* the directory: LSN -> is the segment whole
          last_applied_lsn,   \* of the replica
          counted,            \* the segments catch_up has gone over
          partial,            \* those of them that were not whole, and not being written
          broken, restarts    \* calls that failed midway, restarts of the shipper

ship_vars == <<policy, sealed, now, last_shipped_lsn, last_ship_time, segments_shipped, writing,
               files, last_applied_lsn, counted, partial, broken, restarts>>

Policy == {"OnCommit", "Interval", "OnSegmentSeal"}
Never == -1

Fresh == last_shipped_lsn = 0 /\ last_ship_time = Never /\ segments_shipped = 0 /\ writing = 0

ShipInit == /\ policy \in Policy /\ sealed = 0 /\ now = 0 /\ Fresh
            /\ files = [l \in {} |-> TRUE] /\ last_applied_lsn = 0
            /\ counted = {} /\ partial = {} /\ broken = 0 /\ restarts = 0

ShouldShip == policy = "Interval" /\ last_ship_time # Never => now - last_ship_time >= Interval

Seal == /\ sealed < MaxSegments /\ sealed' = sealed + 1
        /\ UNCHANGED <<policy, now, last_shipped_lsn, last_ship_time, segments_shipped, writing,
                       files, last_applied_lsn, counted, partial, broken, restarts>>

Tick == /\ now < MaxTime /\ now' = now + 1
        /\ UNCHANGED <<policy, sealed, last_shipped_lsn, last_ship_time, segments_shipped, writing,
                       files, last_applied_lsn, counted, partial, broken, restarts>>

\* Mutant: only the very segment shipped last is refused.
AcceptsOlder(lsn) == lsn # last_shipped_lsn

\* ship_segment refuses what is not newer than the last one; File::create
\* empties a file that is already there.
Accepts(lsn) == lsn > last_shipped_lsn

CreateFile(lsn) ==
    /\ writing = 0 /\ ShouldShip /\ Accepts(lsn)
    /\ writing' = lsn
    /\ files' = [l \in DOMAIN files \cup {lsn} |-> IF l = lsn THEN FALSE ELSE files[l]]
    /\ UNCHANGED <<policy, sealed, now, last_shipped_lsn, last_ship_time, segments_shipped,
                   last_applied_lsn, counted, partial, broken, restarts>>

WriteAndSync ==
    /\ writing # 0
    /\ files' = [files EXCEPT ![writing] = TRUE]
    /\ last_shipped_lsn' = writing /\ last_ship_time' = now
    /\ segments_shipped' = segments_shipped + 1 /\ writing' = 0
    /\ UNCHANGED <<policy, sealed, now, last_applied_lsn, counted, partial, broken, restarts>>

\* write_all or sync_all reports an error: the file stays as it is
WriteFails ==
    /\ writing # 0 /\ writing' = 0 /\ broken' = broken + 1
    /\ broken < MaxRestarts
    /\ UNCHANGED <<policy, sealed, now, last_shipped_lsn, last_ship_time, segments_shipped,
                   files, last_applied_lsn, counted, partial, restarts>>

\* The primary's process restarts: WalShipper::new.
Restart ==
    /\ restarts < MaxRestarts /\ restarts' = restarts + 1
    /\ last_shipped_lsn' = 0 /\ last_ship_time' = Never /\ segments_shipped' = 0 /\ writing' = 0
    /\ UNCHANGED <<policy, sealed, now, files, last_applied_lsn, counted, partial, broken>>

NewFiles == {l \in DOMAIN files : l > last_applied_lsn}

CatchUp ==
    /\ NewFiles # {}
    /\ counted' = counted \cup NewFiles
    /\ partial' = partial \cup {l \in NewFiles : ~files[l] /\ l # writing}
    /\ last_applied_lsn' = Max(NewFiles)
    /\ UNCHANGED <<policy, sealed, now, last_shipped_lsn, last_ship_time, segments_shipped,
                   writing, files, broken, restarts>>

ShipNext == \/ Seal \/ Tick \/ WriteAndSync \/ WriteFails \/ Restart \/ CatchUp
            \/ \E lsn \in 1..sealed : CreateFile(lsn)

ShipSpec == ShipInit /\ [][ShipNext]_ship_vars

-----------------------------------------------------------------------------
\* As long as the shipper has neither restarted nor failed, the replica has gone
\* over every segment up to last_applied_lsn: none arrives behind its back.
NothingSkipped == restarts + broken = 0 => \A l \in DOMAIN files : l <= last_applied_lsn => l \in counted

\* The replica takes a segment for whole that is not only if it looked while
\* that segment was being written, or after its shipping had been cut short.
PartialOnlyOnFault == broken + restarts = 0 => partial = {}

\* Segments that shipping reports as shipped stay whole in the directory, also
\* when an earlier one is shipped again, unless that shipping is cut short.
ShippedWhole == \A l \in DOMAIN files : l <= last_shipped_lsn /\ l # writing /\ ~files[l] => broken + restarts > 0

ShippingSafe == NothingSkipped /\ PartialOnlyOnFault /\ ShippedWhole
=============================================================================
