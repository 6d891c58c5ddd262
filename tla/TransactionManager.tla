-------------------------- MODULE TransactionManager --------------------------
(***************************************************************************)
(* TransactionManager of cendb-tx/src/mvcc.rs: the timestamp oracle, the   *)
(* transaction table and optimistic (OCC) validation at commit.  Every     *)
(* method takes &mut self, so each one is a single action.  A call that    *)
(* returns an error without touching the state (unknown id, transaction    *)
(* already finished) is a stuttering step.                                 *)
(*                                                                         *)
(* Abstractions: a write set is the set of its keys (duplicates in the Vec *)
(* change nothing); NoTs stands for a missing commit_ts and for a key that *)
(* latest_writes does not hold.  The state Validation is never assigned.   *)
(***************************************************************************)
EXTENDS Integers

CONSTANTS Key,        \* keys transactions write
          Isolation,  \* isolation levels offered to begin
          MaxTxn      \* bound: transactions begun in one behaviour

ASSUME MaxTxnAssumption == MaxTxn \in Nat

VARIABLES current,        \* the oracle: last timestamp handed out
          next_txn_id,    \* id of the next transaction
          txns,           \* id -> Transaction, for the ids begun
          committed_ts,   \* timestamps at which a transaction committed
          latest_writes   \* key -> commit_ts of its latest committed writer

vars == <<current, next_txn_id, txns, committed_ts, latest_writes>>

NoTs == 0

Begun == 1..(next_txn_id - 1)

Transaction == [read_ts : Nat, commit_ts : Nat,
                state : {"Active", "Committed", "Aborted"},
                isolation : Isolation, write_set : SUBSET Key]

TypeOK == /\ current \in Nat \ {0}
          /\ next_txn_id \in 1..(MaxTxn + 1)
          /\ txns \in [Begun -> Transaction]
          /\ committed_ts \in SUBSET Nat
          /\ latest_writes \in [Key -> Nat]

Active(t) == t \in Begun /\ txns[t].state = "Active"
Committed(t) == t \in Begun /\ txns[t].state = "Committed"

-----------------------------------------------------------------------------
Init == /\ current = 1
        /\ next_txn_id = 1
        /\ txns = [t \in {} |-> {}]
        /\ committed_ts = {}
        /\ latest_writes = [k \in Key |-> NoTs]

\* begin: the snapshot is everything the oracle has handed out so far.
Begin(iso) ==
    /\ next_txn_id <= MaxTxn
    /\ next_txn_id' = next_txn_id + 1
    /\ txns' = [t \in 1..next_txn_id |->
                  IF t = next_txn_id
                  THEN [read_ts |-> current, commit_ts |-> NoTs,
                        state |-> "Active", isolation |-> iso,
                        write_set |-> {}]
                  ELSE txns[t]]
    /\ UNCHANGED <<current, committed_ts, latest_writes>>

\* record_write: the isolation level is not consulted.
RecordWrite(t, k) ==
    /\ Active(t)
    /\ txns' = [txns EXCEPT ![t].write_set = @ \cup {k}]
    /\ UNCHANGED <<current, next_txn_id, committed_ts, latest_writes>>

\* Fault: validation compares with >= and rejects what the snapshot contains.
Conflict_NotStrict(t) ==
    \E k \in txns[t].write_set : latest_writes[k] >= txns[t].read_ts

\* The verdict of OCC validation: some key of the write set has a committed
\* write newer than the snapshot.
Conflict(t) ==
    \E k \in txns[t].write_set : latest_writes[k] > txns[t].read_ts

\* Fault: the commit is not published to latest_writes.
Commit_NoPublish(t) ==
    /\ Active(t)
    /\ ~Conflict(t)
    /\ current' = current + 1
    /\ committed_ts' = committed_ts \cup {current + 1}
    /\ txns' = [txns EXCEPT ![t].state = "Committed",
                            ![t].commit_ts = current + 1]
    /\ UNCHANGED <<next_txn_id, latest_writes>>

\* commit, validation succeeds: allocate commit_ts and publish.
Commit(t) ==
    /\ Active(t)
    /\ ~Conflict(t)
    /\ current' = current + 1
    /\ latest_writes' = [k \in Key |-> IF k \in txns[t].write_set
                                       THEN current + 1
                                       ELSE latest_writes[k]]
    /\ committed_ts' = committed_ts \cup {current + 1}
    /\ txns' = [txns EXCEPT ![t].state = "Committed",
                            ![t].commit_ts = current + 1]
    /\ UNCHANGED next_txn_id

\* Fault: the timestamp is allocated before validation and lost on conflict.
CommitConflict_BurnsTs(t) ==
    /\ Active(t)
    /\ Conflict(t)
    /\ current' = current + 1
    /\ txns' = [txns EXCEPT ![t].state = "Aborted"]
    /\ UNCHANGED <<next_txn_id, committed_ts, latest_writes>>

\* commit, validation fails: the transaction is aborted.
CommitConflict(t) ==
    /\ Active(t)
    /\ Conflict(t)
    /\ txns' = [txns EXCEPT ![t].state = "Aborted"]
    /\ UNCHANGED <<current, next_txn_id, committed_ts, latest_writes>>

Abort(t) ==
    /\ Active(t)
    /\ txns' = [txns EXCEPT ![t].state = "Aborted"]
    /\ UNCHANGED <<current, next_txn_id, committed_ts, latest_writes>>

Next == \/ \E iso \in Isolation : Begin(iso)
        \/ \E t \in Begun : \/ \E k \in Key : RecordWrite(t, k)
                            \/ Commit(t)
                            \/ CommitConflict(t)
                            \/ Abort(t)

Spec == Init /\ [][Next]_vars
-----------------------------------------------------------------------------
(* Properties. *)

\* No lost update: two committed transactions that wrote a common key did not
\* overlap; one of them had committed in the other's snapshot.  This is what
\* the validation loop of commit is for.
FirstCommitterWins ==
    \A t, u \in Begun :
        /\ t # u
        /\ Committed(t)
        /\ Committed(u)
        /\ txns[t].write_set \cap txns[u].write_set # {}
        => \/ txns[t].commit_ts <= txns[u].read_ts
           \/ txns[u].commit_ts <= txns[t].read_ts

\* Validation is exact: what latest_writes says about an active transaction is
\* what the whole history of committed transactions says about it.  No
\* conflict is missed and no transaction is aborted without a reason.
ValidationExact ==
    \A t \in Begun : Active(t) =>
        (Conflict(t) <=> \E u \in Begun :
                            /\ Committed(u)
                            /\ txns[u].commit_ts > txns[t].read_ts
                            /\ txns[u].write_set \cap txns[t].write_set # {})

\* Every timestamp the oracle handed out after the start belongs to exactly one
\* committed transaction, and is_committed answers for exactly these.
TimestampsAccounted ==
    /\ committed_ts = 2..current
    /\ \A c \in committed_ts : \E t \in Begun :
          Committed(t) /\ txns[t].commit_ts = c
    /\ \A t, u \in Begun :
          Committed(t) /\ Committed(u) /\ txns[t].commit_ts = txns[u].commit_ts
             => t = u

\* The committed transactions in the snapshot of t.
Snapshot(t) == {u \in Begun : Committed(u) /\ txns[u].commit_ts <= txns[t].read_ts}

-----------------------------------------------------------------------------
(* The inductive invariant: what relates the tables to one another.        *)

\* No snapshot lies in the future, a transaction commits after its snapshot and
\* has no commit_ts unless it committed.
TimestampsOrdered ==
    \A t \in Begun :
        /\ txns[t].read_ts \in 1..current
        /\ IF Committed(t)
           THEN /\ txns[t].commit_ts \in 2..current
                /\ txns[t].commit_ts > txns[t].read_ts
           ELSE txns[t].commit_ts = NoTs

\* latest_writes[k] is the greatest commit_ts among the committed writers of k.
LatestWritesExact ==
    /\ \A t \in Begun : Committed(t) =>
          \A k \in txns[t].write_set : latest_writes[k] >= txns[t].commit_ts
    /\ \A k \in Key : latest_writes[k] # NoTs =>
          \E t \in Begun : /\ Committed(t)
                           /\ k \in txns[t].write_set
                           /\ txns[t].commit_ts = latest_writes[k]

\* The inductive invariant behind the theorems of TransactionManagerProofs.
IInv == /\ TypeOK
        /\ TimestampsOrdered
        /\ LatestWritesExact
        /\ TimestampsAccounted
        /\ FirstCommitterWins
-----------------------------------------------------------------------------
(* The transaction manager implements SnapshotIsolation: a snapshot is a   *)
(* prefix of the commit order, and the commit order is the order of the    *)
(* commit timestamps 2, 3, ..., current.                                   *)

CommitOrder == [i \in 1..(current - 1) |->
                  CHOOSE t \in Begun : Committed(t) /\ txns[t].commit_ts = i + 1]

Status == [t \in 1..MaxTxn |->
             IF t \notin Begun THEN "none"
             ELSE CASE txns[t].state = "Active" -> "active"
                    [] txns[t].state = "Committed" -> "committed"
                    [] txns[t].state = "Aborted" -> "aborted"]

Start == [t \in 1..MaxTxn |-> IF t \in Begun THEN txns[t].read_ts - 1 ELSE 0]

Writes == [t \in 1..MaxTxn |-> IF t \in Begun THEN txns[t].write_set ELSE {}]

SI == INSTANCE SnapshotIsolation WITH
        Txn <- 1..MaxTxn,
        Key <- Key,
        status <- Status,
        start <- Start,
        writes <- Writes,
        history <- CommitOrder

\* Every behaviour of the manager is one of SnapshotIsolation.
ImplementsSI == SI!Spec
=============================================================================
