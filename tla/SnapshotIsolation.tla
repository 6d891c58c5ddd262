-------------------------- MODULE SnapshotIsolation --------------------------
(***************************************************************************)
(* What an optimistic, multi-writer transaction manager promises, without  *)
(* timestamps, locks or tables: transactions commit one after another, each*)
(* reads the database as it was when the transaction began, and of two     *)
(* transactions that overlap and write a common key at most one commits    *)
(* (first committer wins).  TransactionManager is shown to implement this. *)
(***************************************************************************)
EXTENDS Naturals, Sequences

CONSTANTS Txn,   \* transaction identities
          Key    \* keys a transaction may write

VARIABLES status,   \* what has become of each transaction
          start,    \* length of history when the transaction began
          writes,   \* keys the transaction has written
          history   \* committed transactions, in commit order

vars == <<status, start, writes, history>>

Init == /\ status = [t \in Txn |-> "none"]
        /\ start = [t \in Txn |-> 0]
        /\ writes = [t \in Txn |-> {}]
        /\ history = << >>

Begin(t) == /\ status[t] = "none"
            /\ status' = [status EXCEPT ![t] = "active"]
            /\ start' = [start EXCEPT ![t] = Len(history)]
            /\ UNCHANGED <<writes, history>>

Write(t, k) == /\ status[t] = "active"
               /\ writes' = [writes EXCEPT ![t] = @ \cup {k}]
               /\ UNCHANGED <<status, start, history>>

\* Transactions that committed after t began.
CommittedSince(t) == {history[i] : i \in (start[t] + 1)..Len(history)}

Commit(t) == /\ status[t] = "active"
             /\ \A u \in CommittedSince(t) : writes[u] \cap writes[t] = {}
             /\ status' = [status EXCEPT ![t] = "committed"]
             /\ history' = Append(history, t)
             /\ UNCHANGED <<start, writes>>

Abort(t) == /\ status[t] = "active"
            /\ status' = [status EXCEPT ![t] = "aborted"]
            /\ UNCHANGED <<start, writes, history>>

Next == \E t \in Txn : \/ Begin(t)
                       \/ \E k \in Key : Write(t, k)
                       \/ Commit(t)
                       \/ Abort(t)

Spec == Init /\ [][Next]_vars
=============================================================================
