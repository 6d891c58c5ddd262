----------------------- MODULE TransactionManagerProofs -----------------------
(***************************************************************************)
(* Proofs about TransactionManager and Mvcc, the two modules of mvcc.rs,   *)
(* for every set of keys, every set of isolation levels and every bound on *)
(* the number of transactions.  The properties rest on one inductive       *)
(* invariant, IInv: FirstCommitterWins is not inductive by itself, because *)
(* nothing in it says that latest_writes remembers the committed writers.  *)
(* The steps of the version collector leave IInv alone, and what           *)
(* is_visible_to shows a transaction is proved from it at the end.         *)
(***************************************************************************)
EXTENDS MCTransactionManager, SequenceTheorems, FiniteSetTheorems, WellFoundedInduction, TLAPS

\* The initial state satisfies the inductive invariant.
LEMMA InitIInv == Init => IInv
BY MaxTxnAssumption
   DEF Init, IInv, TypeOK, TimestampsOrdered, LatestWritesExact,
       TimestampsAccounted, FirstCommitterWins, Begun, Committed, NoTs, Transaction

\* begin preserves the inductive invariant: the new transaction is active and
\* no committed transaction changes.
LEMMA BeginIInv == ASSUME IInv, NEW iso \in Isolation, Begin(iso) PROVE IInv'
<1>1. /\ Begun' = Begun \cup {next_txn_id}
      /\ next_txn_id \notin Begun
      /\ next_txn_id \in Begun'
      /\ \A t \in Begun : txns'[t] = txns[t]
      /\ txns'[next_txn_id] = [read_ts |-> current, commit_ts |-> NoTs,
                        state |-> "Active", isolation |-> iso,
                        write_set |-> {}]
  BY MaxTxnAssumption DEF Begin, IInv, Begun, TypeOK
<1>2. /\ TypeOK /\ TimestampsOrdered /\ LatestWritesExact
      /\ TimestampsAccounted /\ FirstCommitterWins
  BY DEF IInv
<1>3. UNCHANGED <<current, committed_ts, latest_writes>>
  BY DEF Begin
<1>4. \A t \in Begun' : Committed(t)' => t \in Begun /\ Committed(t) /\ txns'[t] = txns[t]
  BY <1>1 DEF Committed
<1>5. \A t \in Begun : Committed(t) => t \in Begun' /\ Committed(t)'
  BY <1>1 DEF Committed
<1>6. TypeOK'
  BY <1>1, <1>2, MaxTxnAssumption DEF TypeOK, Transaction, NoTs, Begin, Begun
<1>7. TimestampsOrdered'
  BY <1>1, <1>2, <1>3, MaxTxnAssumption DEF TypeOK, TimestampsOrdered, Begin, Begun, Committed
<1>8. LatestWritesExact'
  <2>1. ASSUME NEW t \in Begun', Committed(t)', NEW k \in txns'[t].write_set
        PROVE  latest_writes'[k] >= txns'[t].commit_ts
    BY <1>2, <1>3, <1>4, <2>1 DEF LatestWritesExact
  <2>2. ASSUME NEW k \in Key, latest_writes'[k] # NoTs
        PROVE  \E t \in Begun' : /\ Committed(t)'
                                 /\ k \in txns'[t].write_set
                                 /\ txns'[t].commit_ts = latest_writes'[k]
    <3>1. PICK t \in Begun : /\ Committed(t) /\ k \in txns[t].write_set
                             /\ txns[t].commit_ts = latest_writes[k]
      BY <1>2, <1>3, <2>2 DEF LatestWritesExact
    <3> QED BY <1>1, <1>3, <1>5, <3>1
  <2> QED BY <2>1, <2>2 DEF LatestWritesExact
<1>9. TimestampsAccounted'
  <2>1. committed_ts' = 2..current'
    BY <1>2, <1>3 DEF TimestampsAccounted
  <2>2. ASSUME NEW c \in committed_ts'
        PROVE  \E t \in Begun' : Committed(t)' /\ txns'[t].commit_ts = c
    <3>1. PICK t \in Begun : Committed(t) /\ txns[t].commit_ts = c
      BY <1>2, <1>3 DEF TimestampsAccounted
    <3> QED BY <1>1, <1>5, <3>1
  <2>3. ASSUME NEW t \in Begun', NEW u \in Begun', Committed(t)', Committed(u)',
               txns'[t].commit_ts = txns'[u].commit_ts
        PROVE  t = u
    BY <1>2, <1>4, <2>3 DEF TimestampsAccounted
  <2> QED BY <2>1, <2>2, <2>3 DEF TimestampsAccounted
<1>10. FirstCommitterWins'
  <2> SUFFICES ASSUME NEW t \in Begun', NEW u \in Begun', t # u, Committed(t)', Committed(u)',
                      txns'[t].write_set \cap txns'[u].write_set # {}
               PROVE  \/ txns'[t].commit_ts <= txns'[u].read_ts
                      \/ txns'[u].commit_ts <= txns'[t].read_ts
    BY DEF FirstCommitterWins
  <2>1. /\ t \in Begun /\ Committed(t) /\ txns'[t] = txns[t]
        /\ u \in Begun /\ Committed(u) /\ txns'[u] = txns[u]
    BY <1>4
  <2> QED BY <1>2, <2>1 DEF FirstCommitterWins
<1> QED BY <1>6, <1>7, <1>8, <1>9, <1>10 DEF IInv

\* record_write preserves it: only an active transaction's write set grows.
LEMMA RecordWriteIInv ==
    ASSUME IInv, NEW t \in Begun, NEW k \in Key, RecordWrite(t, k) PROVE IInv'
<1> USE DEF Committed
<1>1. /\ TypeOK /\ TimestampsOrdered /\ LatestWritesExact
      /\ TimestampsAccounted /\ FirstCommitterWins
  BY DEF IInv
<1>2. /\ Begun' = Begun
      /\ current' = current
      /\ committed_ts' = committed_ts
      /\ latest_writes' = latest_writes
  BY DEF RecordWrite, Begun
<1>3. /\ txns \in [Begun -> Transaction]
      /\ txns[t].state = "Active"
      /\ txns' = [txns EXCEPT ![t].write_set = @ \cup {k}]
  BY <1>1 DEF RecordWrite, Active, TypeOK
<1>4. /\ txns' \in [Begun -> Transaction]
      /\ \A u \in Begun : u # t => txns'[u] = txns[u]
      /\ \A u \in Begun : /\ txns'[u].read_ts = txns[u].read_ts
                          /\ txns'[u].commit_ts = txns[u].commit_ts
                          /\ txns'[u].state = txns[u].state
  BY <1>3 DEF Transaction
<1>5. TypeOK'
  BY <1>1, <1>2, <1>4 DEF TypeOK, RecordWrite, Begun
<1>6. TimestampsOrdered'
  BY <1>1, <1>2, <1>4 DEF TimestampsOrdered
<1>7. LatestWritesExact'
  BY <1>1, <1>2, <1>3, <1>4 DEF LatestWritesExact
<1>8. TimestampsAccounted'
  BY <1>1, <1>2, <1>4 DEF TimestampsAccounted
<1>9. FirstCommitterWins'
  BY <1>1, <1>2, <1>3, <1>4 DEF FirstCommitterWins
<1> QED BY <1>5, <1>6, <1>7, <1>8, <1>9 DEF IInv

\* An abort, requested or forced by a conflict, preserves it.
LEMMA AbortIInv ==
    ASSUME IInv, NEW t \in Begun, Abort(t) \/ CommitConflict(t) PROVE IInv'
<1> USE DEF Committed
<1>1. /\ TypeOK /\ TimestampsOrdered /\ LatestWritesExact
      /\ TimestampsAccounted /\ FirstCommitterWins
  BY DEF IInv
<1>2. /\ Begun' = Begun
      /\ current' = current
      /\ committed_ts' = committed_ts
      /\ latest_writes' = latest_writes
      /\ next_txn_id' = next_txn_id
  BY DEF Abort, CommitConflict, Begun
<1>3. /\ txns \in [Begun -> Transaction]
      /\ txns[t].state = "Active"
      /\ txns' = [txns EXCEPT ![t].state = "Aborted"]
  BY <1>1 DEF Abort, CommitConflict, Active, TypeOK
<1>4. /\ txns' \in [Begun -> Transaction]
      /\ txns'[t].state = "Aborted"
      /\ \A u \in Begun : u # t => txns'[u] = txns[u]
  BY <1>3 DEF Transaction
<1>5. \A u \in Begun : /\ txns'[u].read_ts = txns[u].read_ts
                       /\ txns'[u].commit_ts = txns[u].commit_ts
                       /\ txns'[u].write_set = txns[u].write_set
                       /\ txns'[u].state = "Committed" <=> txns[u].state = "Committed"
  BY <1>3, <1>4 DEF Transaction
<1>6. TypeOK'
  BY <1>1, <1>2, <1>4 DEF TypeOK, Begun
<1>7. TimestampsOrdered'
  BY <1>1, <1>2, <1>5 DEF TimestampsOrdered
<1>8. LatestWritesExact'
  BY <1>1, <1>2, <1>5 DEF LatestWritesExact
<1>9. TimestampsAccounted'
  BY <1>1, <1>2, <1>5 DEF TimestampsAccounted
<1>10. FirstCommitterWins'
  BY <1>1, <1>2, <1>5 DEF FirstCommitterWins
<1> QED BY <1>6, <1>7, <1>8, <1>9, <1>10 DEF IInv

\* A successful commit preserves it.  The interesting part is
\* FirstCommitterWins: a committed writer u of a key that t wrote is bounded by
\* latest_writes of that key, which validation compared with t's snapshot.
LEMMA CommitIInv ==
    ASSUME IInv, NEW t \in Begun, Commit(t) PROVE IInv'
<1> USE DEF Committed
<1>1. /\ TypeOK /\ TimestampsOrdered /\ LatestWritesExact
      /\ TimestampsAccounted /\ FirstCommitterWins
  BY DEF IInv
<1>2. /\ Begun' = Begun
      /\ next_txn_id' = next_txn_id
      /\ current \in Nat \ {0}
      /\ current' = current + 1
      /\ committed_ts' = committed_ts \cup {current + 1}
      /\ latest_writes \in [Key -> Nat]
      /\ latest_writes' = [k \in Key |-> IF k \in txns[t].write_set
                                         THEN current + 1
                                         ELSE latest_writes[k]]
  BY <1>1 DEF Commit, Begun, TypeOK
<1>3. /\ txns \in [Begun -> Transaction]
      /\ txns[t].state = "Active"
      /\ txns' = [txns EXCEPT ![t].state = "Committed",
                              ![t].commit_ts = current + 1]
  BY <1>1 DEF Commit, Active, TypeOK
<1>4. /\ txns' \in [Begun -> Transaction]
      /\ txns'[t].state = "Committed"
      /\ txns'[t].commit_ts = current + 1
      /\ txns'[t].read_ts = txns[t].read_ts
      /\ txns'[t].write_set = txns[t].write_set
      /\ \A u \in Begun : u # t => txns'[u] = txns[u]
  <2> DEFINE new == [txns[t] EXCEPT !.state = "Committed", !.commit_ts = current + 1]
  <2>1. txns' = [txns EXCEPT ![t] = new]
    BY <1>3
  <2>2. txns[t] \in Transaction
    BY <1>3
  <2>3. current + 1 \in Nat
    BY <1>2
  <2>4. new \in Transaction
    BY <2>2, <2>3 DEF Transaction
  <2>5. /\ new.state = "Committed"
        /\ new.commit_ts = current + 1
        /\ new.read_ts = txns[t].read_ts
        /\ new.write_set = txns[t].write_set
    BY <2>2 DEF Transaction
  <2> HIDE DEF new
  <2> QED BY <1>3, <2>1, <2>4, <2>5
<1>5. \A u \in Begun : /\ txns[u].write_set \subseteq Key
                       /\ txns[u].read_ts \in Nat
                       /\ txns[u].commit_ts \in Nat
                       /\ txns[u].state = "Committed" => u # t
                       /\ txns[u].state = "Committed" =>
                             txns[u].commit_ts \in 2..current
  BY <1>1, <1>3 DEF Transaction, TimestampsOrdered
<1>6. TypeOK'
  BY <1>1, <1>2, <1>4 DEF TypeOK, Begun
<1>7. TimestampsOrdered'
  <2>1. txns[t].read_ts \in 1..current
    BY <1>1 DEF TimestampsOrdered
  <2> QED BY <1>1, <1>2, <1>4, <1>5, <2>1 DEF TimestampsOrdered
<1>8. LatestWritesExact'
  <2>1. ASSUME NEW u \in Begun, txns'[u].state = "Committed",
               NEW k \in txns'[u].write_set
        PROVE  latest_writes'[k] >= txns'[u].commit_ts
    <3>1. CASE u = t
      BY <1>2, <1>4, <1>5, <3>1
    <3>2. CASE u # t
      <4>1. txns'[u] = txns[u] /\ k \in Key
        BY <1>4, <1>5, <2>1, <3>2
      <4>2. latest_writes[k] >= txns[u].commit_ts
        BY <1>1, <2>1, <4>1 DEF LatestWritesExact
      <4> QED BY <1>2, <1>5, <2>1, <4>1, <4>2
    <3> QED BY <3>1, <3>2
  <2>2. ASSUME NEW k \in Key, latest_writes'[k] # NoTs
        PROVE  \E u \in Begun : /\ txns'[u].state = "Committed"
                                /\ k \in txns'[u].write_set
                                /\ txns'[u].commit_ts = latest_writes'[k]
    <3>1. CASE k \in txns[t].write_set
      BY <1>2, <1>4, <3>1
    <3>2. CASE k \notin txns[t].write_set
      <4>1. latest_writes'[k] = latest_writes[k]
        BY <1>2, <3>2
      <4>2. PICK u \in Begun : /\ txns[u].state = "Committed"
                               /\ k \in txns[u].write_set
                               /\ txns[u].commit_ts = latest_writes[k]
        BY <1>1, <2>2, <4>1 DEF LatestWritesExact
      <4>3. txns'[u] = txns[u]
        BY <1>4, <1>5, <4>2
      <4> QED BY <4>1, <4>2, <4>3
    <3> QED BY <3>1, <3>2
  <2> QED BY <1>2, <2>1, <2>2 DEF LatestWritesExact
<1>9. TimestampsAccounted'
  <2>1. committed_ts' = 2..current'
    BY <1>1, <1>2 DEF TimestampsAccounted
  <2>2. ASSUME NEW c \in committed_ts'
        PROVE  \E u \in Begun : /\ txns'[u].state = "Committed"
                                /\ txns'[u].commit_ts = c
    <3>1. CASE c = current + 1
      BY <1>4, <3>1
    <3>2. CASE c \in committed_ts
      <4>1. PICK u \in Begun : txns[u].state = "Committed" /\ txns[u].commit_ts = c
        BY <1>1, <3>2 DEF TimestampsAccounted
      <4> QED BY <1>4, <1>5, <4>1
    <3> QED BY <1>2, <3>1, <3>2
  <2>3. ASSUME NEW u \in Begun, NEW v \in Begun,
               txns'[u].state = "Committed", txns'[v].state = "Committed",
               txns'[u].commit_ts = txns'[v].commit_ts
        PROVE  u = v
    <3>1. \A w \in Begun : w # t /\ txns'[w].state = "Committed" =>
             /\ txns[w].state = "Committed"
             /\ txns'[w].commit_ts = txns[w].commit_ts
             /\ txns'[w].commit_ts <= current
      BY <1>2, <1>4, <1>5
    <3>2. CASE u # t /\ v # t
      BY <1>1, <2>3, <3>1, <3>2 DEF TimestampsAccounted
    <3>3. CASE u = t \/ v = t
      BY <1>2, <1>4, <2>3, <3>1, <3>3
    <3> QED BY <3>2, <3>3
  <2> QED BY <1>2, <2>1, <2>2, <2>3 DEF TimestampsAccounted
<1>10. FirstCommitterWins'
  <2>1. ASSUME NEW u \in Begun, txns[u].state = "Committed",
               txns[u].write_set \cap txns[t].write_set # {}
        PROVE  txns[u].commit_ts <= txns[t].read_ts
    <3>1. PICK k \in txns[u].write_set : k \in txns[t].write_set
      BY <2>1
    <3>2. latest_writes[k] >= txns[u].commit_ts
      BY <1>1, <2>1 DEF LatestWritesExact
    <3>3. ~(latest_writes[k] > txns[t].read_ts)
      BY <3>1 DEF Commit, Conflict
    <3>4. latest_writes[k] \in Nat
      BY <1>2, <1>5
    <3> QED BY <1>5, <3>2, <3>3, <3>4
  <2>2. ASSUME NEW u \in Begun, NEW v \in Begun, u # v,
               txns'[u].state = "Committed", txns'[v].state = "Committed",
               txns'[u].write_set \cap txns'[v].write_set # {}
        PROVE  \/ txns'[u].commit_ts <= txns'[v].read_ts
               \/ txns'[v].commit_ts <= txns'[u].read_ts
    <3>1. CASE u # t /\ v # t
      BY <1>1, <1>4, <2>2, <3>1 DEF FirstCommitterWins
    <3>2. CASE u = t
      BY <1>4, <2>1, <2>2, <3>2
    <3>3. CASE v = t
      BY <1>4, <2>1, <2>2, <3>3
    <3> QED BY <3>1, <3>2, <3>3
  <2> QED BY <1>2, <2>2 DEF FirstCommitterWins
<1> QED BY <1>6, <1>7, <1>8, <1>9, <1>10 DEF IInv

\* Every step preserves it.
LEMMA NextIInv == ASSUME IInv, [Next]_vars PROVE IInv'
<1>1. ASSUME NEW iso \in Isolation, Begin(iso) PROVE IInv'
  BY <1>1, BeginIInv
<1>2. ASSUME NEW t \in Begun, NEW k \in Key, RecordWrite(t, k) PROVE IInv'
  BY <1>2, RecordWriteIInv
<1>3. ASSUME NEW t \in Begun, Commit(t) PROVE IInv'
  BY <1>3, CommitIInv
<1>4. ASSUME NEW t \in Begun, CommitConflict(t) PROVE IInv'
  BY <1>4, AbortIInv
<1>5. ASSUME NEW t \in Begun, Abort(t) PROVE IInv'
  BY <1>5, AbortIInv
<1>6. CASE UNCHANGED vars
  BY <1>6 DEF vars, IInv, TypeOK, TimestampsOrdered, LatestWritesExact,
     TimestampsAccounted, FirstCommitterWins, Begun, Committed
<1> QED BY <1>1, <1>2, <1>3, <1>4, <1>5, <1>6 DEF Next

\* IInv is inductive.
THEOREM InductiveInvariant == Spec => []IInv
<1>1. Init => IInv
  BY InitIInv
<1>2. IInv /\ [Next]_vars => IInv'
  BY NextIInv
<1> QED BY <1>1, <1>2, PTL DEF Spec

\* The tables of the transaction manager always have their types: ids are
\* handed out in order and txns holds exactly the ids begun.
THEOREM TypeCorrect == Spec => []TypeOK
<1>1. IInv => TypeOK
  BY DEF IInv
<1> QED BY <1>1, InductiveInvariant, PTL

\* OCC validation admits no lost update: committed transactions that wrote a
\* common key did not overlap.
THEOREM NoLostUpdate == Spec => []FirstCommitterWins
<1>1. IInv => FirstCommitterWins
  BY DEF IInv
<1> QED BY <1>1, InductiveInvariant, PTL

\* Commit timestamps are dense and unique, and is_committed is exact.
THEOREM TimestampsAreAccounted == Spec => []TimestampsAccounted
<1>1. IInv => TimestampsAccounted
  BY DEF IInv
<1> QED BY <1>1, InductiveInvariant, PTL

-----------------------------------------------------------------------------
(* Validation looks at latest_writes only; IInv says it is the whole       *)
(* history of the key.                                                     *)

\* The verdict of OCC validation on an active transaction is what the committed
\* transactions say of it: no conflict is missed, none is invented.
THEOREM ValidationIsExact == Spec => []ValidationExact
<1>1. IInv => ValidationExact
  <2> SUFFICES ASSUME IInv, NEW t \in Begun, Active(t)
               PROVE  Conflict(t) <=> \E u \in Begun :
                         /\ Committed(u)
                         /\ txns[u].commit_ts > txns[t].read_ts
                         /\ txns[u].write_set \cap txns[t].write_set # {}
    BY DEF ValidationExact
  <2>1. /\ latest_writes \in [Key -> Nat]
        /\ txns \in [Begun -> Transaction]
        /\ \A u \in Begun : /\ txns[u].write_set \subseteq Key
                            /\ txns[u].read_ts \in Nat
                            /\ txns[u].commit_ts \in Nat
    BY DEF IInv, TypeOK, Transaction
  <2>2. ASSUME Conflict(t)
        PROVE  \E u \in Begun : /\ Committed(u)
                                /\ txns[u].commit_ts > txns[t].read_ts
                                /\ txns[u].write_set \cap txns[t].write_set # {}
    <3>1. PICK k \in txns[t].write_set : latest_writes[k] > txns[t].read_ts
      BY <2>2 DEF Conflict
    <3>2. latest_writes[k] # NoTs
      BY <2>1, <3>1 DEF NoTs
    <3>3. PICK u \in Begun : /\ Committed(u)
                             /\ k \in txns[u].write_set
                             /\ txns[u].commit_ts = latest_writes[k]
      BY <2>1, <3>1, <3>2 DEF IInv, LatestWritesExact
    <3> QED BY <3>1, <3>3
  <2>3. ASSUME NEW u \in Begun, Committed(u),
               txns[u].commit_ts > txns[t].read_ts,
               txns[u].write_set \cap txns[t].write_set # {}
        PROVE  Conflict(t)
    <3>1. PICK k \in txns[u].write_set : k \in txns[t].write_set
      BY <2>3
    <3>2. latest_writes[k] >= txns[u].commit_ts
      BY <2>3, <3>1 DEF IInv, LatestWritesExact
    <3>3. latest_writes[k] > txns[t].read_ts
      BY <2>1, <2>3, <3>1, <3>2
    <3> QED BY <3>1, <3>3 DEF Conflict
  <2> QED BY <2>2, <2>3
<1> QED BY <1>1, InductiveInvariant, PTL

-----------------------------------------------------------------------------
(* The transaction manager implements SnapshotIsolation.                   *)

\* CommitOrder lists the committed transactions: the i-th is the one and only
\* holder of commit timestamp i + 1.
OrderListed ==
    /\ CommitOrder = [i \in 1..(current - 1) |-> CommitOrder[i]]
    /\ \A i \in 1..(current - 1) :
          /\ CommitOrder[i] \in Begun
          /\ txns[CommitOrder[i]].state = "Committed"
          /\ txns[CommitOrder[i]].commit_ts = i + 1
          /\ \A t \in Begun : /\ txns[t].state = "Committed"
                              /\ txns[t].commit_ts = i + 1
                              => CommitOrder[i] = t

\* The invariant makes the CHOOSE of CommitOrder unique.
LEMMA CommitOrderLists == IInv => OrderListed
<1> SUFFICES ASSUME IInv, NEW i \in 1..(current - 1)
             PROVE  /\ CommitOrder[i] \in Begun
                    /\ Committed(CommitOrder[i])
                    /\ txns[CommitOrder[i]].commit_ts = i + 1
                    /\ \A t \in Begun :
                          Committed(t) /\ txns[t].commit_ts = i + 1 => CommitOrder[i] = t
  BY DEF CommitOrder, OrderListed, Committed
<1>1. /\ current \in Nat
      /\ i + 1 \in committed_ts
  BY DEF IInv, TypeOK, TimestampsAccounted
<1>2. \E t \in Begun : Committed(t) /\ txns[t].commit_ts = i + 1
  BY <1>1 DEF IInv, TimestampsAccounted
<1>3. CommitOrder[i] = CHOOSE t \in Begun : Committed(t) /\ txns[t].commit_ts = i + 1
  BY DEF CommitOrder
<1>4. /\ CommitOrder[i] \in Begun
      /\ Committed(CommitOrder[i])
      /\ txns[CommitOrder[i]].commit_ts = i + 1
  BY <1>2, <1>3
<1> QED BY <1>4 DEF IInv, TimestampsAccounted

\* g is f changed at one argument when it differs from f only there.
LEMMA OneChange ==
    ASSUME NEW S, NEW T, NEW f \in [S -> T], NEW g \in [S -> T],
           NEW d \in S, NEW e, g[d] = e,
           \A x \in S \ {d} : g[x] = f[x]
    PROVE  g = [f EXCEPT ![d] = e]
OBVIOUS

\* What the mapping makes of the transaction table.
Mapped ==
    /\ Begun \subseteq 1..MaxTxn
    /\ Status \in [1..MaxTxn -> {"none", "active", "committed", "aborted"}]
    /\ Start \in [1..MaxTxn -> Int]
    /\ Writes \in [1..MaxTxn -> SUBSET Key]
    /\ \A t \in Begun :
          /\ txns[t].state = "Active" => Status[t] = "active"
          /\ txns[t].state = "Committed" => Status[t] = "committed"
          /\ txns[t].state = "Aborted" => Status[t] = "aborted"
          /\ txns[t].state \in {"Active", "Committed", "Aborted"}
          /\ Start[t] = txns[t].read_ts - 1
          /\ Writes[t] = txns[t].write_set
    /\ \A t \in (1..MaxTxn) \ Begun :
          Status[t] = "none" /\ Start[t] = 0 /\ Writes[t] = {}

\* Reading the three mapped functions.
LEMMA MappingReads == TypeOK => Mapped
BY MaxTxnAssumption DEF TypeOK, Transaction, Begun, Status, Start, Writes, Mapped

\* The commit order is a sequence of transactions that have begun.
LEMMA CommitOrderLen ==
    ASSUME IInv PROVE Len(CommitOrder) = current - 1 /\ CommitOrder \in Seq(Begun)
<1>1. current - 1 \in Nat
  BY DEF IInv, TypeOK
<1>2. /\ CommitOrder = [i \in 1..(current - 1) |-> CommitOrder[i]]
      /\ \A i \in 1..(current - 1) : CommitOrder[i] \in Begun
  BY CommitOrderLists DEF OrderListed
<1>3. CommitOrder \in [1..(current - 1) -> Begun]
  BY <1>2
<1> QED BY <1>1, <1>3

\* The initial state maps to the initial state of SnapshotIsolation.
LEMMA InitMaps == Init => SI!Init
<1> SUFFICES ASSUME Init PROVE SI!Init
  OBVIOUS
<1>1. Begun = {} /\ current = 1
  BY DEF Init, Begun
<1>2. CommitOrder = << >>
  BY <1>1 DEF CommitOrder
<1> QED BY <1>1, <1>2 DEF SI!Init, Status, Start, Writes

\* A step that leaves the commits alone leaves the commit order alone.
LEMMA SameOrder ==
    ASSUME OrderListed, OrderListed', current' = current, current \in Nat,
           Begun \subseteq Begun',
           \A t \in Begun : /\ txns[t].state = "Committed" => txns'[t].state = "Committed"
                            /\ txns'[t].commit_ts = txns[t].commit_ts
    PROVE  CommitOrder' = CommitOrder
<1>1. \A i \in 1..(current - 1) : CommitOrder'[i] = CommitOrder[i]
  BY DEF OrderListed
<1> QED BY <1>1 DEF OrderListed

\* What a step leaves of a transaction, the mapping leaves too.
LEMMA SameMapped ==
    ASSUME Mapped, Mapped', NEW t \in 1..MaxTxn
    PROVE  /\ t \notin Begun /\ t \notin Begun' =>
                 Status'[t] = Status[t] /\ Start'[t] = Start[t] /\ Writes'[t] = Writes[t]
           /\ t \in Begun /\ t \in Begun' =>
                 /\ txns'[t].state = txns[t].state => Status'[t] = Status[t]
                 /\ txns'[t].read_ts = txns[t].read_ts => Start'[t] = Start[t]
                 /\ txns'[t].write_set = txns[t].write_set => Writes'[t] = Writes[t]
<1>1. ASSUME t \notin Begun, t \notin Begun'
      PROVE  Status'[t] = Status[t] /\ Start'[t] = Start[t] /\ Writes'[t] = Writes[t]
  <2>1. Status[t] = "none" /\ Start[t] = 0 /\ Writes[t] = {}
    BY <1>1 DEF Mapped
  <2>2. Status'[t] = "none" /\ Start'[t] = 0 /\ Writes'[t] = {}
    BY <1>1 DEF Mapped
  <2> QED BY <2>1, <2>2
<1>2. ASSUME t \in Begun, t \in Begun', txns'[t].state = txns[t].state
      PROVE  Status'[t] = Status[t]
  BY <1>2 DEF Mapped
<1>3. ASSUME t \in Begun, t \in Begun', txns'[t].read_ts = txns[t].read_ts
      PROVE  Start'[t] = Start[t]
  BY <1>3 DEF Mapped
<1>4. ASSUME t \in Begun, t \in Begun', txns'[t].write_set = txns[t].write_set
      PROVE  Writes'[t] = Writes[t]
  BY <1>4 DEF Mapped
<1> QED BY <1>1, <1>2, <1>3, <1>4

\* begin maps to Begin: current - 1 transactions have committed, so a snapshot
\* at current is the whole commit order.
LEMMA BeginMaps ==
    ASSUME IInv, IInv', NEW iso \in Isolation, Begin(iso)
    PROVE  SI!Begin(next_txn_id) /\ next_txn_id \in 1..MaxTxn
<1> DEFINE n == next_txn_id
<1>1. /\ TypeOK /\ TypeOK'
      /\ OrderListed /\ OrderListed'
      /\ Mapped /\ Mapped'
  BY CommitOrderLists, MappingReads, PTL DEF IInv
<1>2. /\ n \in 1..MaxTxn
      /\ n \notin Begun
      /\ Begun' = Begun \cup {n}
      /\ current \in Nat \ {0}
      /\ current' = current
  BY <1>1, MaxTxnAssumption DEF TypeOK, Begin, Begun
<1>3. /\ \A t \in Begun : txns'[t] = txns[t]
      /\ txns'[n].state = "Active"
      /\ txns'[n].read_ts = current
      /\ txns'[n].write_set = {}
  BY <1>1, <1>2 DEF Begin, Begun
<1>4. CommitOrder' = CommitOrder
  BY <1>1, <1>2, <1>3, SameOrder
<1>5. Len(CommitOrder) = current - 1
  BY CommitOrderLen
<1>6. Status[n] = "none" /\ Writes[n] = {}
  BY <1>1, <1>2 DEF Mapped
<1>7. n \in Begun'
  BY <1>2
<1>8. Status'[n] = "active" /\ Start'[n] = current - 1 /\ Writes'[n] = {}
  BY <1>1, <1>3, <1>7 DEF Mapped
<1>9. \A t \in (1..MaxTxn) \ {n} :
         Status'[t] = Status[t] /\ Start'[t] = Start[t] /\ Writes'[t] = Writes[t]
  BY <1>1, <1>2, <1>3, SameMapped
<1>10. /\ Status \in [1..MaxTxn -> {"none", "active", "committed", "aborted"}]
      /\ Status' \in [1..MaxTxn -> {"none", "active", "committed", "aborted"}]
      /\ Start \in [1..MaxTxn -> Int]
      /\ Start' \in [1..MaxTxn -> Int]
      /\ Writes \in [1..MaxTxn -> SUBSET Key]
      /\ Writes' \in [1..MaxTxn -> SUBSET Key]
  BY <1>1 DEF Mapped
<1>11. Status' = [Status EXCEPT ![n] = "active"]
  BY <1>2, <1>8, <1>9, <1>10, OneChange
<1>12. Start' = [Start EXCEPT ![n] = Len(CommitOrder)]
  BY <1>2, <1>5, <1>8, <1>9, <1>10, OneChange
<1>13. Writes' = Writes
  <2>1. \A t \in 1..MaxTxn : Writes'[t] = Writes[t]
    BY <1>6, <1>8, <1>9
  <2>2. /\ Writes = [t \in 1..MaxTxn |-> Writes[t]]
        /\ Writes' = [t \in 1..MaxTxn |-> Writes'[t]]
    BY <1>10
  <2> QED BY <2>1, <2>2
<1> QED BY <1>2, <1>4, <1>6, <1>11, <1>12, <1>13 DEF SI!Begin

\* record_write maps to Write.
LEMMA RecordWriteMaps ==
    ASSUME IInv, IInv', NEW t \in Begun, NEW k \in Key, RecordWrite(t, k)
    PROVE  SI!Write(t, k) /\ t \in 1..MaxTxn
<1>1. /\ TypeOK /\ TypeOK'
      /\ OrderListed /\ OrderListed'
      /\ Mapped /\ Mapped'
  BY CommitOrderLists, MappingReads, PTL DEF IInv
<1>2. /\ Begun' = Begun
      /\ t \in 1..MaxTxn
      /\ current \in Nat
      /\ current' = current
      /\ txns \in [Begun -> Transaction]
  BY <1>1 DEF TypeOK, Mapped, RecordWrite, Begun
<1>3. /\ txns[t].state = "Active"
      /\ txns'[t].write_set = txns[t].write_set \cup {k}
      /\ \A u \in Begun : u # t => txns'[u] = txns[u]
      /\ \A u \in Begun : /\ txns'[u].read_ts = txns[u].read_ts
                          /\ txns'[u].commit_ts = txns[u].commit_ts
                          /\ txns'[u].state = txns[u].state
  BY <1>2 DEF RecordWrite, Active, Transaction
<1>4. CommitOrder' = CommitOrder
  BY <1>1, <1>2, <1>3, SameOrder
<1>5. Status[t] = "active" /\ Writes'[t] = Writes[t] \cup {k}
  BY <1>1, <1>2, <1>3 DEF Mapped
<1>6. /\ \A u \in 1..MaxTxn : Status'[u] = Status[u] /\ Start'[u] = Start[u]
      /\ \A u \in (1..MaxTxn) \ {t} : Writes'[u] = Writes[u]
  BY <1>1, <1>2, <1>3, SameMapped
<1>7. /\ Status \in [1..MaxTxn -> {"none", "active", "committed", "aborted"}]
      /\ Status' \in [1..MaxTxn -> {"none", "active", "committed", "aborted"}]
      /\ Start \in [1..MaxTxn -> Int]
      /\ Start' \in [1..MaxTxn -> Int]
      /\ Writes \in [1..MaxTxn -> SUBSET Key]
      /\ Writes' \in [1..MaxTxn -> SUBSET Key]
  BY <1>1 DEF Mapped
<1>8. Status' = Status /\ Start' = Start
  <2>1. Status' = Status
    <3>1. /\ Status = [u \in 1..MaxTxn |-> Status[u]]
          /\ Status' = [u \in 1..MaxTxn |-> Status'[u]]
      BY <1>7
    <3> QED BY <1>6, <3>1
  <2>2. Start' = Start
    <3>1. /\ Start = [u \in 1..MaxTxn |-> Start[u]]
          /\ Start' = [u \in 1..MaxTxn |-> Start'[u]]
      BY <1>7
    <3> QED BY <1>6, <3>1
  <2> QED BY <2>1, <2>2
<1>9. Writes' = [Writes EXCEPT ![t] = Writes[t] \cup {k}]
  BY <1>2, <1>5, <1>6, <1>7, OneChange
<1> QED BY <1>2, <1>4, <1>5, <1>8, <1>9 DEF SI!Write

\* An abort maps to Abort, whether it was asked for or forced by validation.
LEMMA AbortMaps ==
    ASSUME IInv, IInv', NEW t \in Begun, Abort(t) \/ CommitConflict(t)
    PROVE  SI!Abort(t) /\ t \in 1..MaxTxn
<1>1. /\ TypeOK /\ TypeOK'
      /\ OrderListed /\ OrderListed'
      /\ Mapped /\ Mapped'
  BY CommitOrderLists, MappingReads, PTL DEF IInv
<1>2. /\ Begun' = Begun
      /\ t \in 1..MaxTxn
      /\ current \in Nat
      /\ current' = current
      /\ txns \in [Begun -> Transaction]
  BY <1>1 DEF TypeOK, Mapped, Abort, CommitConflict, Begun
<1>3. /\ txns[t].state = "Active"
      /\ txns'[t].state = "Aborted"
      /\ \A u \in Begun : u # t => txns'[u] = txns[u]
      /\ \A u \in Begun : /\ txns'[u].read_ts = txns[u].read_ts
                          /\ txns'[u].commit_ts = txns[u].commit_ts
                          /\ txns'[u].write_set = txns[u].write_set
  BY <1>2 DEF Abort, CommitConflict, Active, Transaction
<1>4. CommitOrder' = CommitOrder
  BY <1>1, <1>2, <1>3, SameOrder
<1>5. Status[t] = "active" /\ Status'[t] = "aborted"
  BY <1>1, <1>2, <1>3 DEF Mapped
<1>6. /\ \A u \in 1..MaxTxn : Writes'[u] = Writes[u] /\ Start'[u] = Start[u]
      /\ \A u \in (1..MaxTxn) \ {t} : Status'[u] = Status[u]
  BY <1>1, <1>2, <1>3, SameMapped
<1>7. /\ Status \in [1..MaxTxn -> {"none", "active", "committed", "aborted"}]
      /\ Status' \in [1..MaxTxn -> {"none", "active", "committed", "aborted"}]
      /\ Start \in [1..MaxTxn -> Int]
      /\ Start' \in [1..MaxTxn -> Int]
      /\ Writes \in [1..MaxTxn -> SUBSET Key]
      /\ Writes' \in [1..MaxTxn -> SUBSET Key]
  BY <1>1 DEF Mapped
<1>8. Writes' = Writes /\ Start' = Start
  <2>1. Writes' = Writes
    <3>1. /\ Writes = [u \in 1..MaxTxn |-> Writes[u]]
          /\ Writes' = [u \in 1..MaxTxn |-> Writes'[u]]
      BY <1>7
    <3> QED BY <1>6, <3>1
  <2>2. Start' = Start
    <3>1. /\ Start = [u \in 1..MaxTxn |-> Start[u]]
          /\ Start' = [u \in 1..MaxTxn |-> Start'[u]]
      BY <1>7
    <3> QED BY <1>6, <3>1
  <2> QED BY <2>1, <2>2
<1>9. Status' = [Status EXCEPT ![t] = "aborted"]
  BY <1>2, <1>5, <1>6, <1>7, OneChange
<1> QED BY <1>2, <1>4, <1>5, <1>8, <1>9 DEF SI!Abort

\* A successful commit maps to Commit: the transactions validation would have
\* to object to are those at the end of the commit order, from the snapshot on,
\* and the new timestamp puts the transaction behind all of them.
LEMMA CommitMaps ==
    ASSUME IInv, IInv', NEW t \in Begun, Commit(t)
    PROVE  SI!Commit(t) /\ t \in 1..MaxTxn
<1>1. /\ TypeOK /\ TypeOK'
      /\ OrderListed /\ OrderListed'
      /\ Mapped /\ Mapped'
  BY CommitOrderLists, MappingReads, PTL DEF IInv
<1>2. /\ Begun' = Begun
      /\ t \in 1..MaxTxn
      /\ current \in Nat \ {0}
      /\ current' = current + 1
      /\ txns \in [Begun -> Transaction]
      /\ txns' = [txns EXCEPT ![t].state = "Committed",
                              ![t].commit_ts = current + 1]
  BY <1>1 DEF TypeOK, Mapped, Commit, Begun
<1>3. /\ txns[t].state = "Active"
      /\ txns'[t].state = "Committed"
      /\ txns'[t].commit_ts = current + 1
      /\ txns'[t].read_ts = txns[t].read_ts
      /\ txns'[t].write_set = txns[t].write_set
      /\ \A u \in Begun : u # t => txns'[u] = txns[u]
  BY <1>2 DEF Commit, Active, Transaction
<1>4. /\ Len(CommitOrder) = current - 1
      /\ CommitOrder \in Seq(Begun)
  BY CommitOrderLen
<1>5. CommitOrder' = Append(CommitOrder, t)
  <2>1. \A i \in 1..(current - 1) : CommitOrder'[i] = CommitOrder[i]
    <3> SUFFICES ASSUME NEW i \in 1..(current - 1) PROVE CommitOrder'[i] = CommitOrder[i]
      OBVIOUS
    <3> DEFINE u == CommitOrder[i]
    <3>1. u \in Begun /\ txns[u].state = "Committed" /\ txns[u].commit_ts = i + 1
      BY <1>1 DEF OrderListed
    <3>2. txns'[u] = txns[u] /\ u \in Begun' /\ i \in 1..(current' - 1)
      BY <1>2, <1>3, <3>1
    <3> HIDE DEF u
    <3>3. CommitOrder'[i] = u
      BY <1>1, <3>1, <3>2 DEF OrderListed
    <3> QED BY <3>3 DEF u
  <2>2. CommitOrder'[current] = t
    <3>1. t \in Begun' /\ current \in 1..(current' - 1)
      BY <1>2
    <3> QED BY <1>1, <1>3, <3>1 DEF OrderListed
  <2>3. CommitOrder' = [i \in 1..current |-> CommitOrder'[i]]
    BY <1>1, <1>2 DEF OrderListed
  <2>4. /\ Append(CommitOrder, t) \in Seq(Begun)
        /\ Len(Append(CommitOrder, t)) = current
        /\ \A i \in 1..(current - 1) : Append(CommitOrder, t)[i] = CommitOrder[i]
        /\ Append(CommitOrder, t)[current] = t
    BY <1>2, <1>4, AppendProperties
  <2>5. Append(CommitOrder, t) = [i \in 1..current |-> Append(CommitOrder, t)[i]]
    <3> DEFINE a == Append(CommitOrder, t)
    <3>1. a \in Seq(Begun) /\ Len(a) = current
      BY <2>4
    <3> HIDE DEF a
    <3>2. a = [i \in 1..current |-> a[i]]
      BY <3>1
    <3> QED BY <3>2 DEF a
  <2>6. \A i \in 1..current : CommitOrder'[i] = Append(CommitOrder, t)[i]
    BY <1>2, <2>1, <2>2, <2>4
  <2> QED BY <2>3, <2>5, <2>6
<1>6. Status[t] = "active" /\ Status'[t] = "committed"
  BY <1>1, <1>2, <1>3 DEF Mapped
<1>7. /\ \A u \in 1..MaxTxn : Writes'[u] = Writes[u] /\ Start'[u] = Start[u]
      /\ \A u \in (1..MaxTxn) \ {t} : Status'[u] = Status[u]
  BY <1>1, <1>2, <1>3, SameMapped
<1>8. /\ Status \in [1..MaxTxn -> {"none", "active", "committed", "aborted"}]
      /\ Status' \in [1..MaxTxn -> {"none", "active", "committed", "aborted"}]
      /\ Start \in [1..MaxTxn -> Int]
      /\ Start' \in [1..MaxTxn -> Int]
      /\ Writes \in [1..MaxTxn -> SUBSET Key]
      /\ Writes' \in [1..MaxTxn -> SUBSET Key]
  BY <1>1 DEF Mapped
<1>9. Writes' = Writes /\ Start' = Start
  <2>1. /\ Writes = [u \in 1..MaxTxn |-> Writes[u]]
        /\ Writes' = [u \in 1..MaxTxn |-> Writes'[u]]
    BY <1>8
  <2>2. /\ Start = [u \in 1..MaxTxn |-> Start[u]]
        /\ Start' = [u \in 1..MaxTxn |-> Start'[u]]
    BY <1>8
  <2>3. Writes' = Writes
    BY <1>7, <2>1
  <2>4. Start' = Start
    BY <1>7, <2>2
  <2> QED BY <2>3, <2>4
<1>10. Status' = [Status EXCEPT ![t] = "committed"]
  BY <1>2, <1>6, <1>7, <1>8, OneChange
<1>11. ASSUME NEW u \in SI!CommittedSince(t) PROVE Writes[u] \cap Writes[t] = {}
  <2>1. PICK i \in (Start[t] + 1)..(current - 1) : u = CommitOrder[i]
    BY <1>4 DEF SI!CommittedSince
  <2>2. Start[t] = txns[t].read_ts - 1 /\ Writes[t] = txns[t].write_set
    BY <1>1 DEF Mapped
  <2>3. txns[t].read_ts \in 1..current
    BY DEF IInv, TimestampsOrdered
  <2>4. i \in 1..(current - 1) /\ i \in Nat /\ i + 1 > txns[t].read_ts
    BY <1>2, <2>1, <2>2, <2>3
  <2>5. u \in Begun /\ txns[u].state = "Committed" /\ txns[u].commit_ts = i + 1
    BY <1>1, <2>1, <2>4 DEF OrderListed
  <2>6. Writes[u] = txns[u].write_set
    BY <1>1, <2>5 DEF Mapped
  <2>7. ASSUME NEW k \in txns[u].write_set, k \in txns[t].write_set PROVE FALSE
    <3>1. latest_writes[k] >= txns[u].commit_ts
      BY <2>5 DEF IInv, LatestWritesExact, Committed
    <3>2. ~(latest_writes[k] > txns[t].read_ts)
      BY <2>7 DEF Commit, Conflict
    <3>3. k \in Key
      BY <1>2, <2>5 DEF Transaction
    <3>4. latest_writes[k] \in Nat
      BY <1>1, <3>3 DEF TypeOK
    <3> QED BY <2>3, <2>4, <2>5, <3>1, <3>2, <3>4
  <2> QED BY <2>2, <2>6, <2>7
<1> QED BY <1>2, <1>5, <1>6, <1>9, <1>10, <1>11 DEF SI!Commit

\* Every step of the manager is a step of SnapshotIsolation or changes nothing
\* of it, so the manager implements it.
THEOREM Refinement == Spec => ImplementsSI
<1>1. IInv /\ IInv' /\ [Next]_vars => [SI!Next]_(SI!vars)
  <2> SUFFICES ASSUME IInv, IInv', [Next]_vars PROVE SI!Next \/ UNCHANGED SI!vars
    OBVIOUS
  <2>1. ASSUME NEW iso \in Isolation, Begin(iso) PROVE SI!Next
    BY <2>1, BeginMaps DEF SI!Next
  <2>2. ASSUME NEW t \in Begun, NEW k \in Key, RecordWrite(t, k) PROVE SI!Next
    BY <2>2, RecordWriteMaps DEF SI!Next
  <2>3. ASSUME NEW t \in Begun, Commit(t) PROVE SI!Next
    BY <2>3, CommitMaps DEF SI!Next
  <2>4. ASSUME NEW t \in Begun, CommitConflict(t) \/ Abort(t) PROVE SI!Next
    BY <2>4, AbortMaps DEF SI!Next
  <2>5. CASE UNCHANGED vars
    BY <2>5 DEF vars, SI!vars, Status, Start, Writes, CommitOrder, Begun, Committed
  <2> QED BY <2>1, <2>2, <2>3, <2>4, <2>5 DEF Next
<1> QED BY <1>1, InitMaps, InductiveInvariant, PTL DEF Spec, ImplementsSI, SI!Spec

-----------------------------------------------------------------------------
(* Least and greatest elements, from the well-foundedness of <.            *)

\* A set of naturals that is not empty has a least element, ...
LEMMA LeastNat ==
    ASSUME NEW T \in SUBSET Nat, T # {}
    PROVE  \E x \in T : \A y \in T : x <= y
<1> DEFINE R == {ss \in Nat \X Nat : ss[1] < ss[2]}
<1>1. IsWellFoundedOn(R, Nat)
  BY NatLessThanWellFounded DEF OpToRel
<1>2. \A x, y \in Nat : x < y => <<x, y>> \in R
  OBVIOUS
<1> HIDE DEF R
<1>3. PICK x \in T : \A y \in T : ~ (<<y, x>> \in R)
  BY <1>1, WFMin, Zenon
<1>4. \A y \in T : x \in Nat /\ y \in Nat /\ ~ (y < x)
  BY <1>2, <1>3
<1>5. \A y \in T : x <= y
  BY <1>4
<1> QED BY <1>5

\* ... and a greatest one when it is bounded.
LEMMA GreatestNat ==
    ASSUME NEW T \in SUBSET Nat, T # {}, NEW n \in Nat, \A y \in T : y <= n
    PROVE  \E x \in T : \A y \in T : y <= x
<1> DEFINE U == {m \in Nat : \E y \in T : m = n - y}
<1>1. U \in SUBSET Nat /\ U # {}
  <2>1. PICK y \in T : TRUE
    OBVIOUS
  <2>2. n - y \in U
    OBVIOUS
  <2> QED BY <2>2
<1>2. PICK x \in U : \A y \in U : x <= y
  BY <1>1, LeastNat
<1>3. PICK z \in T : x = n - z
  OBVIOUS
<1> QED BY <1>2, <1>3

-----------------------------------------------------------------------------
(* Timestamps are bounded, so Live is above all of them.                   *)

\* Every timestamp after the first belongs to one transaction of its own.
LEMMA CurrentBounded == ASSUME IInv PROVE current <= next_txn_id
<1>1. current \in Nat \ {0} /\ next_txn_id \in Nat \ {0}
  BY MaxTxnAssumption DEF IInv, TypeOK
<1>2. CommitOrder \in Injection(1..(current - 1), Begun)
  <2>1. \A i \in 1..(current - 1) : /\ CommitOrder[i] \in Begun
                                    /\ txns[CommitOrder[i]].commit_ts = i + 1
    BY CommitOrderLists DEF OrderListed
  <2>2. CommitOrder = [i \in 1..(current - 1) |-> CommitOrder[i]]
    BY CommitOrderLists DEF OrderListed
  <2>3. CommitOrder \in [1..(current - 1) -> Begun]
    BY <2>1, <2>2
  <2>4. \A i, j \in 1..(current - 1) : CommitOrder[i] = CommitOrder[j] => i = j
    <3> SUFFICES ASSUME NEW i \in 1..(current - 1), NEW j \in 1..(current - 1),
                        CommitOrder[i] = CommitOrder[j]
                 PROVE  i = j
      OBVIOUS
    <3>1. i + 1 = j + 1
      BY <2>1
    <3> QED BY <3>1, <1>1
  <2>5. DOMAIN CommitOrder = 1..(current - 1)
    BY <2>3
  <2> QED BY <2>3, <2>4, <2>5 DEF Injection, IsInjective
<1>3. /\ IsFiniteSet(Begun) /\ Cardinality(Begun) = next_txn_id - 1
      /\ Cardinality(1..(current - 1)) = current - 1
  BY <1>1, FS_Interval DEF Begun
<1>4. Cardinality(1..(current - 1)) <= Cardinality(Begun)
  BY <1>2, <1>3, FS_Injection
<1> QED BY <1>1, <1>3, <1>4
-----------------------------------------------------------------------------
(* Visibility.                                                             *)

\* The committed writers of k after t.
Later(k, t) == {u \in Begun : /\ Committed(u)
                              /\ k \in txns[u].write_set
                              /\ txns[u].commit_ts > txns[t].commit_ts}

\* A version ends at the next commit of its key, if there is one.
LEMMA VersionEnds ==
    ASSUME IInv, NEW k, NEW t \in Begun
    PROVE  /\ Version(k, t).begin_ts = txns[t].commit_ts
           /\ Version(k, t).txn_id = t
           /\ Version(k, t).end_ts \in Nat
           /\ Active(t) \/ Later(k, t) = {} => Version(k, t).end_ts = Live
           /\ ~Active(t) /\ Later(k, t) # {} =>
                 /\ \E u \in Later(k, t) : Version(k, t).end_ts = txns[u].commit_ts
                 /\ \A u \in Later(k, t) : Version(k, t).end_ts <= txns[u].commit_ts
<1>1. Live \in Nat
  BY MaxTxnAssumption DEF Live
<1>2. /\ Version(k, t).begin_ts = txns[t].commit_ts
      /\ Version(k, t).txn_id = t
      /\ Version(k, t).end_ts =
            IF Active(t) \/ Later(k, t) = {} THEN Live
            ELSE CHOOSE e \in 2..current :
                    \E u \in Later(k, t) : /\ e = txns[u].commit_ts
                                           /\ \A w \in Later(k, t) : e <= txns[w].commit_ts
  BY DEF Version, Later
<1>3. ASSUME ~Active(t), Later(k, t) # {}
      PROVE  \E e \in 2..current :
                \E u \in Later(k, t) : /\ e = txns[u].commit_ts
                                       /\ \A w \in Later(k, t) : e <= txns[w].commit_ts
  <2> DEFINE T == {c \in 2..current : \E u \in Later(k, t) : c = txns[u].commit_ts}
  <2>1. \A u \in Later(k, t) : txns[u].commit_ts \in 2..current
    BY DEF Later, IInv, TimestampsOrdered
  <2>2. current \in Nat
    BY DEF IInv, TypeOK
  <2>3. T \in SUBSET Nat /\ T # {}
    BY <1>3, <2>1, <2>2
  <2>4. PICK e \in T : \A y \in T : e <= y
    BY <2>3, LeastNat
  <2>5. \A w \in Later(k, t) : e <= txns[w].commit_ts
    BY <2>1, <2>4
  <2> QED BY <2>4, <2>5
<1>4. current \in Nat
  BY DEF IInv, TypeOK
<1>5. CASE Active(t) \/ Later(k, t) = {}
  BY <1>1, <1>2, <1>5
<1>6. CASE ~Active(t) /\ Later(k, t) # {}
  <2> DEFINE e == Version(k, t).end_ts
  <2>1. /\ e \in 2..current
        /\ \E u \in Later(k, t) : /\ e = txns[u].commit_ts
                                  /\ \A w \in Later(k, t) : e <= txns[w].commit_ts
    BY <1>2, <1>3, <1>6
  <2> HIDE DEF e
  <2>2. e \in Nat
    BY <1>4, <2>1
  <2> QED BY <1>2, <1>6, <2>1, <2>2 DEF e
<1> QED BY <1>5, <1>6

\* What an active transaction sees of k besides its own write, and what
\* committed on k in its snapshot.
Seen(k, t) == {v \in Versions(k) : IsVisibleTo(v, txns[t].read_ts, t) /\ v.txn_id # t}
Past(k, t) == {u \in Snapshot(t) : k \in txns[u].write_set}

\* Whatever is seen was written by the last committer of the snapshot.
LEMMA SeenIsLast ==
    ASSUME IInv, NEW k, NEW t \in Begun, Active(t), NEW v \in Seen(k, t)
    PROVE  /\ v.txn_id \in Past(k, t)
           /\ v = Version(k, v.txn_id)
           /\ \A w \in Past(k, t) : txns[w].commit_ts <= txns[v.txn_id].commit_ts
<1>1. PICK u \in Begun : /\ txns[u].state # "Aborted"
                         /\ k \in txns[u].write_set
                         /\ v = Version(k, u)
  BY DEF Seen, Versions
<1>2. v.txn_id = u /\ v.begin_ts = txns[u].commit_ts
  BY <1>1, VersionEnds
<1>3. /\ u # t
      /\ txns[u].commit_ts <= txns[t].read_ts
      /\ v.end_ts > txns[t].read_ts
      /\ txns[u].commit_ts \in committed_ts
  BY <1>2 DEF Seen, IsVisibleTo
<1>4. Committed(u)
  <2>1. committed_ts = 2..current /\ current \in Nat
    BY DEF IInv, TypeOK, TimestampsAccounted
  <2>2. txns[u].commit_ts # NoTs
    BY <1>3, <2>1 DEF NoTs
  <2> QED BY <2>2 DEF IInv, TimestampsOrdered
<1>5. u \in Past(k, t)
  BY <1>1, <1>3, <1>4 DEF Past, Snapshot
<1>6. \A w \in Begun : txns[w].commit_ts \in Nat /\ txns[w].read_ts \in Nat
  BY DEF IInv, TypeOK, Transaction
<1>7. ASSUME NEW w \in Past(k, t), ~(txns[w].commit_ts <= txns[u].commit_ts)
      PROVE  FALSE
  <2>1. w \in Begun /\ Committed(w) /\ k \in txns[w].write_set
        /\ txns[w].commit_ts <= txns[t].read_ts
    BY DEF Past, Snapshot
  <2>2. w \in Later(k, u)
    BY <1>6, <1>7, <2>1 DEF Later
  <2>3. ~Active(u)
    BY <1>4 DEF Active, Committed
  <2>4. v.end_ts <= txns[w].commit_ts /\ v.end_ts \in Nat
    BY <1>1, <2>2, <2>3, VersionEnds
  <2> QED BY <1>3, <1>6, <2>1, <2>4
<1> QED BY <1>1, <1>2, <1>5, <1>7

\* If something committed on k in the snapshot, its last version is seen.
LEMMA LastIsSeen ==
    ASSUME IInv, NEW k, NEW t \in Begun, Active(t), Past(k, t) # {}
    PROVE  \E u \in Past(k, t) : Version(k, u) \in Seen(k, t)
<1>1. /\ current \in Nat
      /\ \A w \in Begun : txns[w].commit_ts \in Nat /\ txns[w].read_ts \in Nat
      /\ txns[t].read_ts \in 1..current
      /\ current <= MaxTxn + 1
  BY CurrentBounded, MaxTxnAssumption DEF IInv, TypeOK, Transaction, TimestampsOrdered
<1>2. \A w \in Past(k, t) : /\ w \in Begun /\ Committed(w) /\ k \in txns[w].write_set
                            /\ txns[w].commit_ts \in 2..current
                            /\ txns[w].commit_ts <= txns[t].read_ts
  BY DEF Past, Snapshot, IInv, TimestampsOrdered
<1> DEFINE T == {c \in 2..current : \E w \in Past(k, t) : c = txns[w].commit_ts}
<1>3. T \in SUBSET Nat /\ T # {} /\ \A y \in T : y <= current
  BY <1>1, <1>2
<1>4. PICK c \in T : \A y \in T : y <= c
  BY <1>1, <1>3, GreatestNat
<1>5. PICK u \in Past(k, t) : c = txns[u].commit_ts
  BY <1>4
<1>6. \A w \in Past(k, t) : txns[w].commit_ts <= txns[u].commit_ts
  BY <1>2, <1>4, <1>5
<1> HIDE DEF T
<1>7. Version(k, u) \in Versions(k)
  BY <1>2, <1>5 DEF Versions, Committed
<1>8. txns[u].commit_ts \in committed_ts
  BY <1>2, <1>5 DEF IInv, TimestampsAccounted
<1>9. u # t
  BY <1>2, <1>5 DEF Active, Committed
<1>10. Version(k, u).end_ts > txns[t].read_ts
  <2>1. ~Active(u) /\ u \in Begun
    BY <1>2, <1>5 DEF Active, Committed
  <2>2. CASE Later(k, u) = {}
    BY <1>1, <2>1, <2>2, VersionEnds, MaxTxnAssumption DEF Live
  <2>3. CASE Later(k, u) # {}
    <3>1. PICK w \in Later(k, u) : Version(k, u).end_ts = txns[w].commit_ts
      BY <2>1, <2>3, VersionEnds
    <3>2. /\ w \in Begun /\ Committed(w) /\ k \in txns[w].write_set
          /\ txns[w].commit_ts > txns[u].commit_ts
      BY DEF Later
    <3>3. w \notin Past(k, t)
      BY <1>1, <1>2, <1>6, <3>2
    <3>4. ~(txns[w].commit_ts <= txns[t].read_ts)
      BY <3>2, <3>3 DEF Past, Snapshot
    <3> QED BY <1>1, <3>1, <3>2, <3>4
  <2> QED BY <2>2, <2>3
<1>11. /\ Version(k, u).begin_ts = txns[u].commit_ts
       /\ Version(k, u).txn_id = u
  BY <1>2, <1>5, VersionEnds
<1>12. IsVisibleTo(Version(k, u), txns[t].read_ts, t)
  BY <1>2, <1>5, <1>8, <1>10, <1>11 DEF IsVisibleTo
<1> QED BY <1>5, <1>7, <1>9, <1>11, <1>12 DEF Seen

\* is_visible_to shows a transaction one version of a key besides its own.
LEMMA OneVersionSeen == IInv => SeesOneVersion
<1> SUFFICES ASSUME IInv, NEW t \in Begun, NEW k \in Key, Active(t)
             PROVE  IF Past(k, t) = {} THEN Seen(k, t) = {}
                    ELSE /\ Cardinality(Seen(k, t)) = 1
                         /\ \A v \in Seen(k, t) :
                               /\ v.txn_id \in Past(k, t)
                               /\ \A u \in Past(k, t) : txns[u].commit_ts <= v.begin_ts
  BY DEF SeesOneVersion, Seen, Past
<1>1. CASE Past(k, t) = {}
  BY <1>1, SeenIsLast
<1>2. CASE Past(k, t) # {}
  <2>1. PICK u \in Past(k, t) : Version(k, u) \in Seen(k, t)
    BY <1>2, LastIsSeen
  <2>2. u \in Begun /\ Version(k, u).txn_id = u
    BY VersionEnds DEF Past, Snapshot
  <2>3. ASSUME NEW v \in Seen(k, t) PROVE v = Version(k, u)
    <3>1. /\ v.txn_id \in Past(k, t)
          /\ v = Version(k, v.txn_id)
          /\ txns[u].commit_ts <= txns[v.txn_id].commit_ts
          /\ txns[v.txn_id].commit_ts <= txns[u].commit_ts
      BY <2>1, <2>2, SeenIsLast
    <3>2. v.txn_id \in Begun /\ Committed(v.txn_id) /\ Committed(u)
      BY <3>1 DEF Past, Snapshot
    <3>3. txns[v.txn_id].commit_ts \in Nat /\ txns[u].commit_ts \in Nat
      BY <2>2, <3>2 DEF IInv, TypeOK, Transaction
    <3>4. txns[v.txn_id].commit_ts = txns[u].commit_ts
      BY <3>1, <3>3
    <3>5. v.txn_id = u
      BY <2>2, <3>2, <3>4 DEF IInv, TimestampsAccounted
    <3> QED BY <3>1, <3>5
  <2>4. Seen(k, t) = {Version(k, u)}
    BY <2>1, <2>3
  <2>5. Cardinality(Seen(k, t)) = 1
    BY <2>4, FS_Singleton
  <2>6. ASSUME NEW v \in Seen(k, t)
        PROVE  /\ v.txn_id \in Past(k, t)
               /\ \A w \in Past(k, t) : txns[w].commit_ts <= v.begin_ts
    <3>1. /\ v.txn_id \in Past(k, t)
          /\ v = Version(k, v.txn_id)
          /\ \A w \in Past(k, t) : txns[w].commit_ts <= txns[v.txn_id].commit_ts
      BY SeenIsLast
    <3>2. v.txn_id \in Begun
      BY <3>1 DEF Past, Snapshot
    <3>3. v.begin_ts = txns[v.txn_id].commit_ts
      BY <3>1, <3>2, VersionEnds
    <3> QED BY <3>1, <3>3
  <2> QED BY <1>2, <2>5, <2>6
<1> QED BY <1>1, <1>2
-----------------------------------------------------------------------------
(* The collector.                                                          *)

\* Transactions that began after min_active_ts was updated have a snapshot at
\* or after it, because the update took the timestamp they started from.
CollectorIInv ==
    /\ min_active_ts \in 0..current
    /\ updated_at \in 1..next_txn_id
    /\ \A t \in Begun : t >= updated_at => txns[t].read_ts >= min_active_ts

\* The update itself, and every step of the transaction manager, keeps that.
LEMMA NextCollectorIInv ==
    ASSUME IInv, IInv', CollectorIInv, [GcNext]_<<vars, gc_vars>>
    PROVE  CollectorIInv'
<1>1. /\ current \in Nat \ {0} /\ next_txn_id \in Nat \ {0}
      /\ txns \in [1..(next_txn_id - 1) -> Transaction]
      /\ \A t \in Begun : txns[t].read_ts \in 1..current
  BY MaxTxnAssumption DEF IInv, TypeOK, TimestampsOrdered, Begun
<1>2. CASE UpdateMinActiveTs
  BY <1>1, <1>2 DEF UpdateMinActiveTs, CollectorIInv, vars, Begun
<1>3. ASSUME Next, UNCHANGED gc_vars PROVE CollectorIInv'
  <2>1. min_active_ts' = min_active_ts /\ updated_at' = updated_at
    BY <1>3 DEF gc_vars
  <2>2. ASSUME NEW iso \in Isolation, Begin(iso) PROVE CollectorIInv'
    <3>1. /\ Begun' = Begun \cup {next_txn_id}
          /\ next_txn_id' = next_txn_id + 1
          /\ current' = current
          /\ \A t \in Begun : txns'[t] = txns[t]
          /\ txns'[next_txn_id].read_ts = current
      BY <1>1, <2>2 DEF Begin, Begun
    <3> QED BY <1>1, <2>1, <3>1 DEF CollectorIInv
  <2>3. ASSUME Begun' = Begun, next_txn_id' = next_txn_id, current' >= current,
               current' \in Nat, \A u \in Begun : txns'[u].read_ts = txns[u].read_ts
        PROVE  CollectorIInv'
    BY <1>1, <2>1, <2>3 DEF CollectorIInv
  <2>4. ASSUME NEW t \in Begun,
               Commit(t) \/ CommitConflict(t) \/ Abort(t) \/ \E k \in Key : RecordWrite(t, k)
        PROVE  CollectorIInv'
    <3>1. next_txn_id' = next_txn_id /\ current' \in {current, current + 1} /\ Begun' = Begun
      BY <2>4 DEF Commit, CommitConflict, Abort, RecordWrite, Begun
    <3>2. \A u \in Begun : txns'[u].read_ts = txns[u].read_ts
      <4>1. txns \in [Begun -> Transaction]
        BY <1>1 DEF Begun
      <4>2. CASE Commit(t)
        BY <4>1, <4>2 DEF Commit, Transaction
      <4>3. CASE CommitConflict(t) \/ Abort(t)
        BY <4>1, <4>3 DEF CommitConflict, Abort, Transaction
      <4>4. CASE \E k \in Key : RecordWrite(t, k)
        BY <4>1, <4>4 DEF RecordWrite, Transaction
      <4> QED BY <2>4, <4>2, <4>3, <4>4
    <3> QED BY <1>1, <2>3, <3>1, <3>2
  <2> QED BY <1>3, <2>2, <2>4 DEF Next
<1>4. CASE UNCHANGED <<vars, gc_vars>>
  BY <1>4 DEF vars, gc_vars, CollectorIInv, Begun
<1> QED BY <1>2, <1>3, <1>4 DEF GcNext

\* A version that ends before min_active_ts ends before every such snapshot.
LEMMA CollectedIsUnseen == IInv /\ CollectorIInv => CollectedUnseen
<1> SUFFICES ASSUME IInv, CollectorIInv,
                    NEW k \in Key, NEW v \in Versions(k), CanGc(v),
                    NEW t \in updated_at..(next_txn_id - 1), Active(t)
             PROVE  v.txn_id = t \/ ~IsVisibleTo(v, txns[t].read_ts, t)
  BY DEF CollectedUnseen
<1>1. PICK u \in Begun : v = Version(k, u)
  BY DEF Versions
<1>2. v.end_ts \in Nat
  BY <1>1, VersionEnds
<1>3. t \in Begun
  BY DEF Active
<1>4. txns[t].read_ts >= min_active_ts /\ txns[t].read_ts \in Nat /\ min_active_ts \in Nat
  BY <1>3, MaxTxnAssumption DEF CollectorIInv, IInv, TypeOK, Transaction, Begun
<1>5. ~(v.end_ts > txns[t].read_ts)
  BY <1>2, <1>4 DEF CanGc
<1> QED BY <1>5 DEF IsVisibleTo

\* A transaction sees one version of every key besides its own write, the last
\* one committed in its snapshot; and what the collector lets go is seen by no
\* transaction that began after the collector's timestamp was taken.
THEOREM VersionsAreSafe == GcSpec => []VersionsSafe
<1>1. Init /\ GcInit => IInv /\ CollectorIInv
  <2> SUFFICES ASSUME Init, GcInit PROVE CollectorIInv
    BY InitIInv
  <2> QED BY DEF Init, GcInit, CollectorIInv, Begun
<1>2. IInv /\ CollectorIInv /\ [GcNext]_<<vars, gc_vars>> => IInv' /\ CollectorIInv'
  <2> SUFFICES ASSUME IInv, CollectorIInv, [GcNext]_<<vars, gc_vars>>
               PROVE  IInv' /\ CollectorIInv'
    OBVIOUS
  <2>1. [Next]_vars
    BY DEF GcNext, UpdateMinActiveTs, vars
  <2>2. IInv'
    BY <2>1, NextIInv
  <2> QED BY <2>2, NextCollectorIInv
<1>3. IInv /\ CollectorIInv => VersionsSafe
  BY OneVersionSeen, CollectedIsUnseen DEF VersionsSafe
<1> QED BY <1>1, <1>2, <1>3, PTL DEF GcSpec

-----------------------------------------------------------------------------
(* Time travel. *)

\* A set of times up to a bound has a newest one, and Newest names it.
LEMMA NewestIs ==
    ASSUME NEW T \in SUBSET Nat, T # {}, NEW n \in Nat, \A t \in T : t <= n
    PROVE  Newest(T) \in T /\ \A u \in T : u <= Newest(T)
<1>1. \E t \in T : \A u \in T : u <= t
  BY GreatestNat
<1> QED  BY <1>1 DEF Newest

\* The times of a key: those at which it was committed are in the past; a
\* version that is gone was ended before the cutoff; a version says what was
\* committed and ends at a later commit or not at all.  In order, it ends at
\* the very next one.
KeyTimes(ch, cm, last, cut) ==
    /\ DOMAIN cm \in SUBSET (1..last) /\ DOMAIN ch \in SUBSET DOMAIN cm
    /\ \A t \in DOMAIN cm \ DOMAIN ch : \E u \in DOMAIN cm : t < u /\ u <= cut
    /\ \A t \in DOMAIN ch :
          /\ ch[t] = [end_ts |-> ch[t].end_ts, value |-> cm[t]]
          /\ ch[t].end_ts = Forever \/ (ch[t].end_ts \in DOMAIN cm /\ ch[t].end_ts > t)

NextEnds(ch, cm) == \A t \in DOMAIN ch, u \in DOMAIN cm :
                      t < u => ch[t].end_ts # Forever /\ ch[t].end_ts <= u

PitrInv ==
    /\ oracle \in 1..MaxTs /\ cutoff \in 0..oracle
    /\ DOMAIN chains = PKey /\ DOMAIN committed = PKey
    /\ \A k \in PKey : /\ KeyTimes(chains[k], committed[k], oracle, cutoff)
                       /\ inOrder => NextEnds(chains[k], committed[k])

\* At the start nothing is committed.
LEMMA PitrBegins == PitrInit => PitrInv
<1> SUFFICES ASSUME PitrInit PROVE PitrInv
  OBVIOUS
<1>1. DOMAIN << >> = {}
  OBVIOUS
<1>2. \A k \in PKey : DOMAIN chains[k] = {} /\ DOMAIN committed[k] = {}
  BY <1>1 DEF PitrInit
<1>3. oracle = 1 /\ cutoff = 0 /\ DOMAIN chains = PKey /\ DOMAIN committed = PKey
  BY DEF PitrInit
<1> QED  BY <1>2, <1>3, PitrAssumption DEF PitrInv, KeyTimes, NextEnds

\* A commit adds a version, and the one before it ends there.
Before(ch, ts) == {t \in DOMAIN ch : t < ts}

OneMore(new, ch, ts, v, p) ==
    /\ DOMAIN new = DOMAIN ch \cup {ts}
    /\ new[ts] = [end_ts |-> Forever, value |-> v]
    /\ \A t \in DOMAIN ch : t \notin p \/ t # Newest(p) => new[t] = ch[t]
    /\ p # {} => new[Newest(p)] = [ch[Newest(p)] EXCEPT !.end_ts = ts]

\* What CommitAt makes of the chain of a key: one version more, and the one
\* before it ended.
LEMMA CommittingIs ==
    ASSUME NEW ch, NEW ts, NEW v, ts \notin DOMAIN ch,
           Before(ch, ts) # {} => Newest(Before(ch, ts)) \in Before(ch, ts)
    PROVE  OneMore(Committing(ch, ts, v), ch, ts, v, Before(ch, ts))
<1> DEFINE p == Before(ch, ts)
           n == Newest(p)
           ended == IF p = {} THEN ch ELSE [ch EXCEPT ![n].end_ts = ts]
           new == Committing(ch, ts, v)
<1>1. new = [z \in DOMAIN ended \cup {ts} |-> IF z = ts THEN [end_ts |-> Forever, value |-> v] ELSE ended[z]]
  BY Zenon DEF Committing, With, Before
<1>a. p \in SUBSET DOMAIN ch /\ (p # {} => n \in p)
  BY DEF Before
<1> HIDE DEF p, n, new
<1>2. DOMAIN ended = DOMAIN ch
  OBVIOUS
<1>3. \A t \in DOMAIN ch : t \notin p \/ t # n => ended[t] = ch[t]
  <2> SUFFICES ASSUME NEW t \in DOMAIN ch, t \notin p \/ t # n PROVE ended[t] = ch[t]
    OBVIOUS
  <2>1. CASE p = {}
    BY <2>1
  <2>2. CASE p # {}
    BY <1>a, <2>2
  <2> QED  BY <2>1, <2>2
<1>4. p # {} => n \in DOMAIN ch /\ ended[n] = [ch[n] EXCEPT !.end_ts = ts]
  BY <1>a
<1> HIDE DEF ended
<1>5. /\ DOMAIN new = DOMAIN ch \cup {ts}
      /\ new[ts] = [end_ts |-> Forever, value |-> v]
      /\ \A t \in DOMAIN ch : t \notin p \/ t # n => new[t] = ch[t]
      /\ p # {} => new[n] = [ch[n] EXCEPT !.end_ts = ts]
  BY <1>1, <1>2, <1>3, <1>4
<1> QED  BY <1>5, Zenon DEF OneMore, n, new, p

\* A commit keeps what is known of its key.
LEMMA CommitKeepsKey ==
    ASSUME PitrInv, NEW ch, NEW cm, NEW ts \in Nat, NEW v, KeyTimes(ch, cm, oracle, cutoff), ts \notin DOMAIN cm,
           ts >= 1, ts <= oracle', oracle <= oracle', oracle' \in 1..MaxTs, cutoff' = cutoff
    PROVE  /\ KeyTimes(Committing(ch, ts, v), With(cm, ts, v), oracle', cutoff')
           /\ NextEnds(ch, cm) /\ (\A t \in DOMAIN cm : t < ts)
                 => NextEnds(Committing(ch, ts, v), With(cm, ts, v))
<1> DEFINE p == Before(ch, ts)
           n == Newest(p)
           new == Committing(ch, ts, v)
           all == With(cm, ts, v)
<1>1. /\ DOMAIN cm \in SUBSET (1..oracle) /\ DOMAIN ch \in SUBSET DOMAIN cm
      /\ \A t \in DOMAIN cm \ DOMAIN ch : \E u \in DOMAIN cm : t < u /\ u <= cutoff
      /\ \A t \in DOMAIN ch :
            /\ ch[t] = [end_ts |-> ch[t].end_ts, value |-> cm[t]]
            /\ ch[t].end_ts = Forever \/ (ch[t].end_ts \in DOMAIN cm /\ ch[t].end_ts > t)
      /\ oracle \in Nat /\ oracle' \in Nat /\ cutoff \in Nat
  BY PitrAssumption DEF KeyTimes, PitrInv
<1>2. DOMAIN all = DOMAIN cm \cup {ts} /\ all[ts] = v /\ \A t \in DOMAIN cm : all[t] = cm[t]
  BY DEF With
<1>3. \A t \in DOMAIN cm : t \in Nat /\ 1 <= t /\ t <= oracle
  BY <1>1
<1>4. p # {} => n \in p /\ \A u \in p : u <= n
  <2>1. p \in SUBSET Nat /\ \A t \in p : t <= ts
    BY <1>1, <1>3 DEF Before
  <2> HIDE DEF p
  <2> QED  BY <2>1, NewestIs
<1>5. \A t : t \in p <=> t \in DOMAIN ch /\ t < ts
  BY DEF Before
<1>6. ts \notin DOMAIN ch
  BY <1>1
<1>7. /\ DOMAIN new = DOMAIN ch \cup {ts}
      /\ new[ts] = [end_ts |-> Forever, value |-> v]
      /\ \A t \in DOMAIN ch : t \notin p \/ t # n => new[t] = ch[t]
      /\ p # {} => new[n] = [ch[n] EXCEPT !.end_ts = ts]
  <2>1. p # {} => Newest(p) \in p
    BY <1>4
  <2>2. OneMore(new, ch, ts, v, p)
    BY <1>6, <2>1, CommittingIs, Zenon
  <2> QED  BY <2>2, Zenon DEF OneMore
<1> HIDE DEF p, n, new, all
<1>8. DOMAIN all \in SUBSET (1..oracle') /\ DOMAIN new \in SUBSET DOMAIN all
  BY <1>1, <1>2, <1>3, <1>7
<1>9. \A t \in DOMAIN all \ DOMAIN new : \E u \in DOMAIN all : t < u /\ u <= cutoff'
  BY <1>1, <1>2, <1>7
<1>10. ASSUME NEW t \in DOMAIN ch
       PROVE  \/ new[t] = ch[t] /\ ~ (t = n /\ p # {})
              \/ t = n /\ n \in p /\ new[t] = [end_ts |-> ts, value |-> cm[t]]
  <2>1. CASE t = n /\ p # {}
    <3>1. new[t] = [ch[t] EXCEPT !.end_ts = ts] /\ n \in p
      BY <1>4, <1>7, <2>1
    <3>2. ch[t] = [end_ts |-> ch[t].end_ts, value |-> cm[t]]
      BY <1>1
    <3> DEFINE e == ch[t].end_ts
               w == cm[t]
    <3>3. ch[t] = [end_ts |-> e, value |-> w]
      BY <3>2
    <3> HIDE DEF e, w
    <3>4. [ch[t] EXCEPT !.end_ts = ts] = [end_ts |-> ts, value |-> w]
      BY <3>3
    <3> QED  BY <2>1, <3>1, <3>4 DEF w
  <2>2. CASE ~ (t = n /\ p # {})
    BY <1>7, <2>2
  <2> QED  BY <2>1, <2>2
<1>11. ASSUME NEW t \in DOMAIN new
       PROVE  /\ new[t] = [end_ts |-> new[t].end_ts, value |-> all[t]]
              /\ new[t].end_ts = Forever \/ (new[t].end_ts \in DOMAIN all /\ new[t].end_ts > t)
  <2>1. CASE t = ts
    <3>1. new[t] = [end_ts |-> Forever, value |-> all[t]]
      BY <1>2, <1>7, <2>1
    <3> QED  BY <3>1
  <2>2. CASE t \in DOMAIN ch
    <3>1. all[t] = cm[t]
      BY <1>1, <1>2, <2>2
    <3>2. CASE new[t] = ch[t]
      BY <1>1, <1>2, <2>2, <3>1, <3>2
    <3>3. CASE n \in p /\ t = n /\ new[t] = [end_ts |-> ts, value |-> cm[t]]
      <4>1. new[t].end_ts = ts /\ ts > t
        BY <1>1, <1>3, <1>5, <3>3
      <4> QED  BY <1>2, <3>1, <3>3, <4>1
    <3> QED  BY <1>10, <2>2, <3>2, <3>3
  <2> QED  BY <1>7, <2>1, <2>2
<1>12. KeyTimes(new, all, oracle', cutoff')
  BY <1>8, <1>9, <1>11 DEF KeyTimes
<1>13. ASSUME NextEnds(ch, cm), \A t \in DOMAIN cm : t < ts, NEW t \in DOMAIN new, NEW u \in DOMAIN all, t < u
       PROVE  new[t].end_ts # Forever /\ new[t].end_ts <= u
  <2>1. t \in DOMAIN ch
    <3>1. CASE t = ts
      BY <1>2, <1>3, <1>13, <3>1
    <3> QED  BY <1>7, <3>1
  <2>2. t < ts /\ t \in p /\ t \in DOMAIN cm /\ ts # Forever
    BY <1>1, <1>5, <1>13, <2>1, PitrAssumption DEF Forever
  <2>3. CASE t = n
    <3>1. new[t].end_ts = ts
      <4>1. new[t] = [end_ts |-> ts, value |-> cm[t]]
        BY <1>10, <2>1, <2>2, <2>3, Zenon
      <4> QED  BY <4>1
    <3>2. ts <= u
      <4>1. CASE u \in DOMAIN cm
        <5>1. u \notin DOMAIN ch
          BY <1>3, <1>4, <1>5, <1>13, <2>2, <2>3, <4>1
        <5> DEFINE later == {x \in DOMAIN cm : u <= x}
        <5>2. later \in SUBSET Nat /\ later # {} /\ \A x \in later : x <= oracle
          BY <1>3, <4>1
        <5>3. Newest(later) \in later /\ \A x \in later : x <= Newest(later)
          <6> HIDE DEF later
          <6> QED  BY <1>1, <5>2, NewestIs
        <5> DEFINE z == Newest(later)
        <5>4. z \in DOMAIN cm /\ u <= z
          BY <5>3
        <5>5. \A x \in DOMAIN cm : x <= z
          BY <1>3, <4>1, <5>3, <5>4
        <5> HIDE DEF z
        <5>6. z \in DOMAIN ch
          BY <1>1, <1>3, <5>4, <5>5
        <5>7. z \in p /\ z > n
          BY <1>3, <1>5, <1>13, <2>2, <2>3, <4>1, <5>4, <5>6
        <5> QED  BY <1>3, <1>4, <2>2, <2>3, <5>4, <5>7
      <4> QED  BY <1>2, <4>1
    <3> QED  BY <2>2, <3>1, <3>2
  <2>4. CASE t # n
    <3>1. new[t] = ch[t]
      BY <1>10, <2>1, <2>4
    <3>2. n \in DOMAIN cm /\ t < n
      BY <1>1, <1>3, <1>4, <1>5, <2>2, <2>4
    <3>3. ch[t].end_ts # Forever /\ ch[t].end_ts <= n
      BY <1>13, <2>1, <3>2 DEF NextEnds
    <3>4. CASE u \in DOMAIN cm
      BY <1>13, <2>1, <3>1, <3>4 DEF NextEnds
    <3>5. CASE u = ts
      <4>1. n < ts /\ ch[t].end_ts \in Nat /\ n \in Nat
        BY <1>1, <1>3, <1>13, <2>1, <3>2, <3>3
      <4> QED  BY <3>1, <3>3, <3>5, <4>1
    <3> QED  BY <1>2, <3>4, <3>5
  <2> QED  BY <2>3, <2>4
<1> QED  BY <1>12, <1>13 DEF NextEnds, new, all

\* ... so it keeps the invariant,
LEMMA CommitAtKeeps ==
    ASSUME PitrInv, NEW k \in PKey, NEW ts \in Nat, NEW v, CommitAt(k, ts, v), ts \notin DOMAIN committed[k],
           ts >= 1, ts <= oracle', oracle <= oracle', oracle' \in 1..MaxTs, cutoff' = cutoff,
           inOrder' => inOrder /\ \A t \in DOMAIN committed[k] : t < ts
    PROVE  PitrInv'
<1> DEFINE ch == chains[k]
           cm == committed[k]
           new == Committing(ch, ts, v)
           all == With(cm, ts, v)
<1>1. /\ oracle \in 1..MaxTs /\ cutoff \in 0..oracle /\ oracle \in Nat /\ oracle' \in Nat /\ cutoff \in Nat
      /\ DOMAIN chains = PKey /\ DOMAIN committed = PKey
      /\ \A j \in PKey : /\ KeyTimes(chains[j], committed[j], oracle, cutoff)
                         /\ inOrder => NextEnds(chains[j], committed[j])
  BY PitrAssumption DEF PitrInv
<1>2. chains' = [chains EXCEPT ![k] = new] /\ committed' = [committed EXCEPT ![k] = all]
  BY DEF CommitAt
<1> HIDE DEF new, all
<1>3. /\ DOMAIN chains' = PKey /\ DOMAIN committed' = PKey
      /\ chains'[k] = new /\ committed'[k] = all
      /\ \A j \in PKey : j # k => chains'[j] = chains[j] /\ committed'[j] = committed[j]
  BY <1>1, <1>2
<1>4. KeyTimes(new, all, oracle', cutoff') /\ (inOrder' => NextEnds(new, all))
  <2>1. KeyTimes(ch, cm, oracle, cutoff)
    BY <1>1
  <2>2. /\ KeyTimes(new, all, oracle', cutoff')
        /\ NextEnds(ch, cm) /\ (\A t \in DOMAIN cm : t < ts) => NextEnds(new, all)
    BY <2>1, CommitKeepsKey DEF new, all
  <2> QED  BY <1>1, <2>2
<1>5. cutoff' \in 0..oracle'
  BY <1>1
<1>6. ASSUME NEW j \in PKey
      PROVE  KeyTimes(chains'[j], committed'[j], oracle', cutoff') /\ (inOrder' => NextEnds(chains'[j], committed'[j]))
  <2>1. CASE j = k
    <3>1. chains'[j] = new /\ committed'[j] = all
      BY <1>3, <2>1
    <3> QED  BY <1>4, <3>1 DEF KeyTimes
  <2>2. CASE j # k
    <3>1. chains'[j] = chains[j] /\ committed'[j] = committed[j]
      BY <1>3, <2>2
    <3>2. KeyTimes(chains[j], committed[j], oracle, cutoff) /\ (inOrder' => NextEnds(chains[j], committed[j]))
      BY <1>1
    <3>3. DOMAIN committed[j] \in SUBSET (1..oracle')
      BY <1>1, <3>2 DEF KeyTimes
    <3> QED  BY <3>1, <3>2, <3>3 DEF KeyTimes
  <2> QED  BY <2>1, <2>2
<1> QED  BY <1>3, <1>5, <1>6 DEF PitrInv, NextEnds

\* and so does the collector, which drops versions ended before its cutoff.
LEMMA GcKeeps == ASSUME PitrInv, NEW min \in 1..MaxTs, Gc(min) PROVE PitrInv'
<1>1. /\ oracle \in 1..MaxTs /\ cutoff \in 0..oracle /\ oracle \in Nat /\ cutoff \in Nat /\ min \in Nat
      /\ DOMAIN chains = PKey /\ DOMAIN committed = PKey /\ MaxTs \in Nat
  BY PitrAssumption DEF PitrInv
<1>2. /\ min > cutoff /\ min <= oracle /\ cutoff' = min /\ oracle' = oracle /\ committed' = committed
      /\ inOrder' = inOrder
      /\ chains' = [k \in PKey |-> [t \in DOMAIN chains[k] \ Collected(chains[k], min) |-> chains[k][t]]]
  BY DEF Gc
<1>3. ASSUME NEW k \in PKey
      PROVE  KeyTimes(chains'[k], committed'[k], oracle', cutoff') /\ (inOrder' => NextEnds(chains'[k], committed'[k]))
  <2> DEFINE ch == chains[k]
             cm == committed[k]
             new == chains'[k]
             gone == Collected(ch, min)
  <2>1. new = [t \in DOMAIN ch \ gone |-> ch[t]]
    BY <1>2
  <2>2. committed'[k] = cm
    BY <1>2
  <2>3. KeyTimes(ch, cm, oracle, cutoff) /\ (inOrder => NextEnds(ch, cm))
    BY DEF PitrInv
  <2> HIDE DEF new
  <2>4. DOMAIN new = DOMAIN ch \ gone /\ \A t \in DOMAIN new : new[t] = ch[t]
    BY <2>1
  <2>5. \A t \in gone : t \in DOMAIN ch /\ ch[t].end_ts <= min
    BY DEF Collected
  <2> HIDE DEF ch, cm, gone
  <2>6. DOMAIN cm \in SUBSET (1..oracle') /\ DOMAIN new \in SUBSET DOMAIN cm
    BY <1>2, <2>3, <2>4 DEF KeyTimes
  <2>7. ASSUME NEW t \in DOMAIN cm \ DOMAIN new PROVE \E u \in DOMAIN cm : t < u /\ u <= cutoff'
    <3>1. CASE t \notin DOMAIN ch
      <4>1. PICK u \in DOMAIN cm : t < u /\ u <= cutoff
        BY <2>3, <3>1 DEF KeyTimes
      <4>2. u \in Nat
        BY <2>3 DEF KeyTimes
      <4> QED  BY <1>1, <1>2, <4>1, <4>2
    <3>2. CASE t \in gone
      <4>1. ch[t].end_ts <= min /\ t \in DOMAIN ch
        BY <2>5, <3>2
      <4>2. ch[t].end_ts # Forever
        <5>1. ~ Forever <= min
          BY <1>1, <1>2 DEF Forever
        <5> QED  BY <4>1, <5>1
      <4>3. ch[t].end_ts \in DOMAIN cm /\ ch[t].end_ts > t
        BY <2>3, <4>1, <4>2 DEF KeyTimes
      <4> QED  BY <1>2, <2>3, <4>1, <4>3 DEF KeyTimes
    <3> QED  BY <2>4, <3>1, <3>2
  <2>8. \A t \in DOMAIN new :
          /\ new[t] = [end_ts |-> new[t].end_ts, value |-> cm[t]]
          /\ new[t].end_ts = Forever \/ (new[t].end_ts \in DOMAIN cm /\ new[t].end_ts > t)
    BY <2>3, <2>4 DEF KeyTimes
  <2>9. inOrder' => NextEnds(new, cm)
    BY <1>2, <2>3, <2>4 DEF NextEnds
  <2>10. KeyTimes(new, cm, oracle', cutoff')
    BY <2>2, <2>6, <2>7, <2>8 DEF KeyTimes
  <2> QED  BY <2>2, <2>9, <2>10 DEF new, cm, KeyTimes
<1>4. DOMAIN chains' = PKey /\ DOMAIN committed' = PKey /\ oracle' \in 1..MaxTs /\ cutoff' \in 0..oracle'
  BY <1>1, <1>2
<1> QED  BY <1>3, <1>4 DEF PitrInv, NextEnds

\* Every step keeps the invariant.
LEMMA PitrKeeps == PitrInv /\ [PitrNext]_pitr_vars => PitrInv'
<1> SUFFICES ASSUME PitrInv, [PitrNext]_pitr_vars PROVE PitrInv'
  OBVIOUS
<1>1. /\ oracle \in 1..MaxTs /\ cutoff \in 0..oracle /\ MaxTs \in Nat
      /\ \A k \in PKey : DOMAIN committed[k] \in SUBSET (1..oracle)
  BY PitrAssumption DEF PitrInv, KeyTimes
<1>2. ASSUME NEW k \in PKey, NEW v \in PValue, Write(k, v) PROVE PitrInv'
  <2>1. /\ oracle < MaxTs /\ oracle' = oracle + 1 /\ CommitAt(k, oracle + 1, v)
        /\ cutoff' = cutoff /\ inOrder' = inOrder
    BY <1>2 DEF Write
  <2>2. oracle + 1 \notin DOMAIN committed[k] /\ \A t \in DOMAIN committed[k] : t < oracle + 1
    BY <1>1
  <2>3. oracle + 1 \in Nat /\ oracle + 1 >= 1 /\ oracle + 1 <= oracle' /\ oracle <= oracle' /\ oracle' \in 1..MaxTs
    BY <1>1, <2>1
  <2> QED  BY <2>1, <2>2, <2>3, CommitAtKeeps
<1>3. ASSUME NEW k \in PKey, NEW v \in PValue, NEW ts \in 1..MaxTs, CommitLate(k, ts, v) PROVE PitrInv'
  <2>1. /\ ts <= oracle /\ ts \notin DOMAIN committed[k] /\ CommitAt(k, ts, v)
        /\ inOrder' = (inOrder /\ \A t \in DOMAIN committed[k] : t < ts)
        /\ oracle' = oracle /\ cutoff' = cutoff
    BY <1>3 DEF CommitLate
  <2>2. ts \in Nat /\ ts >= 1 /\ ts <= oracle' /\ oracle <= oracle' /\ oracle' \in 1..MaxTs
    BY <1>1, <2>1
  <2>3. inOrder' => inOrder /\ \A t \in DOMAIN committed[k] : t < ts
    BY <2>1
  <2> QED  BY <2>1, <2>2, <2>3, CommitAtKeeps
<1>4. CASE UNCHANGED pitr_vars
  BY <1>4 DEF pitr_vars, PitrInv, KeyTimes, NextEnds
<1> QED  BY <1>2, <1>3, <1>4, GcKeeps DEF PitrNext

\* What a read finds is the last commit until then.
LEMMA PitrIsSafe == PitrInv => PitrSafe
<1> SUFFICES ASSUME PitrInv, NEW k \in PKey, NEW ts \in 1..oracle
             PROVE  IF ts >= cutoff THEN ReadAt(chains[k], ts) = AsOf(k, ts)
                                    ELSE inOrder => ReadAt(chains[k], ts) \in {0, AsOf(k, ts)}
  BY DEF PitrSafe
<1> DEFINE ch == chains[k]
           cm == committed[k]
           hits == {t \in DOMAIN ch : t <= ts /\ ch[t].end_ts > ts}
           until == {t \in DOMAIN cm : t <= ts}
           h == Newest(hits)
           n == Newest(until)
<1>1. oracle \in Nat /\ MaxTs \in Nat /\ oracle <= MaxTs /\ cutoff \in Nat /\ ts \in Nat /\ ts <= oracle
  BY PitrAssumption DEF PitrInv
<1>2. KeyTimes(ch, cm, oracle, cutoff) /\ (inOrder => NextEnds(ch, cm))
  BY DEF PitrInv
<1>3. ReadAt(ch, ts) = IF hits = {} THEN 0 ELSE ch[h].value
  BY DEF ReadAt
<1>4. AsOf(k, ts) = IF until = {} THEN 0 ELSE cm[n]
  BY DEF AsOf
<1> HIDE DEF ch, cm
<1>5. DOMAIN ch \in SUBSET DOMAIN cm /\ DOMAIN cm \in SUBSET Nat /\ \A t \in DOMAIN ch : ch[t].value = cm[t]
  BY <1>2 DEF KeyTimes
<1>6. hits \in SUBSET until /\ until \in SUBSET Nat /\ \A t \in until : t <= ts
  BY <1>5
<1>7. \A t : t \in hits <=> t \in DOMAIN ch /\ t <= ts /\ ch[t].end_ts > ts
  OBVIOUS
<1>8. \A t : t \in until <=> t \in DOMAIN cm /\ t <= ts
  OBVIOUS
<1> HIDE DEF hits, until
<1>9. until # {} => n \in until /\ \A u \in until : u <= n
  BY <1>1, <1>6, NewestIs
<1>10. hits # {} => h \in hits /\ \A u \in hits : u <= h
  BY <1>1, <1>6, NewestIs
<1> HIDE DEF h, n
<1>11. ASSUME ts >= cutoff, until # {} PROVE n \in hits
  <2>1. n \in DOMAIN ch
    <3>1. SUFFICES ASSUME n \notin DOMAIN ch PROVE FALSE
      OBVIOUS
    <3>2. PICK u \in DOMAIN cm : n < u /\ u <= cutoff
      BY <1>2, <1>8, <1>9, <1>11, <3>1 DEF KeyTimes
    <3>3. u \in until
      BY <1>1, <1>5, <1>8, <1>11, <3>2
    <3>4. n \in Nat /\ u \in Nat /\ u <= n
      BY <1>6, <1>9, <1>11, <3>3
    <3> QED  BY <3>2, <3>4
  <2>2. ch[n].end_ts > ts
    <3>1. CASE ch[n].end_ts = Forever
      <4>1. Forever > ts
        BY <1>1 DEF Forever
      <4> QED  BY <3>1, <4>1
    <3>2. CASE ch[n].end_ts \in DOMAIN cm /\ ch[n].end_ts > n
      <4> DEFINE e == ch[n].end_ts
      <4>1. e \in Nat /\ e \in DOMAIN cm /\ e > n /\ n \in Nat
        BY <1>5, <1>6, <1>9, <1>11, <3>2
      <4> HIDE DEF e
      <4>2. e > ts
        BY <1>1, <1>8, <1>9, <1>11, <4>1
      <4> QED  BY <4>2 DEF e
    <3> QED  BY <1>2, <2>1, <3>1, <3>2 DEF KeyTimes
  <2> QED  BY <1>7, <1>8, <1>9, <1>11, <2>1, <2>2
<1>12. CASE ts >= cutoff
  <2>1. CASE until = {}
    <3>1. hits = {}
      BY <1>6, <2>1
    <3> QED  BY <1>3, <1>4, <1>12, <2>1, <3>1 DEF ch
  <2>2. CASE until # {}
    <3>1. n \in hits
      BY <1>11, <1>12, <2>2
    <3>2. h \in hits /\ n <= h /\ h <= n
      BY <1>6, <1>9, <1>10, <2>2, <3>1
    <3>3. h = n
      <4>1. h \in Nat /\ n \in Nat
        BY <1>6, <3>1, <3>2
      <4> QED  BY <3>2, <4>1
    <3>4. ch[h].value = cm[n]
      BY <1>5, <1>7, <3>1, <3>3
    <3> QED  BY <1>3, <1>4, <1>12, <2>2, <3>1, <3>4 DEF ch
  <2> QED  BY <2>1, <2>2
<1>13. CASE ~ (ts >= cutoff)
  <2> SUFFICES ASSUME inOrder PROVE ReadAt(chains[k], ts) \in {0, AsOf(k, ts)}
    BY <1>13
  <2>1. CASE hits = {}
    BY <1>3, <2>1 DEF ch
  <2>2. CASE hits # {}
    <3>1. h \in hits /\ h \in until /\ n \in until /\ h <= n /\ until # {}
      BY <1>6, <1>9, <1>10, <2>2
    <3>2. h \in Nat /\ n \in Nat /\ n <= ts /\ n \in DOMAIN cm /\ h \in DOMAIN ch /\ ch[h].end_ts > ts
      BY <1>6, <1>7, <1>8, <3>1
    <3>3. h = n
      <4>1. SUFFICES ASSUME h # n PROVE FALSE
        OBVIOUS
      <4>2. h < n
        BY <3>1, <3>2, <4>1
      <4> DEFINE e == ch[h].end_ts
      <4>3. e # Forever /\ e <= n
        BY <1>2, <3>2, <4>2 DEF NextEnds
      <4>4. e \in Nat /\ e > ts
        BY <1>2, <1>5, <3>2, <4>3 DEF KeyTimes
      <4> HIDE DEF e
      <4> QED  BY <1>1, <3>2, <4>3, <4>4
    <3>4. ch[h].value = cm[n]
      BY <1>5, <3>2, <3>3
    <3> QED  BY <1>3, <1>4, <2>2, <3>1, <3>4 DEF ch
  <2> QED  BY <2>1, <2>2
<1> QED  BY <1>12, <1>13

-----------------------------------------------------------------------------
(* Savepoints. *)

\* To be a prefix is to agree on the length of the shorter one.
LEMMA PrefixIs == ASSUME NEW S, NEW s \in Seq(S), NEW t \in Seq(S)
                  PROVE  IsPrefix(s, t) <=> Len(s) <= Len(t) /\ \A i \in 1..Len(s) : s[i] = t[i]
<1> DEFINE n == Len(s)
<1>1. IsPrefix(s, t) <=> n <= Len(t) /\ SubSeq(s, 1, n) = SubSeq(t, 1, n)
  BY DEF IsPrefix
<1>2. n \in Nat /\ Len(t) \in Nat /\ DOMAIN s = 1..n /\ DOMAIN t = 1..Len(t)
  OBVIOUS
<1>3. SubSeq(s, 1, n) = [i \in 1..n |-> s[i]]
  OBVIOUS
<1>4. n <= Len(t) => SubSeq(t, 1, n) = [i \in 1..n |-> t[i]]
  OBVIOUS
<1> HIDE DEF n
<1>5. ASSUME n <= Len(t)
      PROVE  SubSeq(s, 1, n) = SubSeq(t, 1, n) <=> \A i \in 1..n : s[i] = t[i]
  BY <1>3, <1>4, <1>5
<1> QED  BY <1>1, <1>5 DEF n

\* A list is a prefix of itself, ...
LEMMA PrefixSelf == ASSUME NEW S, NEW s \in Seq(S) PROVE IsPrefix(s, s)
BY PrefixIs

\* ... a prefix of a prefix is one, ...
LEMMA PrefixOfPrefix == ASSUME NEW S, NEW s \in Seq(S), NEW t \in Seq(S), NEW u \in Seq(S),
                               IsPrefix(s, t), IsPrefix(t, u)
                        PROVE  IsPrefix(s, u)
<1> DEFINE l == Len(s)
           m == Len(t)
           n == Len(u)
<1>1. l \in Nat /\ m \in Nat /\ n \in Nat
  OBVIOUS
<1>2. l <= m /\ (\A i \in 1..l : s[i] = t[i]) /\ m <= n /\ \A i \in 1..m : t[i] = u[i]
  BY PrefixIs
<1>3. IsPrefix(s, u) <=> l <= n /\ \A i \in 1..l : s[i] = u[i]
  BY PrefixIs
<1> HIDE DEF l, m, n
<1> QED  BY <1>1, <1>2, <1>3

\* ... and a list that grows keeps its prefixes.
LEMMA PrefixOfAppend == ASSUME NEW S, NEW s \in Seq(S), NEW x \in S
                        PROVE  IsPrefix(s, Append(s, x))
<1>1. Append(s, x) \in Seq(S) /\ Len(Append(s, x)) = Len(s) + 1 /\ \A i \in 1..Len(s) : Append(s, x)[i] = s[i]
  OBVIOUS
<1> DEFINE t == Append(s, x)
<1>2. t \in Seq(S) /\ Len(s) \in Nat /\ Len(t) = Len(s) + 1 /\ \A i \in 1..Len(s) : t[i] = s[i]
  BY <1>1
<1> HIDE DEF t
<1>3. IsPrefix(s, t)
  BY <1>2, PrefixIs
<1> QED  BY <1>3 DEF t

\* The savepoint a name means is the last one of it.
LEMMA PositionIs ==
    ASSUME NEW S, savepoints \in Seq(S), NEW name, Position(name) # 0
    PROVE  Position(name) \in 1..Len(savepoints)
<1> DEFINE hits == {i \in DOMAIN savepoints : savepoints[i].name = name}
<1>1. Position(name) = IF hits = {} THEN 0 ELSE CHOOSE i \in hits : \A j \in hits : j <= i
  BY DEF Position
<1>2. hits \in SUBSET Nat /\ hits \in SUBSET (1..Len(savepoints)) /\ Len(savepoints) \in Nat
      /\ \A y \in hits : y <= Len(savepoints)
  OBVIOUS
<1>3. hits # {}
  BY <1>1
<1> HIDE DEF hits
<1>4. \E i \in hits : \A j \in hits : j <= i
  BY <1>2, <1>3, GreatestNat
<1>5. (CHOOSE i \in hits : \A j \in hits : j <= i) \in hits
  BY <1>4
<1> QED  BY <1>1, <1>2, <1>3, <1>5

SavepointType == [name : SpName, snapshot : Seq(SpKey)]

\* What the savepoint after the i-th would restore, and after the last one the
\* writes made so far.
Then(ws, sp, i) == IF i = Len(sp) THEN ws ELSE sp[i + 1].snapshot

Nest(ws, sp) == /\ ws \in Seq(SpKey) /\ sp \in Seq(SavepointType)
                /\ \A i \in 1..Len(sp) : IsPrefix(sp[i].snapshot, Then(ws, sp, i))

\* The types of nested snapshots.
LEMMA NestTypes ==
    ASSUME NEW ws, NEW sp, Nest(ws, sp)
    PROVE  /\ ws \in Seq(SpKey) /\ sp \in Seq(SavepointType) /\ Len(sp) \in Nat
           /\ \A i \in 1..Len(sp) : /\ sp[i] \in SavepointType /\ sp[i].snapshot \in Seq(SpKey)
                                    /\ Then(ws, sp, i) \in Seq(SpKey)
                                    /\ IsPrefix(sp[i].snapshot, Then(ws, sp, i))
<1>1. ws \in Seq(SpKey) /\ sp \in Seq(SavepointType) /\ Len(sp) \in Nat
  BY DEF Nest
<1>2. \A i \in 1..Len(sp) : sp[i] \in SavepointType
  BY <1>1
<1>3. \A i \in 1..Len(sp) : sp[i].snapshot \in Seq(SpKey)
  BY <1>2 DEF SavepointType
<1>4. ASSUME NEW i \in 1..Len(sp) PROVE Then(ws, sp, i) \in Seq(SpKey)
  <2>1. CASE i = Len(sp)
    BY <1>1, <2>1 DEF Then
  <2>2. CASE i # Len(sp)
    <3>1. i + 1 \in 1..Len(sp)
      BY <1>1, <2>2
    <3> QED  BY <1>3, <2>2, <3>1 DEF Then
  <2> QED  BY <2>1, <2>2
<1> QED  BY <1>1, <1>2, <1>3, <1>4 DEF Nest

\* A write leaves the snapshots nested, ...
LEMMA WriteNests ==
    ASSUME NEW ws, NEW sp, Nest(ws, sp), NEW k \in SpKey PROVE Nest(Append(ws, k), sp)
<1> DEFINE n == Len(sp)
           new == Append(ws, k)
<1>1. /\ ws \in Seq(SpKey) /\ sp \in Seq(SavepointType) /\ n \in Nat
      /\ \A i \in 1..n : sp[i].snapshot \in Seq(SpKey) /\ IsPrefix(sp[i].snapshot, Then(ws, sp, i))
  BY NestTypes
<1>2. new \in Seq(SpKey) /\ IsPrefix(ws, new)
  BY <1>1, PrefixOfAppend
<1> HIDE DEF new
<1>3. ASSUME NEW i \in 1..n PROVE IsPrefix(sp[i].snapshot, Then(new, sp, i))
  <2>1. CASE i = n
    <3> DEFINE s == sp[i].snapshot
    <3>1. Then(ws, sp, i) = ws /\ Then(new, sp, i) = new
      BY <2>1 DEF Then
    <3>2. s \in Seq(SpKey) /\ IsPrefix(s, ws)
      BY <1>1, <3>1
    <3> HIDE DEF s
    <3>3. IsPrefix(s, new)
      BY <1>1, <1>2, <3>2, PrefixOfPrefix
    <3> QED  BY <3>1, <3>3 DEF s
  <2>2. CASE i # n
    <3>1. Then(new, sp, i) = Then(ws, sp, i)
      BY <2>2 DEF Then
    <3> QED  BY <1>1, <3>1
  <2> QED  BY <2>1, <2>2
<1> QED  BY <1>1, <1>2, <1>3 DEF Nest, new

\* ... a savepoint adds the outermost one, ...
LEMMA SavepointNests ==
    ASSUME NEW ws, NEW sp, Nest(ws, sp), NEW name \in SpName
    PROVE  Nest(ws, Append(sp, [name |-> name, snapshot |-> ws]))
<1> DEFINE n == Len(sp)
           more == [name |-> name, snapshot |-> ws]
           new == Append(sp, more)
<1>1. /\ ws \in Seq(SpKey) /\ sp \in Seq(SavepointType) /\ n \in Nat
      /\ \A i \in 1..n : IsPrefix(sp[i].snapshot, Then(ws, sp, i))
  BY NestTypes
<1>2. more \in SavepointType /\ more.snapshot = ws
  BY <1>1 DEF SavepointType
<1> HIDE DEF more
<1>3. new \in Seq(SavepointType) /\ Len(new) = n + 1 /\ new[n + 1] = more /\ \A i \in 1..n : new[i] = sp[i]
  BY <1>1, <1>2
<1>a. Len(sp) = n
  OBVIOUS
<1> HIDE DEF new, n
<1>4. ASSUME NEW i \in 1..(n + 1) PROVE IsPrefix(new[i].snapshot, Then(ws, new, i))
  <2>1. CASE i = n + 1
    <3>1. Then(ws, new, i) = ws /\ new[i].snapshot = ws
      BY <1>2, <1>3, <2>1 DEF Then
    <3> QED  BY <1>1, <3>1, PrefixSelf
  <2>2. CASE i = n
    <3>1. i \in 1..n /\ i # n + 1
      BY <1>1, <2>2
    <3>2. Then(ws, new, i) = ws /\ Then(ws, sp, i) = ws
      BY <1>2, <1>3, <1>a, <2>2, <3>1 DEF Then
    <3> QED  BY <1>1, <1>3, <3>1, <3>2
  <2>3. CASE i # n /\ i # n + 1
    <3>1. i \in 1..n /\ i + 1 \in 1..n
      BY <1>1, <2>3
    <3>2. Then(ws, new, i) = Then(ws, sp, i)
      BY <1>3, <1>a, <2>3, <3>1 DEF Then
    <3> QED  BY <1>1, <1>3, <3>1, <3>2
  <2> QED  BY <2>1, <2>2, <2>3
<1> QED  BY <1>1, <1>3, <1>4 DEF Nest, new, more

\* ... a rollback drops those after the one it goes back to, ...
LEMMA RollbackNests ==
    ASSUME NEW ws, NEW sp, Nest(ws, sp), NEW p \in 1..Len(sp) PROVE Nest(sp[p].snapshot, SubSeq(sp, 1, p))
<1> DEFINE n == Len(sp)
           back == sp[p].snapshot
           new == SubSeq(sp, 1, p)
<1>1. /\ ws \in Seq(SpKey) /\ sp \in Seq(SavepointType) /\ n \in Nat /\ p \in 1..n /\ Len(sp) = n
      /\ \A i \in 1..n : sp[i].snapshot \in Seq(SpKey) /\ IsPrefix(sp[i].snapshot, Then(ws, sp, i))
  BY NestTypes
<1> HIDE DEF n
<1>2. new \in Seq(SavepointType) /\ Len(new) = p /\ \A i \in 1..p : new[i] = sp[i]
  BY <1>1
<1>b. back \in Seq(SpKey) /\ back = sp[p].snapshot
  BY <1>1
<1> HIDE DEF new, back
<1>3. ASSUME NEW i \in 1..p PROVE IsPrefix(new[i].snapshot, Then(back, new, i))
  <2>1. CASE i = p
    <3>1. Then(back, new, i) = back /\ new[i].snapshot = back
      BY <1>2, <1>b, <2>1 DEF Then
    <3> QED  BY <1>b, <3>1, PrefixSelf
  <2>2. CASE i # p
    <3>1. i + 1 \in 1..p /\ i # n /\ i \in 1..n
      BY <1>1, <2>2
    <3>2. Then(back, new, i) = Then(ws, sp, i)
      BY <1>1, <1>2, <2>2, <3>1 DEF Then
    <3> QED  BY <1>1, <1>2, <3>1, <3>2
  <2> QED  BY <2>1, <2>2
<1> QED  BY <1>2, <1>3, <1>b DEF Nest, new, back

\* What is left when one element is removed, ...
LEMMA RemovedIs ==
    ASSUME NEW S, NEW s \in Seq(S), NEW p \in 1..Len(s)
    PROVE  /\ RemoveAt(s, p) \in Seq(S) /\ Len(RemoveAt(s, p)) = Len(s) - 1
           /\ \A i \in 1..(Len(s) - 1) : RemoveAt(s, p)[i] = IF i < p THEN s[i] ELSE s[i + 1]
<1> DEFINE n == Len(s)
           a == SubSeq(s, 1, p - 1)
           b == SubSeq(s, p + 1, n)
           new == a \o b
<1>1. RemoveAt(s, p) = new
  BY DEF RemoveAt
<1>a. n \in Nat /\ p \in 1..n /\ DOMAIN s = 1..n /\ Len(s) = n /\ p \in Nat /\ p - 1 \in Nat /\ n - p \in Nat
  OBVIOUS
<1> HIDE DEF n
<1>2. a \in Seq(S) /\ Len(a) = p - 1 /\ \A i \in 1..(p - 1) : a[i] = s[i]
  BY <1>a
<1>3. b \in Seq(S) /\ Len(b) = n - p /\ \A i \in 1..(n - p) : b[i] = s[p + i]
  BY <1>a
<1> HIDE DEF a, b
<1>4. new \in Seq(S) /\ Len(new) = Len(a) + Len(b)
      /\ \A i \in 1..(Len(a) + Len(b)) : new[i] = IF i <= Len(a) THEN a[i] ELSE b[i - Len(a)]
  BY <1>2, <1>3, ConcatProperties
<1> HIDE DEF new
<1>5. Len(new) = n - 1 /\ \A i \in 1..(n - 1) : new[i] = IF i <= p - 1 THEN a[i] ELSE b[i - (p - 1)]
  <2>1. Len(a) + Len(b) = n - 1
    BY <1>2, <1>3, <1>a
  <2> QED  BY <1>2, <1>4, <2>1
<1>6. ASSUME NEW i \in 1..(n - 1) PROVE new[i] = IF i < p THEN s[i] ELSE s[i + 1]
  <2>1. CASE i < p
    <3>1. i <= p - 1 /\ i \in 1..(p - 1)
      BY <1>a, <2>1
    <3> QED  BY <1>2, <1>5, <2>1, <3>1
  <2>2. CASE ~ (i < p)
    <3>1. i - (p - 1) \in 1..(n - p) /\ p + (i - (p - 1)) = i + 1 /\ ~ (i <= p - 1)
      BY <1>a, <2>2
    <3> QED  BY <1>3, <1>5, <2>2, <3>1
  <2> QED  BY <2>1, <2>2
<1> QED  BY <1>1, <1>4, <1>5, <1>6 DEF n

\* ... and a release, which drops one savepoint, leaves the others nested.
LEMMA ReleaseNests ==
    ASSUME NEW ws, NEW sp, Nest(ws, sp), NEW p \in 1..Len(sp) PROVE Nest(ws, RemoveAt(sp, p))
<1> DEFINE n == Len(sp)
           new == RemoveAt(sp, p)
<1>1. /\ ws \in Seq(SpKey) /\ sp \in Seq(SavepointType) /\ n \in Nat /\ p \in 1..n /\ Len(sp) = n
      /\ \A i \in 1..n : /\ sp[i].snapshot \in Seq(SpKey) /\ Then(ws, sp, i) \in Seq(SpKey)
                         /\ IsPrefix(sp[i].snapshot, Then(ws, sp, i))
  BY NestTypes
<1>2. /\ new \in Seq(SavepointType) /\ Len(new) = n - 1
      /\ \A i \in 1..(n - 1) : new[i] = IF i < p THEN sp[i] ELSE sp[i + 1]
  BY <1>1, RemovedIs
<1> HIDE DEF n, new
<1>3. ASSUME NEW i \in 1..(n - 1) PROVE IsPrefix(new[i].snapshot, Then(ws, new, i))
  <2>1. i \in 1..n /\ i + 1 \in 1..n /\ i # n
    BY <1>1
  <2>2. CASE i < p /\ i + 1 # p
    <3>1. i # n - 1 /\ i + 1 < p /\ i + 1 \in 1..(n - 1)
      BY <1>1, <2>2
    <3>2. Then(ws, new, i) = Then(ws, sp, i) /\ new[i] = sp[i]
      BY <1>1, <1>2, <2>1, <2>2, <3>1 DEF Then
    <3> QED  BY <1>1, <2>1, <3>2
  <2>3. CASE i + 1 = p
    <3>1. new[i] = sp[i] /\ i < p
      BY <1>1, <1>2, <2>3
    <3>2. Then(ws, sp, i) = sp[p].snapshot
      BY <1>1, <2>1, <2>3 DEF Then
    <3>3. Then(ws, new, i) = Then(ws, sp, p)
      <4>1. CASE p = n
        <5>1. i = n - 1
          BY <1>1, <2>3, <4>1
        <5> QED  BY <1>1, <1>2, <4>1, <5>1 DEF Then
      <4>2. CASE p # n
        <5>1. p \in 1..(n - 1) /\ i # n - 1 /\ new[p] = sp[p + 1]
          BY <1>1, <1>2, <2>3, <4>2
        <5> QED  BY <1>1, <1>2, <2>3, <4>2, <5>1 DEF Then
      <4> QED  BY <4>1, <4>2
    <3> DEFINE a == sp[i].snapshot
               b == sp[p].snapshot
               c == Then(ws, sp, p)
    <3>4. a \in Seq(SpKey) /\ b \in Seq(SpKey) /\ c \in Seq(SpKey) /\ IsPrefix(a, b) /\ IsPrefix(b, c)
      BY <1>1, <2>1, <3>2
    <3> HIDE DEF a, b, c
    <3>5. IsPrefix(a, c)
      BY <3>4, PrefixOfPrefix
    <3> QED  BY <3>1, <3>3, <3>5 DEF a, c
  <2>4. CASE ~ (i < p)
    <3>1. new[i] = sp[i + 1]
      BY <1>2, <2>4
    <3>2. Then(ws, new, i) = Then(ws, sp, i + 1)
      <4>1. CASE i = n - 1
        <5>1. i + 1 = n
          BY <1>1, <4>1
        <5> QED  BY <1>1, <1>2, <4>1, <5>1 DEF Then
      <4>2. CASE i # n - 1
        <5>1. i + 1 \in 1..(n - 1) /\ ~ (i + 1 < p) /\ i + 1 # n
          BY <1>1, <2>4, <4>2
        <5>2. new[i + 1] = sp[(i + 1) + 1]
          BY <1>2, <5>1
        <5> QED  BY <1>1, <1>2, <4>2, <5>1, <5>2 DEF Then
      <4> QED  BY <4>1, <4>2
    <3> QED  BY <1>1, <2>1, <3>1, <3>2
  <2> QED  BY <1>1, <2>1, <2>2, <2>3, <2>4
<1> QED  BY <1>1, <1>2, <1>3 DEF Nest, new

SaveInv == Nest(write_set, savepoints)

\* At the start there is no savepoint.
LEMMA SaveBegins == SaveInit => SaveInv
<1> SUFFICES ASSUME SaveInit PROVE SaveInv
  OBVIOUS
<1>1. write_set = << >> /\ savepoints = << >> /\ Len(<< >>) = 0
  BY DEF SaveInit
<1>2. write_set \in Seq(SpKey) /\ savepoints \in Seq(SavepointType)
  BY <1>1
<1> QED  BY <1>1, <1>2 DEF SaveInv, Nest

\* Every step keeps the snapshots nested.
LEMMA SaveKeeps == SaveInv /\ [SaveNext]_save_vars => SaveInv'
<1> SUFFICES ASSUME SaveInv, [SaveNext]_save_vars PROVE SaveInv'
  OBVIOUS
<1>1. Nest(write_set, savepoints) /\ savepoints \in Seq(SavepointType)
  BY NestTypes DEF SaveInv
<1>2. ASSUME NEW k \in SpKey, SaveWrite(k) PROVE SaveInv'
  BY <1>1, <1>2, WriteNests, Zenon DEF SaveWrite, SaveInv
<1>3. ASSUME NEW name \in SpName, SavepointAt(name) PROVE SaveInv'
  BY <1>1, <1>3, SavepointNests, Zenon DEF SavepointAt, SaveInv
<1>4. ASSUME NEW name \in SpName, RollbackTo(name) PROVE SaveInv'
  <2>1. Position(name) \in 1..Len(savepoints)
    BY <1>1, <1>4, PositionIs DEF RollbackTo
  <2> QED  BY <1>1, <1>4, <2>1, RollbackNests, Zenon DEF RollbackTo, SaveInv
<1>5. ASSUME NEW name \in SpName, ReleaseSavepoint(name) PROVE SaveInv'
  <2>1. Position(name) \in 1..Len(savepoints)
    BY <1>1, <1>5, PositionIs DEF ReleaseSavepoint
  <2> QED  BY <1>1, <1>5, <2>1, ReleaseNests, Zenon DEF ReleaseSavepoint, SaveInv
<1>6. CASE UNCHANGED save_vars
  BY <1>6 DEF save_vars, SaveInv
<1> QED  BY <1>2, <1>3, <1>4, <1>5, <1>6 DEF SaveNext

\* Nested snapshots are prefixes of one another.
LEMMA SaveIsSafe == SaveInv => Nested
<1> SUFFICES ASSUME SaveInv PROVE Nested
  OBVIOUS
<1>1. Nest(write_set, savepoints) /\ DOMAIN savepoints = 1..Len(savepoints)
  BY NestTypes DEF SaveInv
<1>2. \A i \in 1..Len(savepoints) : IsPrefix(savepoints[i].snapshot, Then(write_set, savepoints, i))
  BY <1>1 DEF Nest
<1> QED  BY <1>1, <1>2, Zenon DEF Nested, Then

-----------------------------------------------------------------------------
(* The catalog. *)

\* The elements of a finite set of integers, numbered from below.
Rank(S, x) == Cardinality({y \in S : y <= x})

\* A rank is a place, and every place is the rank of one element.
LEMMA Ranks ==
    ASSUME NEW S \in SUBSET Int, IsFiniteSet(S)
    PROVE  /\ Cardinality(S) \in Nat
           /\ \A x \in S : Rank(S, x) \in 1..Cardinality(S)
           /\ \A k \in 1..Cardinality(S) : \E x \in S : Rank(S, x) = k
           /\ \A x, y \in S : Rank(S, x) = Rank(S, y) => x = y
<1> DEFINE n == Cardinality(S)
           Below(x) == {y \in S : y <= x}
           r == [x \in S |-> Cardinality(Below(x))]
<1>1. n \in Nat
  BY FS_CardinalityType
<1>2. \A x \in S : IsFiniteSet(Below(x)) /\ Cardinality(Below(x)) \in 1..n
  <2> SUFFICES ASSUME NEW x \in S
               PROVE  IsFiniteSet(Below(x)) /\ Cardinality(Below(x)) \in 1..n
    OBVIOUS
  <2>1. IsFiniteSet(Below(x)) /\ Cardinality(Below(x)) <= n
    <3>1. Below(x) \in SUBSET S
      OBVIOUS
    <3> HIDE DEF Below
    <3> QED  BY <3>1, FS_Subset
  <2>2. Cardinality(Below(x)) \in Nat
    <3> HIDE DEF Below
    <3> QED  BY <2>1, FS_CardinalityType
  <2>3. Cardinality(Below(x)) # 0
    <3>1. x \in Below(x)
      OBVIOUS
    <3> HIDE DEF Below
    <3> QED  BY <2>1, <3>1, FS_EmptySet
  <2> HIDE DEF Below
  <2> QED  BY <1>1, <2>1, <2>2, <2>3
<1>3. \A x, y \in S : x < y => r[x] < r[y]
  <2> SUFFICES ASSUME NEW x \in S, NEW y \in S, x < y
               PROVE  Cardinality(Below(x)) < Cardinality(Below(y))
    OBVIOUS
  <2>1. Below(x) \in SUBSET Below(y) /\ Below(x) # Below(y)
    <3>1. y \in Below(y) /\ y \notin Below(x)
      OBVIOUS
    <3>2. \A z \in Below(x) : z \in Below(y)
      OBVIOUS
    <3> HIDE DEF Below
    <3> QED  BY <3>1, <3>2
  <2> HIDE DEF Below
  <2>2. Cardinality(Below(x)) <= Cardinality(Below(y))
        /\ Cardinality(Below(x)) # Cardinality(Below(y))
    BY <1>2, <2>1, FS_Subset, Zenon
  <2> QED  BY <1>2, <2>2
<1>4. r \in Injection(S, 1..n)
  <2>1. r \in [S -> 1..n]
    <3> HIDE DEF Below
    <3> QED  BY <1>2
  <2>2. \A x, y \in S : x # y => r[x] # r[y]
    <3> SUFFICES ASSUME NEW x \in S, NEW y \in S, x # y PROVE r[x] # r[y]
      OBVIOUS
    <3>1. x \in Int /\ y \in Int /\ (x < y \/ y < x)
      OBVIOUS
    <3>2. r[x] \in 1..n /\ r[y] \in 1..n
      <4> HIDE DEF r, n
      <4> QED  BY <2>1
    <3> HIDE DEF r
    <3> QED  BY <1>3, <3>1, <3>2
  <2> HIDE DEF r
  <2> QED  BY <2>1, <2>2, Zenon DEF Injection, IsInjective
<1>5. r \in Surjection(S, 1..n)
  <2>1. IsFiniteSet(1..n) /\ Cardinality(1..n) = n
    BY <1>1, FS_Interval
  <2> HIDE DEF r
  <2> QED  BY <1>4, <2>1, FS_Injection
<1>6. \A k \in 1..n : \E x \in S : r[x] = k
  <2> HIDE DEF r
  <2> QED  BY <1>5 DEF Surjection
<1>7. \A x \in S : r[x] = Rank(S, x)
  BY DEF Rank
<1>8. \A x \in S : r[x] \in 1..n
  <2> HIDE DEF r
  <2> QED  BY <1>4 DEF Injection
<1>9. \A x, y \in S : r[x] = r[y] => x = y
  <2> HIDE DEF r
  <2> QED  BY <1>4 DEF Injection, IsInjective
<1> HIDE DEF r
<1> QED  BY <1>1, <1>6, <1>7, <1>8, <1>9

\* retain keeps the elements that are not dropped, and only them.
LEMMA Retained ==
    ASSUME NEW S, NEW list \in Seq(S), NEW dropped
    PROVE  /\ Retain(list, dropped) \in Seq(S)
           /\ \A x : (\E i \in 1..Len(Retain(list, dropped)) : Retain(list, dropped)[i] = x) <=>
                    (\E i \in 1..Len(list) : list[i] = x) /\ x \notin dropped
<1> DEFINE kept == {i \in DOMAIN list : list[i] \notin dropped}
           n == Cardinality(kept)
           at(k) == CHOOSE i \in kept : Rank(kept, i) = k
           q == [k \in 1..n |-> list[at(k)]]
<1>1. Retain(list, dropped) = q
  BY Zenon DEF Retain, Rank
<1>2. DOMAIN list = 1..Len(list) /\ Len(list) \in Nat /\ \A i \in 1..Len(list) : list[i] \in S
  OBVIOUS
<1>3. kept \in SUBSET Int /\ IsFiniteSet(kept)
  <2>1. kept \in SUBSET (1..Len(list))
    BY <1>2
  <2>2. IsFiniteSet(1..Len(list))
    BY <1>2, FS_Interval
  <2> HIDE DEF kept
  <2>3. \A i \in 1..Len(list) : i \in Int
    OBVIOUS
  <2> QED  BY <2>1, <2>2, <2>3, FS_Subset
<1>4. /\ n \in Nat /\ \A x \in kept : Rank(kept, x) \in 1..n
      /\ \A k \in 1..n : \E x \in kept : Rank(kept, x) = k
      /\ \A x, y \in kept : Rank(kept, x) = Rank(kept, y) => x = y
  <2> HIDE DEF kept
  <2> QED  BY <1>3, Ranks
<1> HIDE DEF n
<1>5. \A k \in 1..n : at(k) \in kept /\ Rank(kept, at(k)) = k
  <2> HIDE DEF kept
  <2> QED  BY <1>4
<1>6. \A x \in kept : \E k \in 1..n : at(k) = x
  <2> HIDE DEF kept, at
  <2> QED  BY <1>4, <1>5
<1> HIDE DEF at
<1>7. \A i : i \in kept <=> i \in 1..Len(list) /\ list[i] \notin dropped
  BY <1>2
<1> HIDE DEF kept
<1>8. q \in Seq(S) /\ Len(q) = n /\ \A k \in 1..n : q[k] = list[at(k)]
  BY <1>2, <1>4, <1>5, <1>7
<1> HIDE DEF q
<1>9. ASSUME NEW x
      PROVE  (\E k \in 1..n : q[k] = x) <=> (\E i \in 1..Len(list) : list[i] = x) /\ x \notin dropped
  <2>1. ASSUME NEW k \in 1..n, q[k] = x
        PROVE  (\E i \in 1..Len(list) : list[i] = x) /\ x \notin dropped
    <3>1. at(k) \in 1..Len(list) /\ list[at(k)] \notin dropped /\ list[at(k)] = x
      BY <1>5, <1>7, <1>8, <2>1
    <3> QED  BY <3>1
  <2>2. ASSUME NEW i \in 1..Len(list), list[i] = x, x \notin dropped
        PROVE  \E k \in 1..n : q[k] = x
    <3>1. PICK k \in 1..n : at(k) = i
      BY <1>6, <1>7, <2>2
    <3> QED  BY <1>8, <2>2, <3>1
  <2> QED  BY <2>1, <2>2
<1> QED  BY <1>1, <1>8, <1>9

IndexType == [name : IndexName, table : Table, column : Col]

CatalogInv == /\ indexes \in Seq(IndexType)
              /\ \A t \in DOMAIN tables : tables[t] \in Seq(Col)
              /\ \A i \in ToSet(indexes) \ loose : Anchored(tables, i)

\* The elements a list keeps.
LEMMA RetainedSet ==
    ASSUME NEW S, NEW list \in Seq(S), NEW dropped
    PROVE  Retain(list, dropped) \in Seq(S) /\ ToSet(Retain(list, dropped)) = ToSet(list) \ dropped
<1> DEFINE new == Retain(list, dropped)
<1>1. /\ new \in Seq(S)
      /\ \A x : (\E i \in 1..Len(new) : new[i] = x) <=> (\E i \in 1..Len(list) : list[i] = x) /\ x \notin dropped
  BY Retained
<1> HIDE DEF new
<1>2. \A x : x \in ToSet(new) <=> \E i \in 1..Len(new) : new[i] = x
  BY <1>1 DEF ToSet
<1>3. \A x : x \in ToSet(list) <=> \E i \in 1..Len(list) : list[i] = x
  BY DEF ToSet
<1>4. ToSet(new) = ToSet(list) \ dropped
  BY <1>1, <1>2, <1>3
<1> QED  BY <1>1, <1>4 DEF new

\* A list stays one of the same things when one of them is replaced.
LEMMA ReplacedIn ==
    ASSUME NEW S, NEW s \in Seq(S), NEW at, NEW d \in S PROVE [s EXCEPT ![at] = d] \in Seq(S)
<1> DEFINE n == Len(s)
           new == [s EXCEPT ![at] = d]
<1>1. n \in Nat /\ DOMAIN s = 1..n /\ \A i \in 1..n : s[i] \in S
  OBVIOUS
<1> HIDE DEF n
<1>2. DOMAIN new = 1..n /\ \A i \in 1..n : new[i] \in S
  BY <1>1
<1>3. new = [i \in 1..n |-> new[i]]
  BY <1>1
<1>4. new \in [1..n -> S]
  BY <1>2, <1>3, Zenon
<1> HIDE DEF new
<1>5. new \in Seq(S)
  BY <1>1, <1>4
<1> QED  BY <1>5 DEF new

\* At the start there is neither a table nor an index.
LEMMA CatalogBegins == CatalogInit => CatalogInv
<1> SUFFICES ASSUME CatalogInit PROVE CatalogInv
  OBVIOUS
<1>1. indexes = << >> /\ tables = << >> /\ DOMAIN << >> = {}
  BY DEF CatalogInit
<1>2. ToSet(indexes) = {}
  BY <1>1 DEF ToSet
<1> QED  BY <1>1, <1>2 DEF CatalogInv

\* Every operation keeps the indexes anchored, but for the loose ones.
LEMMA CatalogKeeps == CatalogInv /\ [CatalogNext]_catalog_vars => CatalogInv'
<1> SUFFICES ASSUME CatalogInv, [CatalogNext]_catalog_vars PROVE CatalogInv'
  OBVIOUS
<1>1. /\ indexes \in Seq(IndexType)
      /\ \A t \in DOMAIN tables : tables[t] \in Seq(Col)
      /\ \A i \in ToSet(indexes) \ loose : Anchored(tables, i)
      /\ \A i \in ToSet(indexes) : i \in IndexType
  BY DEF CatalogInv, ToSet
<1>2. ASSUME NEW t \in Table, NEW cols \in SeqOf(Col, MaxColumns), RegisterTable(t, cols) PROVE CatalogInv'
  <2>1. /\ tables' = [u \in DOMAIN tables \cup {t} |-> IF u = t THEN cols ELSE tables[u]]
        /\ loose' = loose \cup LooseIn(tables', indexes) /\ indexes' = indexes
    BY <1>2 DEF RegisterTable
  <2>2. cols \in Seq(Col)
    BY DEF SeqOf
  <2>3. \A u \in DOMAIN tables' : tables'[u] \in Seq(Col)
    BY <1>1, <2>1, <2>2
  <2>4. \A i \in ToSet(indexes) \ loose' : Anchored(tables', i)
    BY <2>1 DEF LooseIn
  <2> QED  BY <1>1, <2>1, <2>3, <2>4 DEF CatalogInv, Anchored
<1>3. ASSUME NEW t \in Table, DropTable(t) PROVE CatalogInv'
  <2> DEFINE gone == {i \in ToSet(indexes) : i.table = t}
  <2>1. /\ tables' = [u \in DOMAIN tables \ {t} |-> tables[u]]
        /\ indexes' = Retain(indexes, gone) /\ loose' = loose \cap ToSet(indexes')
    BY <1>3 DEF DropTable
  <2>2. indexes' \in Seq(IndexType) /\ ToSet(indexes') = ToSet(indexes) \ gone
    <3> HIDE DEF gone
    <3> QED  BY <1>1, <2>1, RetainedSet
  <2>3. ASSUME NEW i \in ToSet(indexes') \ loose' PROVE Anchored(tables', i)
    <3>1. i \in ToSet(indexes) \ loose /\ i.table # t
      BY <2>1, <2>2
    <3>2. Anchored(tables, i)
      BY <1>1, <3>1
    <3> QED  BY <2>1, <3>1, <3>2 DEF Anchored
  <2>4. \A u \in DOMAIN tables' : tables'[u] \in Seq(Col)
    BY <1>1, <2>1
  <2> QED  BY <2>2, <2>3, <2>4 DEF CatalogInv
<1>4. ASSUME NEW t \in Table, NEW c \in Col, AddColumn(t, c) PROVE CatalogInv'
  <2>1. /\ t \in DOMAIN tables /\ tables' = [tables EXCEPT ![t] = Append(@, c)]
        /\ indexes' = indexes /\ loose' = loose
    BY <1>4 DEF AddColumn
  <2> DEFINE new == Append(tables[t], c)
  <2>2. new \in Seq(Col) /\ Len(new) = Len(tables[t]) + 1 /\ Len(tables[t]) \in Nat
        /\ \A j \in 1..Len(tables[t]) : new[j] = tables[t][j]
    BY <1>1, <2>1
  <2>3. DOMAIN tables' = DOMAIN tables /\ tables'[t] = new /\ \A u \in DOMAIN tables \ {t} : tables'[u] = tables[u]
    BY <2>1
  <2> HIDE DEF new
  <2>4. ASSUME NEW i \in ToSet(indexes) \ loose PROVE Anchored(tables', i)
    <3>1. i.table \in DOMAIN tables /\ \E j \in 1..Len(tables[i.table]) : tables[i.table][j] = i.column
      BY <1>1 DEF Anchored, Contains
    <3>2. \E j \in 1..Len(tables'[i.table]) : tables'[i.table][j] = i.column
      <4>1. CASE i.table = t
        <5>1. PICK j \in 1..Len(tables[t]) : tables[t][j] = i.column
          BY <3>1, <4>1
        <5>2. j \in 1..Len(new) /\ new[j] = i.column
          BY <2>2, <5>1
        <5> QED  BY <2>3, <4>1, <5>2
      <4>2. CASE i.table # t
        BY <2>3, <3>1, <4>2
      <4> QED  BY <4>1, <4>2
    <3> QED  BY <2>3, <3>1, <3>2 DEF Anchored, Contains
  <2>5. \A u \in DOMAIN tables' : tables'[u] \in Seq(Col)
    BY <1>1, <2>2, <2>3
  <2> QED  BY <1>1, <2>1, <2>4, <2>5 DEF CatalogInv
<1>5. ASSUME NEW t \in Table, NEW c \in Col, DropColumn(t, c) PROVE CatalogInv'
  <2>1. /\ t \in DOMAIN tables /\ tables' = [tables EXCEPT ![t] = Retain(@, {c})]
        /\ loose' = loose \cup LooseIn(tables', indexes) /\ indexes' = indexes
    BY <1>5 DEF DropColumn
  <2>2. Retain(tables[t], {c}) \in Seq(Col)
    BY <1>1, <2>1, RetainedSet
  <2>3. \A u \in DOMAIN tables' : tables'[u] \in Seq(Col)
    BY <1>1, <2>1, <2>2
  <2>4. \A i \in ToSet(indexes) \ loose' : Anchored(tables', i)
    BY <2>1 DEF LooseIn
  <2> QED  BY <1>1, <2>1, <2>3, <2>4 DEF CatalogInv
<1>6. ASSUME NEW t \in Table, NEW c \in Col, NEW d \in Col, RenameColumn(t, c, d) PROVE CatalogInv'
  <2> DEFINE at == SelectInSeq(tables[t], LAMBDA e : e = c)
             new == [tables[t] EXCEPT ![at] = d]
  <2>1. /\ t \in DOMAIN tables /\ tables' = [tables EXCEPT ![t] = new]
        /\ loose' = loose \cup LooseIn(tables', indexes) /\ indexes' = indexes
    BY <1>6 DEF RenameColumn
  <2> HIDE DEF at
  <2>2. new \in Seq(Col)
    <3>1. tables[t] \in Seq(Col)
      BY <1>1, <2>1
    <3> QED  BY <3>1, ReplacedIn
  <2> HIDE DEF new
  <2>3. \A u \in DOMAIN tables' : tables'[u] \in Seq(Col)
    BY <1>1, <2>1, <2>2
  <2>4. \A i \in ToSet(indexes) \ loose' : Anchored(tables', i)
    BY <2>1 DEF LooseIn
  <2> QED  BY <1>1, <2>1, <2>3, <2>4 DEF CatalogInv
<1>7. ASSUME NEW n \in IndexName, NEW t \in Table, NEW c \in Col,
             RegisterIndex([name |-> n, table |-> t, column |-> c]) PROVE CatalogInv'
  <2> DEFINE more == [name |-> n, table |-> t, column |-> c]
  <2>1. indexes' = Append(indexes, more) /\ loose' = loose \cup LooseIn(tables, << more >>) /\ tables' = tables
    BY <1>7 DEF RegisterIndex
  <2>2. more \in IndexType
    BY DEF IndexType
  <2> HIDE DEF more
  <2>3. indexes' \in Seq(IndexType) /\ ToSet(indexes') = ToSet(indexes) \cup {more}
    BY <1>1, <2>1, <2>2 DEF ToSet
  <2>4. ToSet(<< more >>) = {more}
    BY DEF ToSet
  <2>5. ASSUME NEW i \in ToSet(indexes') \ loose' PROVE Anchored(tables, i)
    <3>1. CASE i \in ToSet(indexes)
      BY <1>1, <2>1, <3>1
    <3>2. CASE i = more
      BY <2>1, <2>4, <3>2 DEF LooseIn
    <3> QED  BY <2>3, <3>1, <3>2
  <2> QED  BY <1>1, <2>1, <2>3, <2>5 DEF CatalogInv
<1>8. ASSUME NEW n \in IndexName, DropIndex(n) PROVE CatalogInv'
  <2> DEFINE gone == {i \in ToSet(indexes) : i.name = n}
  <2>1. tables' = tables /\ indexes' = Retain(indexes, gone) /\ loose' = loose \cap ToSet(indexes')
    BY <1>8 DEF DropIndex
  <2> HIDE DEF gone
  <2>2. indexes' \in Seq(IndexType) /\ ToSet(indexes') = ToSet(indexes) \ gone
    BY <1>1, <2>1, RetainedSet
  <2> QED  BY <1>1, <2>1, <2>2 DEF CatalogInv
<1>9. CASE tables' = tables /\ indexes' = indexes /\ loose' = loose
  BY <1>9 DEF CatalogInv
<1> QED
  <2>1. CASE UNCHANGED catalog_vars
    BY <1>9, <2>1 DEF catalog_vars
  <2>2. CASE \E v \in ViewName : CreateView(v) \/ DropView(v) \/ CreateProcedure(v) \/ DropProcedure(v)
    BY <1>9, <2>2 DEF CreateView, DropView, CreateProcedure, DropProcedure
  <2> QED  BY <1>2, <1>3, <1>4, <1>5, <1>6, <1>7, <1>8, <2>1, <2>2, Zenon DEF CatalogNext

\* An index that is not loose is of a column its table has.
LEMMA CatalogIsSafe == CatalogInv => IndexesAnchored
<1> SUFFICES ASSUME CatalogInv PROVE IndexesAnchored
  OBVIOUS
<1>1. indexes \in Seq(IndexType) /\ \A i \in ToSet(indexes) \ loose : Anchored(tables, i)
  BY DEF CatalogInv
<1>2. ASSUME NEW t \in Table, t \notin DOMAIN tables PROVE ToSet(IndexesForTable(t)) \subseteq loose
  <2> DEFINE others == {i \in ToSet(indexes) : i.table # t}
  <2>1. IndexesForTable(t) = Retain(indexes, others)
    BY DEF IndexesForTable
  <2>2. ToSet(IndexesForTable(t)) = ToSet(indexes) \ others
    <3> HIDE DEF others
    <3> QED  BY <1>1, <2>1, RetainedSet
  <2>3. \A i \in ToSet(IndexesForTable(t)) : i \in ToSet(indexes) /\ i.table = t
    BY <2>2
  <2>4. \A i \in ToSet(IndexesForTable(t)) : ~ Anchored(tables, i)
    BY <1>2, <2>3 DEF Anchored
  <2> QED  BY <1>1, <2>3, <2>4
<1> QED  BY <1>1, <1>2 DEF IndexesAnchored

-----------------------------------------------------------------------------
(* What FlattenSeq makes of the runs of buffers of a list of files. *)

\* Two runs, one after the other.
Joined(a, b) == a \o b

\* The runs of buffers of the first i files, one after the other.
Runs(s, n, f) == f = [i \in 1..n |-> IF i = 1 THEN s[i] ELSE Joined(f[i - 1], s[i])]

Follows(s, f, i) == f[i] = IF i = 1 THEN s[i] ELSE Joined(f[i - 1], s[i])

\* The runs, one by one.
LEMMA RunsAre ==
    ASSUME NEW s, NEW n \in Nat, NEW f, Runs(s, n, f), NEW i \in 1..n
    PROVE  Follows(s, f, i)
<1> DEFINE h == [j \in 1..n |-> IF j = 1 THEN s[j] ELSE Joined(f[j - 1], s[j])]
<1>1. f = h
  BY Zenon DEF Runs
<1>2. h[i] = IF i = 1 THEN s[i] ELSE Joined(f[i - 1], s[i])
  OBVIOUS
<1> HIDE DEF h
<1> QED  BY <1>1, <1>2 DEF Follows

\* There are such runs for every list.
LEMMA RunsExist == ASSUME NEW s, NEW n \in Nat PROVE \E f : Runs(s, n, f)
<1> DEFINE T == {m \in Nat : ~ \E f : Runs(s, m, f)}
<1>1. SUFFICES ASSUME T # {} PROVE FALSE
  OBVIOUS
<1>2. PICK m \in T : \A y \in T : m <= y
  <2> HIDE DEF T
  <2>1. T \in SUBSET Nat
    BY DEF T
  <2> QED  BY <1>1, <2>1, LeastNat
<1>3. m # 0
  <2>1. SUFFICES ASSUME m = 0 PROVE \E f : Runs(s, 0, f)
    OBVIOUS
  <2>2. Runs(s, 0, << >>)
    BY DEF Runs
  <2> QED  BY <2>2
<1>4. m \in Nat /\ m - 1 \in Nat /\ m - 1 \notin T
  BY <1>2, <1>3
<1>5. PICK f : Runs(s, m - 1, f)
  BY <1>4
<1> DEFINE g == [i \in 1..m |-> IF i = 1 THEN s[i] ELSE IF i < m THEN f[i] ELSE Joined(f[m - 1], s[m])]
<1>a. \A i \in 1..(m - 1) : f[i] = IF i = 1 THEN s[i] ELSE Joined(f[i - 1], s[i])
  <2> SUFFICES ASSUME NEW i \in 1..(m - 1) PROVE f[i] = IF i = 1 THEN s[i] ELSE Joined(f[i - 1], s[i])
    OBVIOUS
  <2> DEFINE k == m - 1
  <2>1. k \in Nat /\ i \in 1..k /\ Runs(s, k, f)
    BY <1>4, <1>5
  <2> HIDE DEF k
  <2>2. Follows(s, f, i)
    BY <2>1, RunsAre, Zenon
  <2> QED  BY <2>2, Zenon DEF Follows
<1> HIDE DEF T
<1>6. ASSUME NEW i \in 1..m, i # 1, i < m PROVE f[i] = Joined(f[i - 1], s[i]) /\ i - 1 \in 1..m
  <2>1. i \in 1..(m - 1)
    BY <1>4, <1>6
  <2> QED  BY <1>4, <1>a, <1>6, <2>1
<1>7. \A i \in 1..m : i # 1 /\ i - 1 = 1 => f[i - 1] = s[i - 1]
  BY <1>4, <1>a
<1>8. ASSUME NEW i \in 1..m PROVE g[i] = IF i = 1 THEN s[i] ELSE Joined(g[i - 1], s[i])
  <2>1. CASE i = 1
    BY <2>1
  <2>2. CASE i # 1
    <3>1. i - 1 \in 1..m /\ i - 1 < m
      BY <1>4, <2>2
    <3>2. g[i - 1] = f[i - 1]
      <4>1. CASE i - 1 = 1
        BY <1>7, <2>2, <3>1, <4>1
      <4> QED  BY <3>1, <4>1
    <3>3. CASE i < m
      BY <1>6, <2>2, <3>2, <3>3
    <3>4. CASE i = m
      <4>1. g[i] = Joined(f[m - 1], s[m])
        BY <1>4, <2>2, <3>4
      <4> HIDE DEF g
      <4> QED  BY <2>2, <3>2, <3>4, <4>1
    <3> QED  BY <1>4, <3>3, <3>4
  <2> QED  BY <2>1, <2>2
<1>9. Runs(s, m, g)
  <2> DEFINE h == [i \in 1..m |-> IF i = 1 THEN s[i] ELSE Joined(g[i - 1], s[i])]
  <2>1. \A i \in 1..m : g[i] = h[i]
    BY <1>8
  <2>2. DOMAIN g = 1..m /\ DOMAIN h = 1..m /\ g = [i \in 1..m |-> g[i]] /\ h = [i \in 1..m |-> h[i]]
    OBVIOUS
  <2> HIDE DEF g, h
  <2>3. g = h
    BY <2>1, <2>2
  <2> QED  BY <2>3, Zenon DEF Runs, h
<1> QED  BY <1>2, <1>9, Zenon DEF T

\* ... which is what FlattenSeq computes.
Joins(s, n, f) == f[1] = s[1] /\ \A i \in 1..n : i # 1 => f[i] = Joined(f[i - 1], s[i])

\* The last of the runs is the whole.
LEMMA FlattenIs ==
    ASSUME NEW S, NEW s \in Seq(Seq(S)), Len(s) # 0
    PROVE  \E f : FlattenSeq(s) = f[Len(s)] /\ Joins(s, Len(s), f)
<1> DEFINE n == Len(s)
           f == CHOOSE f : Runs(s, n, f)
<1>1. n \in Nat /\ n # 0
  OBVIOUS
<1>2. Runs(s, n, f)
  BY <1>1, RunsExist, Zenon
<1>3. FlattenSeq(s) = f[n]
  BY Zenon DEF FlattenSeq, Runs, Joined
<1> HIDE DEF f, n
<1>a. \A i \in 1..n : f[i] = IF i = 1 THEN s[i] ELSE Joined(f[i - 1], s[i])
  <2> SUFFICES ASSUME NEW i \in 1..n PROVE f[i] = IF i = 1 THEN s[i] ELSE Joined(f[i - 1], s[i])
    OBVIOUS
  <2>1. Follows(s, f, i)
    BY <1>1, <1>2, RunsAre, Zenon
  <2> QED  BY <2>1, Zenon DEF Follows
<1>4. Joins(s, n, f)
  BY <1>1, <1>a DEF Joins
<1> QED  BY <1>3, <1>4, Zenon DEF n

JoinedOf(S, a, b) ==
    /\ Joined(a, b) \in Seq(S) /\ Len(Joined(a, b)) = Len(a) + Len(b)
    /\ \A i \in 1..Len(a) : Joined(a, b)[i] = a[i]
    /\ \A i \in 1..Len(b) : Joined(a, b)[Len(a) + i] = b[i]

\* Two runs joined, place by place.
LEMMA JoinedIs == ASSUME NEW S, NEW a \in Seq(S), NEW b \in Seq(S) PROVE JoinedOf(S, a, b)
<1> DEFINE c == a \o b
           m == Len(a)
           n == Len(b)
<1>1. /\ c \in Seq(S) /\ Len(c) = m + n
      /\ \A i \in 1..(m + n) : c[i] = IF i <= m THEN a[i] ELSE b[i - m]
  BY ConcatProperties
<1>2. m \in Nat /\ n \in Nat
  OBVIOUS
<1> HIDE DEF c, m, n
<1>3. \A i \in 1..m : c[i] = a[i]
  BY <1>1, <1>2
<1>4. \A i \in 1..n : c[m + i] = b[i]
  <2> SUFFICES ASSUME NEW i \in 1..n PROVE c[m + i] = b[i]
    OBVIOUS
  <2>1. m + i \in 1..(m + n) /\ ~ (m + i <= m) /\ (m + i) - m = i
    BY <1>2
  <2> QED  BY <1>1, <2>1
<1> QED  BY <1>1, <1>3, <1>4, Zenon DEF c, m, n, Joined, JoinedOf

\* To join what grew at its end is to grow the joined run.
LEMMA JoinedAppend ==
    ASSUME NEW S, NEW a \in Seq(S), NEW b \in Seq(S), NEW x \in S
    PROVE  Joined(a, Append(b, x)) = Append(Joined(a, b), x)
<1>1. << x >> \in Seq(S)
  OBVIOUS
<1>2. Append(b, x) = b \o << x >>
  BY AppendIsConcat
<1>3. a \o b \in Seq(S)
  BY ConcatProperties
<1>4. Append(a \o b, x) = (a \o b) \o << x >>
  BY <1>3, AppendIsConcat
<1>5. (a \o b) \o << x >> = a \o (b \o << x >>)
  BY <1>1, ConcatAssociative
<1> QED  BY <1>2, <1>4, <1>5 DEF Joined

\* Runs of elements of a set are of elements of the set.
LEMMA JoinsType ==
    ASSUME NEW S, NEW s \in Seq(Seq(S)), NEW f, Joins(s, Len(s), f)
    PROVE  \A k \in 1..Len(s) : f[k] \in Seq(S)
<1> DEFINE n == Len(s)
           T == {k \in 1..n : f[k] \notin Seq(S)}
<1>1. SUFFICES ASSUME T # {} PROVE FALSE
  OBVIOUS
<1>2. n \in Nat /\ T \in SUBSET Nat /\ \A i \in 1..n : s[i] \in Seq(S)
  OBVIOUS
<1>3. f[1] = s[1] /\ \A i \in 1..n : i # 1 => f[i] = Joined(f[i - 1], s[i])
  BY DEF Joins
<1>a. \A k : k \in T <=> k \in 1..n /\ f[k] \notin Seq(S)
  OBVIOUS
<1> HIDE DEF T, n
<1>4. PICK k \in T : \A y \in T : k <= y
  BY <1>1, <1>2, LeastNat
<1>5. k \in 1..n /\ k # 1
  BY <1>2, <1>3, <1>4, <1>a
<1>6. k - 1 \in 1..n /\ k - 1 \notin T
  BY <1>2, <1>4, <1>5
<1>7. Joined(f[k - 1], s[k]) \in Seq(S)
  <2>1. f[k - 1] \in Seq(S) /\ s[k] \in Seq(S)
    BY <1>2, <1>5, <1>6, <1>a
  <2> QED  BY <2>1, JoinedIs, Zenon DEF JoinedOf
<1> QED  BY <1>3, <1>4, <1>5, <1>7, <1>a

\* Nothing but empty runs is nothing.
LEMMA FlattenEmpty ==
    ASSUME NEW S, NEW s \in Seq(Seq(S)), \A i \in 1..Len(s) : s[i] = << >>
    PROVE  FlattenSeq(s) = << >>
<1> DEFINE n == Len(s)
<1>1. CASE n = 0
  BY <1>1 DEF FlattenSeq
<1>2. CASE n # 0
  <2>1. PICK f : FlattenSeq(s) = f[n] /\ Joins(s, n, f)
    BY <1>2, FlattenIs
  <2> DEFINE T == {k \in 1..n : f[k] # << >>}
  <2>b. n \in 1..n
    BY <1>2
  <2>2. SUFFICES ASSUME T # {} PROVE FALSE
    BY <2>1, <2>b
  <2>3. n \in Nat /\ T \in SUBSET Nat /\ \A i \in 1..n : s[i] = << >>
    OBVIOUS
  <2>4. f[1] = s[1] /\ \A i \in 1..n : i # 1 => f[i] = Joined(f[i - 1], s[i])
    BY <2>1 DEF Joins
  <2>5. Joined(<< >>, << >>) = << >>
    BY DEF Joined
  <2>a. \A k : k \in T <=> k \in 1..n /\ f[k] # << >>
    OBVIOUS
  <2> HIDE DEF T, n
  <2>6. PICK k \in T : \A y \in T : k <= y
    BY <2>2, <2>3, LeastNat
  <2>7. k \in 1..n /\ k # 1
    BY <2>3, <2>4, <2>6, <2>a
  <2>8. k - 1 \in 1..n /\ k - 1 \notin T
    BY <2>3, <2>6, <2>7
  <2> QED  BY <2>3, <2>4, <2>5, <2>6, <2>7, <2>8, <2>a
<1> QED  BY <1>1, <1>2

\* A run that grows while those after it are empty makes the whole grow.
Grows(s, t, k, x) == /\ \A i \in 1..Len(s) : i # k => t[i] = s[i]
                     /\ \A i \in 1..Len(s) : i > k => s[i] = << >>
                     /\ t[k] = Append(s[k], x)

\* ... by the same buffer.
LEMMA FlattenGrows ==
    ASSUME NEW S, NEW s \in Seq(Seq(S)), NEW t \in Seq(Seq(S)), Len(t) = Len(s),
           NEW k \in 1..Len(s), NEW x \in S, Grows(s, t, k, x)
    PROVE  FlattenSeq(t) = Append(FlattenSeq(s), x)
<1> DEFINE n == Len(s)
<1>1. n \in Nat /\ n # 0 /\ Len(t) = n /\ k \in 1..n /\ k \in Nat /\ Len(s) = n
      /\ \A i \in 1..n : s[i] \in Seq(S) /\ t[i] \in Seq(S)
  <2>1. \A i \in 1..Len(t) : t[i] \in Seq(S)
    OBVIOUS
  <2>2. \A i \in 1..Len(s) : s[i] \in Seq(S)
    OBVIOUS
  <2>3. Len(s) \in Nat /\ k \in Nat /\ Len(s) # 0
    OBVIOUS
  <2> QED  BY <2>1, <2>2, <2>3
<1>2. /\ \A i \in 1..n : i # k => t[i] = s[i]
      /\ \A i \in 1..n : i > k => s[i] = << >>
      /\ t[k] = Append(s[k], x)
  BY DEF Grows
<1> HIDE DEF n
<1>3. PICK f : FlattenSeq(s) = f[n] /\ Joins(s, n, f)
  BY <1>1, FlattenIs
<1>4. PICK g : FlattenSeq(t) = g[n] /\ Joins(t, n, g)
  BY <1>1, FlattenIs
<1>5. f[1] = s[1] /\ \A i \in 1..n : i # 1 => f[i] = Joined(f[i - 1], s[i])
  BY <1>3 DEF Joins
<1>6. g[1] = t[1] /\ \A i \in 1..n : i # 1 => g[i] = Joined(g[i - 1], t[i])
  BY <1>4 DEF Joins
<1>7. \A i \in 1..n : f[i] \in Seq(S)
  BY <1>1, <1>3, JoinsType
<1>8. ASSUME NEW a \in Seq(S), NEW b \in Seq(S)
      PROVE  Joined(a, Append(b, x)) = Append(Joined(a, b), x)
  BY <1>8, JoinedAppend
<1>9. ASSUME NEW a \in Seq(S) PROVE Joined(a, << >>) = a
  BY <1>9, ConcatEmptySeq DEF Joined
<1> DEFINE T == {i \in 1..n : g[i] # IF i < k THEN f[i] ELSE Append(f[i], x)}
<1>10. T = {}
  <2>1. SUFFICES ASSUME T # {} PROVE FALSE
    OBVIOUS
  <2>2. T \in SUBSET Nat /\ \A i : i \in T <=> i \in 1..n /\ g[i] # IF i < k THEN f[i] ELSE Append(f[i], x)
    OBVIOUS
  <2> HIDE DEF T
  <2>3. PICK j \in T : \A y \in T : j <= y
    BY <2>1, <2>2, LeastNat
  <2>4. j \in 1..n /\ g[j] # IF j < k THEN f[j] ELSE Append(f[j], x)
    BY <2>2, <2>3
  <2>5. CASE j = 1
    <3>1. CASE k = 1
      BY <1>1, <1>2, <1>5, <1>6, <2>4, <2>5, <3>1
    <3>2. CASE k # 1
      BY <1>1, <1>2, <1>5, <1>6, <2>4, <2>5, <3>2
    <3> QED  BY <3>1, <3>2
  <2>6. CASE j # 1
    <3> DEFINE i == j - 1
    <3>1. i \in 1..n /\ i < j /\ i \notin T
      BY <1>1, <2>2, <2>3, <2>4, <2>6
    <3>2. g[i] = IF i < k THEN f[i] ELSE Append(f[i], x)
      BY <2>2, <3>1
    <3>3. f[j] = Joined(f[i], s[j]) /\ g[j] = Joined(g[i], t[j])
      BY <1>5, <1>6, <2>4, <2>6
    <3>a. j = i + 1 /\ i \in Nat /\ f[i] \in Seq(S) /\ f[j] \in Seq(S)
      BY <1>1, <1>7, <2>4, <3>1
    <3> HIDE DEF i
    <3>4. CASE j < k
      <4>1. i < k /\ j # k
        BY <1>1, <3>a, <3>4
      <4> QED  BY <1>2, <2>4, <3>2, <3>3, <3>4, <4>1
    <3>5. CASE j = k
      <4>1. i < k
        BY <1>1, <3>a, <3>5
      <4>2. g[j] = Joined(f[i], Append(s[j], x))
        BY <1>2, <3>2, <3>3, <3>5, <4>1
      <4>3. g[j] = Append(Joined(f[i], s[j]), x)
        BY <1>1, <1>8, <2>4, <3>a, <4>2
      <4>4. ~ (j < k)
        BY <1>1, <3>5
      <4> QED  BY <2>4, <3>3, <4>3, <4>4, Zenon
    <3>6. CASE j > k
      <4>1. ~ (i < k) /\ j # k /\ ~ (j < k)
        BY <1>1, <3>a, <3>6
      <4>2. s[j] = << >> /\ t[j] = << >>
        BY <1>2, <2>4, <3>6, <4>1
      <4>3. f[j] = f[i]
        BY <1>9, <3>3, <3>a, <4>2
      <4>4. Append(f[i], x) \in Seq(S)
        BY <3>a
      <4>5. g[j] = Append(f[i], x)
        BY <1>9, <3>2, <3>3, <4>1, <4>2, <4>4
      <4> QED  BY <2>4, <4>1, <4>3, <4>5
    <3> QED  BY <1>1, <2>4, <3>4, <3>5, <3>6
  <2> QED  BY <2>5, <2>6
<1>11. n \in 1..n /\ ~ (n < k)
  BY <1>1
<1>12. g[n] = Append(f[n], x)
  BY <1>10, <1>11
<1> QED  BY <1>3, <1>4, <1>12

\* Every buffer of a run is somewhere in the whole.
Has(c, b) == \E p \in 1..Len(c) : c[p] = b

\* A buffer of a run is in the whole.
LEMMA FlattenHas ==
    ASSUME NEW S, NEW s \in Seq(Seq(S)), NEW i \in 1..Len(s), NEW j \in 1..Len(s[i])
    PROVE  Has(FlattenSeq(s), s[i][j])
<1> DEFINE n == Len(s)
           b == s[i][j]
<1>1. n \in Nat /\ n # 0 /\ i \in 1..n /\ i \in Nat /\ \A k \in 1..n : s[k] \in Seq(S)
  OBVIOUS
<1>2. j \in 1..Len(s[i]) /\ s[i][j] = b
  OBVIOUS
<1> HIDE DEF n, b
<1>3. PICK f : FlattenSeq(s) = f[n] /\ Joins(s, n, f)
  BY <1>1, FlattenIs DEF n
<1>4. f[1] = s[1] /\ \A k \in 1..n : k # 1 => f[k] = Joined(f[k - 1], s[k])
  BY <1>3 DEF Joins
<1>5. \A k \in 1..n : f[k] \in Seq(S)
  BY <1>3, JoinsType DEF n
<1> DEFINE T == {k \in i..n : ~ Has(f[k], b)}
<1>6. SUFFICES ASSUME T # {} PROVE FALSE
  <2>1. n \in i..n
    BY <1>1
  <2> QED  BY <1>3, <2>1 DEF b
<1>7. T \in SUBSET Nat /\ \A k : k \in T <=> k \in i..n /\ ~ Has(f[k], b)
  BY <1>1
<1> HIDE DEF T
<1>8. PICK k \in T : \A y \in T : k <= y
  BY <1>6, <1>7, LeastNat
<1>9. k \in i..n /\ k \in 1..n /\ ~ Has(f[k], b)
  BY <1>1, <1>7, <1>8
<1>10. CASE k = 1
  <2>1. i = 1 /\ f[k] = s[i]
    BY <1>1, <1>4, <1>9, <1>10
  <2> QED  BY <1>2, <1>9, <2>1 DEF Has
<1>11. CASE k # 1
  <2> DEFINE a == f[k - 1]
             c == s[k]
  <2>1. k - 1 \in 1..n /\ f[k] = Joined(a, c)
    BY <1>1, <1>4, <1>9, <1>11
  <2>2. a \in Seq(S) /\ c \in Seq(S) /\ Len(a) \in Nat /\ Len(c) \in Nat
    <3>1. a \in Seq(S) /\ c \in Seq(S)
      BY <1>1, <1>5, <1>9, <2>1
    <3> HIDE DEF a, c
    <3> QED  BY <3>1
  <2>c. JoinedOf(S, a, c)
    BY <2>2, JoinedIs, Zenon
  <2>3. CASE i = k
    <3>1. j \in 1..Len(c) /\ c[j] = b
      BY <1>2, <2>3
    <3> HIDE DEF a, c
    <3>2. Joined(a, c)[Len(a) + j] = b /\ Len(Joined(a, c)) = Len(a) + Len(c)
      BY <2>c, <3>1 DEF JoinedOf
    <3>3. Len(a) + j \in 1..Len(Joined(a, c))
      BY <2>2, <3>1, <3>2
    <3> QED  BY <1>9, <2>1, <3>2, <3>3 DEF Has
  <2>4. CASE i # k
    <3>1. k - 1 \in i..n /\ k - 1 \notin T
      BY <1>1, <1>7, <1>8, <1>9, <2>4
    <3>2. Has(a, b)
      BY <1>7, <3>1
    <3> HIDE DEF a, c
    <3>3. PICK p \in 1..Len(a) : a[p] = b
      BY <3>2 DEF Has
    <3>4. Joined(a, c)[p] = b /\ Len(Joined(a, c)) = Len(a) + Len(c)
      BY <2>c, <3>3 DEF JoinedOf
    <3>5. p \in 1..Len(Joined(a, c))
      BY <2>2, <3>3, <3>4
    <3> QED  BY <1>9, <2>1, <3>4, <3>5 DEF Has
  <2> QED  BY <2>3, <2>4
<1> QED  BY <1>10, <1>11

\* ... and what is in the whole is in a run.
LEMMA FlattenFrom ==
    ASSUME NEW S, NEW s \in Seq(Seq(S)), Len(s) # 0, NEW b, Has(FlattenSeq(s), b)
    PROVE  \E i \in 1..Len(s) : Has(s[i], b)
<1> DEFINE n == Len(s)
<1>1. n \in Nat /\ n # 0 /\ \A k \in 1..n : s[k] \in Seq(S)
  OBVIOUS
<1>2. SUFFICES ASSUME \A i \in 1..n : ~ Has(s[i], b) PROVE FALSE
  OBVIOUS
<1> HIDE DEF n
<1>3. PICK f : FlattenSeq(s) = f[n] /\ Joins(s, n, f)
  BY <1>1, FlattenIs DEF n
<1>4. f[1] = s[1] /\ \A k \in 1..n : k # 1 => f[k] = Joined(f[k - 1], s[k])
  BY <1>3 DEF Joins
<1>5. \A k \in 1..n : f[k] \in Seq(S)
  BY <1>3, JoinsType DEF n
<1> DEFINE T == {k \in 1..n : Has(f[k], b)}
<1>6. n \in T
  BY <1>1, <1>3
<1>7. T \in SUBSET Nat /\ \A k : k \in T <=> k \in 1..n /\ Has(f[k], b)
  BY <1>1
<1> HIDE DEF T
<1>8. PICK k \in T : \A y \in T : k <= y
  BY <1>6, <1>7, LeastNat
<1>9. k \in 1..n /\ Has(f[k], b)
  BY <1>7, <1>8
<1>10. k # 1
  BY <1>1, <1>2, <1>4, <1>9
<1> DEFINE a == f[k - 1]
           c == s[k]
<1>11. k - 1 \in 1..n /\ k - 1 \notin T /\ f[k] = Joined(a, c)
  BY <1>1, <1>4, <1>7, <1>8, <1>9, <1>10
<1>12. ~ Has(a, b) /\ ~ Has(c, b)
  BY <1>2, <1>7, <1>9, <1>11
<1>13. a \in Seq(S) /\ c \in Seq(S)
  BY <1>1, <1>5, <1>9, <1>11
<1> HIDE DEF a, c
<1>14. JoinedOf(S, a, c) /\ Len(a) \in Nat /\ Len(c) \in Nat
  BY <1>13, JoinedIs, Zenon, LenProperties
<1>15. PICK p \in 1..Len(Joined(a, c)) : Joined(a, c)[p] = b
  BY <1>9, <1>11 DEF Has
<1>16. p \in 1..(Len(a) + Len(c))
  BY <1>14, <1>15 DEF JoinedOf
<1>17. CASE p \in 1..Len(a)
  BY <1>12, <1>14, <1>15, <1>17 DEF JoinedOf, Has
<1>18. CASE p \notin 1..Len(a)
  <2>1. PICK i \in 1..Len(c) : p = Len(a) + i
    <3>1. p - Len(a) \in 1..Len(c) /\ p = Len(a) + (p - Len(a))
      BY <1>14, <1>16, <1>18
    <3> QED  BY <3>1
  <2>2. c[i] = b
    BY <1>14, <1>15, <2>1 DEF JoinedOf
  <2> QED  BY <1>12, <2>2 DEF Has
<1> QED  BY <1>17, <1>18

\* The buffers of some files, as places.
Cells(F, d) == UNION {{f} \X (1..Len(d[f])) : f \in F}

CellsAre(F, d, k) == IsFiniteSet(Cells(F, d)) /\ Cardinality(Cells(F, d)) = k

\* One file more counts as many places as it has buffers.
LEMMA CellsOfOne ==
    ASSUME NEW F, NEW d, NEW f, f \notin F, Len(d[f]) \in Nat, IsFiniteSet(Cells(F, d))
    PROVE  CellsAre(F \cup {f}, d, Cardinality(Cells(F, d)) + Len(d[f]))
<1> DEFINE C == Cells(F, d)
           m == Len(d[f])
           N == {f} \X (1..m)
<1>1. Cells(F \cup {f}, d) = C \cup N
  BY DEF Cells
<1>2. C \cap N = {}
  <2> SUFFICES ASSUME NEW x \in C, x \in N PROVE FALSE
    OBVIOUS
  <2>1. x[1] = f
    OBVIOUS
  <2>2. PICK g \in F : x \in {g} \X (1..Len(d[g]))
    BY DEF Cells
  <2>3. x[1] = g
    BY <2>2
  <2> QED  BY <2>1, <2>2, <2>3
<1>3. IsFiniteSet({f}) /\ Cardinality({f}) = 1
  BY FS_Singleton
<1>a. m \in Nat
  OBVIOUS
<1> HIDE DEF m, C
<1>4. IsFiniteSet(1..m) /\ Cardinality(1..m) = m
  BY <1>a, FS_Interval
<1>5. IsFiniteSet(N) /\ Cardinality(N) = m
  <2>1. IsFiniteSet(N) /\ Cardinality(N) = Cardinality({f}) * Cardinality(1..m)
    BY <1>3, <1>4, FS_Product, Zenon
  <2>2. Cardinality(N) = 1 * m
    BY <1>3, <1>4, <2>1
  <2> HIDE DEF N
  <2> QED  BY <1>a, <2>1, <2>2
<1> HIDE DEF N
<1>6. IsFiniteSet(C)
  BY DEF C
<1>7. IsFiniteSet(C \cup N) /\ Cardinality(C \cup N) = Cardinality(C) + Cardinality(N) - Cardinality(C \cap N)
  BY <1>5, <1>6, FS_Union
<1>8. Cardinality(C \cap N) = 0 /\ Cardinality(C) \in Nat
  BY <1>2, <1>6, FS_EmptySet, FS_CardinalityType
<1>9. Cardinality(C \cup N) = Cardinality(C) + m
  BY <1>a, <1>5, <1>7, <1>8
<1> QED  BY <1>1, <1>7, <1>9, Zenon DEF C, m, CellsAre

\* No file has no place.
LEMMA CellsOfNone == ASSUME NEW d PROVE IsFiniteSet(Cells({}, d)) /\ Cardinality(Cells({}, d)) = 0
<1>1. Cells({}, d) = {}
  BY DEF Cells
<1> QED  BY <1>1, FS_EmptySet

\* The whole is as long as the files together.
First(order, k) == {order[i] : i \in 1..k}

Counted(c, F, d) == IsFiniteSet(Cells(F, d)) /\ Len(c) = Cardinality(Cells(F, d))

\* The whole of the first files is as long as they are together.
LEMMA FlattenCounts ==
    ASSUME NEW S, NEW s \in Seq(Seq(S)), Len(s) # 0, NEW order,
           \A i, j \in 1..Len(s) : order[i] = order[j] => i = j,
           NEW d, \A i \in 1..Len(s) : s[i] = d[order[i]]
    PROVE  Counted(FlattenSeq(s), First(order, Len(s)), d)
<1> DEFINE n == Len(s)
           C(k) == Cells(First(order, k), d)
<1>1. n \in Nat /\ n # 0 /\ \A k \in 1..n : s[k] \in Seq(S) /\ d[order[k]] = s[k]
  OBVIOUS
<1>2. \A i, j \in 1..n : order[i] = order[j] => i = j
  OBVIOUS
<1> HIDE DEF n
<1>3. PICK f : FlattenSeq(s) = f[n] /\ Joins(s, n, f)
  BY <1>1, FlattenIs DEF n
<1>4. f[1] = s[1] /\ \A k \in 1..n : k # 1 => f[k] = Joined(f[k - 1], s[k])
  BY <1>3 DEF Joins
<1>5. \A k \in 1..n : f[k] \in Seq(S)
  BY <1>3, JoinsType DEF n
<1> DEFINE T == {k \in 1..n : ~ (IsFiniteSet(C(k)) /\ Cardinality(C(k)) = Len(f[k]))}
<1>6. SUFFICES ASSUME T # {} PROVE FALSE
  <2>1. n \in 1..n
    BY <1>1
  <2> QED  BY <1>3, <2>1 DEF n, Counted
<1>7. T \in SUBSET Nat /\ \A k : k \in T <=> k \in 1..n /\ ~ (IsFiniteSet(C(k)) /\ Cardinality(C(k)) = Len(f[k]))
  BY <1>1
<1> HIDE DEF T
<1>8. PICK k \in T : \A y \in T : k <= y
  BY <1>6, <1>7, LeastNat
<1>9. k \in 1..n
  BY <1>7, <1>8
<1>10. ASSUME NEW F, First(order, k) = F \cup {order[k]}, order[k] \notin F, IsFiniteSet(Cells(F, d))
       PROVE  IsFiniteSet(C(k)) /\ Cardinality(C(k)) = Cardinality(Cells(F, d)) + Len(s[k])
  <2> DEFINE g == order[k]
  <2>1. d[g] = s[k] /\ Len(d[g]) \in Nat
    BY <1>1, <1>9
  <2>2. First(order, k) = F \cup {g} /\ g \notin F
    BY <1>10
  <2> HIDE DEF g
  <2>3. CellsAre(F \cup {g}, d, Cardinality(Cells(F, d)) + Len(d[g]))
    BY <1>10, <2>1, <2>2, CellsOfOne, Zenon
  <2> QED  BY <2>1, <2>2, <2>3, Zenon DEF CellsAre
<1>11. CASE k = 1
  <2>1. First(order, k) = {} \cup {order[k]}
    BY <1>11 DEF First
  <2>2. Len(s[k]) \in Nat
    BY <1>1, <1>9
  <2>3. IsFiniteSet(C(k)) /\ Cardinality(C(k)) = 0 + Len(s[k])
    <3>1. IsFiniteSet(Cells({}, d)) /\ Cardinality(Cells({}, d)) = 0
      BY CellsOfNone
    <3> QED  BY <1>10, <2>1, <3>1
  <2> HIDE DEF C
  <2> QED  BY <1>4, <1>7, <1>8, <1>11, <2>2, <2>3 DEF C
<1>12. CASE k # 1
  <2> DEFINE h == k - 1
  <2>1. h \in 1..n /\ h \notin T /\ f[k] = Joined(f[h], s[k])
    <3>1. k \in Nat /\ h \in 1..n /\ ~ (k <= h)
      BY <1>1, <1>9, <1>12
    <3>2. h \notin T
      BY <1>8, <3>1
    <3> QED  BY <1>4, <1>9, <1>12, <3>1, <3>2
  <2>2. \A i : i \in 1..k <=> i \in 1..h \/ i = k
    BY <1>9
  <2>3. k \notin 1..h /\ 1..h \in SUBSET (1..n)
    BY <1>1, <1>9
  <2> HIDE DEF h
  <2>4. First(order, k) = First(order, h) \cup {order[k]} /\ order[k] \notin First(order, h)
    <3>1. \A i \in 1..h : order[i] # order[k]
      BY <1>2, <1>9, <2>3
    <3>2. order[k] \notin First(order, h)
      BY <3>1 DEF First
    <3>3. First(order, k) = First(order, h) \cup {order[k]}
      <4>1. ASSUME NEW x \in First(order, k) PROVE x \in First(order, h) \cup {order[k]}
        <5>1. PICK i \in 1..k : x = order[i]
          BY DEF First
        <5>2. CASE i \in 1..h
          BY <5>1, <5>2, Zenon DEF First
        <5> QED  BY <2>2, <5>1, <5>2
      <4>2. ASSUME NEW i \in 1..h PROVE order[i] \in First(order, k)
        BY <2>2, Zenon DEF First
      <4>3. order[k] \in First(order, k)
        BY <2>2, Zenon DEF First
      <4>4. \A x \in First(order, h) : x \in First(order, k)
        BY <4>2 DEF First
      <4> QED  BY <4>1, <4>3, <4>4
    <3> QED  BY <3>2, <3>3
  <2>5. IsFiniteSet(C(h)) /\ Cardinality(C(h)) = Len(f[h])
    BY <1>7, <2>1
  <2>6. Len(Joined(f[h], s[k])) = Len(f[h]) + Len(s[k])
    <3>1. f[h] \in Seq(S) /\ s[k] \in Seq(S)
      BY <1>1, <1>5, <1>9, <2>1
    <3>2. JoinedOf(S, f[h], s[k])
      BY <3>1, JoinedIs, Zenon
    <3> QED  BY <3>2, Zenon DEF JoinedOf
  <2>7. IsFiniteSet(C(k)) /\ Cardinality(C(k)) = Cardinality(C(h)) + Len(s[k])
    BY <1>10, <2>4, <2>5
  <2> HIDE DEF C
  <2> QED  BY <1>7, <1>8, <2>1, <2>5, <2>6, <2>7 DEF C
<1> QED  BY <1>11, <1>12

-----------------------------------------------------------------------------
(* The hot backup. *)

Parts(order, d) == [i \in DOMAIN order |-> IF order[i] \in DOMAIN d THEN d[order[i]] ELSE << >>]
FileCount == Cardinality(File)

\* The files before the k-th of the listing are copied, the k-th is at work, and
\* the checksum is that of what is copied.  As long as nothing is written, it is
\* all as it is in the database.
CopyingAt(order, k, td, ds, cs, ms) ==
    /\ Len(td) = FileCount + 1 - k /\ \A j \in 1..Len(td) : td[j] = order[k - 1 + j]
    /\ DOMAIN ds = {order[i] : i \in {i \in 1..FileCount : i <= k}}
    /\ cs = FlattenSeq(Parts(order, ds))
    /\ \A m \in ms : ms = {m} =>
          /\ \A i \in 1..(k - 1) : ds[order[i]] = m[order[i]]
          /\ k <= FileCount => /\ Len(ds[order[k]]) <= Len(m[order[k]])
                               /\ \A j \in 1..Len(ds[order[k]]) : ds[order[k]][j] = m[order[k]][j]

FromMoments(ds, ms) == \A f \in DOMAIN ds : \A i \in DOMAIN ds[f] : \E m \in ms : i \in DOMAIN m[f] /\ m[f][i] = ds[f][i]

\* A damaged copy holds a buffer no file ever had, or is shorter than what the
\* checksum was made of.
Differs(ds, cs) == \/ \E f \in File : \E i \in 1..Len(ds[f]) : ds[f][i] = MaxVersions + 1
                   \/ Cardinality(Cells(File, ds)) < Len(cs)

Bytes == 0..(MaxVersions + 1)

CopyInv ==
    /\ version \in 0..MaxVersions /\ db \in [File -> Seq(0..version)]
    /\ moments \in SUBSET [File -> Seq(0..MaxVersions)] /\ IsFiniteSet(moments)
    /\ checksum \in Seq(0..MaxVersions) /\ todo \in Seq(File)
    /\ DOMAIN dest \in SUBSET File /\ dest \in [DOMAIN dest -> Seq(Bytes)]
    /\ phase \in {"idle", "copying", "done", "failed"} /\ damaged \in BOOLEAN
    /\ phase = "idle" => checksum = << >> /\ dest = << >>
    /\ damaged => phase = "done"
    /\ phase = "done" => meta = << checksum >>
    /\ phase = "copying" => /\ db \in moments
                            /\ \E order \in Listings, k \in 1..(FileCount + 1) : CopyingAt(order, k, todo, dest, checksum, moments)
    /\ phase = "done" /\ ~damaged => \E order \in Listings : CopyingAt(order, FileCount + 1, todo, dest, checksum, moments)
    /\ ~damaged => FromMoments(dest, moments)
    /\ damaged => DOMAIN dest = File /\ Differs(dest, checksum)

\* A buffer is one of the two a file began with, or the file and the place its
\* content was written to are those where it is, or it is damaged.
PlacedAt(v, f, i, ps) == \/ v = 0 /\ i <= 2
                         \/ v \in 1..Len(ps) /\ ps[v] = << f, i >>
                         \/ v = MaxVersions + 1

Placed(d, ps) == \A f \in DOMAIN d : \A i \in 1..Len(d[f]) : PlacedAt(d[f][i], f, i, ps)

\* What the metadata was made of, when there is any.
CompleteIs == /\ complete \in [File -> Seq(Bytes)] /\ Placed(complete, places)
              /\ \A f \in File : Len(complete[f]) >= 2
              /\ \E order \in Listings, c \in Seq(0..MaxVersions) :
                    meta = << c >> /\ c = FlattenSeq(Parts(order, complete))

EarlierInv ==
    /\ DOMAIN former \in SUBSET File /\ former \in [DOMAIN former -> Seq(Bytes)]
    /\ places \in Seq(File \X Nat) /\ Len(places) = version
    /\ \A f \in File : Len(db[f]) >= 2
    /\ Placed(db, places) /\ Placed(dest, places) /\ Placed(former, places)
    /\ phase = "copying" => \A f \in DOMAIN dest : Len(dest[f]) >= 2 \/ (todo # << >> /\ f = Head(todo))
    /\ meta # << >> => CompleteIs /\ DOMAIN dest \cup DOMAIN former = File

BackupInv == CopyInv /\ EarlierInv

\* A listing of the directory names every file once.
LEMMA ListingIs ==
    ASSUME NEW order \in Listings
    PROVE  /\ FileCount \in Nat /\ FileCount # 0 /\ DOMAIN order = 1..FileCount
           /\ \A i \in 1..FileCount : order[i] \in File
           /\ \A i, j \in 1..FileCount : order[i] = order[j] => i = j
           /\ \A f \in File : \E i \in 1..FileCount : order[i] = f
           /\ Len(order) = FileCount /\ order \in Seq(File)
<1> DEFINE n == FileCount
<1>1. n \in Nat /\ n # 0
  BY BackupAssumption, FS_CardinalityType, FS_EmptySet DEF FileCount
<1>2. order \in [1..n -> File] /\ IsInjective(order)
  BY DEF Listings, FileCount
<1>a. n = Cardinality(File)
  BY DEF FileCount
<1> HIDE DEF n
<1>3. \A i, j \in 1..n : order[i] = order[j] => i = j
  BY <1>2 DEF IsInjective
<1>4. IsFiniteSet(1..n) /\ Cardinality(1..n) = n
  BY <1>1, FS_Interval
<1>5. order \in Injection(1..n, File)
  BY <1>2, Zenon DEF Injection
<1>6. order \in Surjection(1..n, File)
  BY <1>4, <1>5, <1>a, BackupAssumption, FS_Injection
<1>7. \A f \in File : \E i \in 1..n : order[i] = f
  BY <1>6 DEF Surjection
<1>8. order \in Seq(File) /\ Len(order) = n
  BY <1>1, <1>2
<1> QED  BY <1>1, <1>2, <1>3, <1>7, <1>8 DEF n

\* What a copy holds of each file, in the order of a listing.
LEMMA PartsType ==
    ASSUME NEW order \in Listings, NEW d, \A f \in DOMAIN d : d[f] \in Seq(Bytes)
    PROVE  /\ Parts(order, d) \in Seq(Seq(Bytes)) /\ Len(Parts(order, d)) = FileCount
           /\ \A i \in 1..FileCount : Parts(order, d)[i] = IF order[i] \in DOMAIN d THEN d[order[i]] ELSE << >>
<1> DEFINE n == FileCount
           s == Parts(order, d)
<1>1. n \in Nat /\ DOMAIN order = 1..n
  BY ListingIs
<1> HIDE DEF n
<1>2. s = [i \in 1..n |-> IF order[i] \in DOMAIN d THEN d[order[i]] ELSE << >>]
  BY <1>1 DEF Parts
<1>3. \A i \in 1..n : (IF order[i] \in DOMAIN d THEN d[order[i]] ELSE << >>) \in Seq(Bytes)
  OBVIOUS
<1> DEFINE Q == Seq(Bytes)
           v(i) == IF order[i] \in DOMAIN d THEN d[order[i]] ELSE << >>
<1>4. s = [i \in 1..n |-> v(i)] /\ \A i \in 1..n : v(i) \in Q
  BY <1>2, <1>3
<1> HIDE DEF s, Q, v
<1>5. s \in [1..n -> Q]
  BY <1>4
<1>6. s \in Seq(Q) /\ Len(s) = n
  BY <1>1, <1>5
<1>7. \A i \in 1..n : s[i] = v(i)
  BY <1>4
<1> QED  BY <1>6, <1>7 DEF n, s, Q, v

\* The files of a listing are all the files: what a copy holds does not depend on
\* the order in which it is read.
LEMMA WholeCounts ==
    ASSUME NEW order \in Listings, NEW d, DOMAIN d = File, \A f \in DOMAIN d : d[f] \in Seq(Bytes)
    PROVE  /\ IsFiniteSet(Cells(File, d))
           /\ Len(FlattenSeq(Parts(order, d))) = Cardinality(Cells(File, d))
<1> DEFINE n == FileCount
           s == Parts(order, d)
<1>1. /\ n \in Nat /\ n # 0 /\ \A i \in 1..n : order[i] \in File
      /\ \A i, j \in 1..n : order[i] = order[j] => i = j
      /\ \A f \in File : \E i \in 1..n : order[i] = f
  BY ListingIs
<1>2. s \in Seq(Seq(Bytes)) /\ Len(s) = n
      /\ \A i \in 1..n : s[i] = IF order[i] \in DOMAIN d THEN d[order[i]] ELSE << >>
  BY PartsType
<1> HIDE DEF n, s
<1>3. \A i \in 1..n : s[i] = d[order[i]]
  BY <1>1, <1>2
<1>4. First(order, n) = File
  BY <1>1 DEF First
<1>5. Counted(FlattenSeq(s), First(order, Len(s)), d)
  BY <1>1, <1>2, <1>3, FlattenCounts, Zenon
<1> QED  BY <1>2, <1>4, <1>5, Zenon DEF s, Counted

\* A buffer of a copied file is in the whole.
LEMMA WholeHas ==
    ASSUME NEW order \in Listings, NEW d, DOMAIN d = File, \A f \in DOMAIN d : d[f] \in Seq(Bytes),
           NEW f \in File, NEW j \in 1..Len(d[f])
    PROVE  Has(FlattenSeq(Parts(order, d)), d[f][j])
<1> DEFINE n == FileCount
           s == Parts(order, d)
<1>1. PICK i \in 1..n : order[i] = f
  BY ListingIs
<1>2. s \in Seq(Seq(Bytes)) /\ Len(s) = n
      /\ \A k \in 1..n : s[k] = IF order[k] \in DOMAIN d THEN d[order[k]] ELSE << >>
  BY PartsType
<1> HIDE DEF n, s
<1>3. s[i] = d[f] /\ i \in 1..Len(s) /\ j \in 1..Len(s[i])
  BY <1>1, <1>2
<1>4. Has(FlattenSeq(s), s[i][j])
  BY <1>2, <1>3, FlattenHas, Zenon
<1> QED  BY <1>3, <1>4 DEF s

\* ... and what is in the whole is a buffer of a copied file.
LEMMA WholeFrom ==
    ASSUME NEW order \in Listings, NEW d, DOMAIN d = File, \A f \in DOMAIN d : d[f] \in Seq(Bytes),
           NEW b, Has(FlattenSeq(Parts(order, d)), b)
    PROVE  \E f \in File : \E j \in 1..Len(d[f]) : d[f][j] = b
<1> DEFINE n == FileCount
           s == Parts(order, d)
<1>1. n \in Nat /\ n # 0 /\ \A i \in 1..n : order[i] \in File
  BY ListingIs
<1>2. s \in Seq(Seq(Bytes)) /\ Len(s) = n
      /\ \A k \in 1..n : s[k] = IF order[k] \in DOMAIN d THEN d[order[k]] ELSE << >>
  BY PartsType
<1>3. Has(FlattenSeq(s), b)
  OBVIOUS
<1> HIDE DEF n, s
<1>4. PICK i \in 1..n : Has(s[i], b)
  BY <1>1, <1>2, <1>3, FlattenFrom
<1>5. order[i] \in File /\ s[i] = d[order[i]]
  BY <1>1, <1>2
<1> QED  BY <1>4, <1>5 DEF Has

\* What verifying a backup compares.
LEMMA VerifyIs == ASSUME NEW order PROVE Verify(order) <=> meta # << >> /\ << FlattenSeq(Parts(order, Directory)) >> = meta
BY Zenon DEF Verify, Contents, Parts

\* A copy of every file leaves nothing of what was there before.
LEMMA DirectoryIs == ASSUME CopyInv, EarlierInv, DOMAIN dest = File PROVE Directory = dest
<1>1. dest = [f \in File |-> dest[f]] /\ DOMAIN dest \cup DOMAIN former = File
  BY DEF CopyInv, EarlierInv
<1>2. Directory = [f \in File |-> IF f \in File THEN dest[f] ELSE former[f]]
  BY <1>1, Zenon DEF Directory
<1> QED  BY <1>1, <1>2

\* What a backup directory holds.
LEMMA DirectoryType ==
    ASSUME CopyInv, EarlierInv
    PROVE  /\ DOMAIN Directory = DOMAIN dest \cup DOMAIN former /\ DOMAIN Directory \in SUBSET File
           /\ Directory \in [DOMAIN Directory -> Seq(Bytes)]
           /\ Placed(Directory, places)
<1>1. /\ DOMAIN dest \in SUBSET File /\ dest \in [DOMAIN dest -> Seq(Bytes)]
      /\ DOMAIN former \in SUBSET File /\ former \in [DOMAIN former -> Seq(Bytes)]
      /\ Placed(dest, places) /\ Placed(former, places)
  BY DEF CopyInv, EarlierInv
<1>2. /\ DOMAIN Directory = DOMAIN dest \cup DOMAIN former
      /\ \A f \in DOMAIN dest \cup DOMAIN former : Directory[f] = IF f \in DOMAIN dest THEN dest[f] ELSE former[f]
      /\ Directory = [f \in DOMAIN Directory |-> Directory[f]]
  BY DEF Directory
<1>3. \A f \in DOMAIN Directory : Directory[f] \in Seq(Bytes)
  BY <1>1, <1>2
<1>4. Placed(Directory, places)
  <2> SUFFICES ASSUME NEW f \in DOMAIN Directory, NEW i \in 1..Len(Directory[f])
               PROVE  PlacedAt(Directory[f][i], f, i, places)
    BY DEF Placed
  <2>1. CASE f \in DOMAIN dest
    BY <1>1, <1>2, <2>1 DEF Placed
  <2>2. CASE f \notin DOMAIN dest
    BY <1>1, <1>2, <2>2 DEF Placed
  <2> QED  BY <2>1, <2>2
<1> QED  BY <1>1, <1>2, <1>3, <1>4

\* A copy made of the same buffers as a complete one is that copy: the buffers
\* written since the files began say where they belong, and there are as many of
\* the others.
LEMMA SameBytes ==
    ASSUME NEW o \in Listings, NEW p \in Listings,
           NEW d \in [File -> Seq(Bytes)], NEW e \in [File -> Seq(Bytes)],
           Placed(d, places), Placed(e, places), \A f \in File : Len(e[f]) >= 2,
           FlattenSeq(Parts(o, d)) = FlattenSeq(Parts(p, e)),
           FlattenSeq(Parts(p, e)) \in Seq(0..MaxVersions)
    PROVE  d = e
<1> DEFINE c == FlattenSeq(Parts(p, e))
<1>1. /\ DOMAIN d = File /\ DOMAIN e = File
      /\ \A f \in File : d[f] \in Seq(Bytes) /\ Len(d[f]) \in Nat /\ e[f] \in Seq(Bytes) /\ Len(e[f]) \in Nat
  <2>1. \A f \in File : d[f] \in Seq(Bytes) /\ e[f] \in Seq(Bytes)
    OBVIOUS
  <2> QED  BY <2>1, LenProperties
<1>2. /\ IsFiniteSet(Cells(File, d)) /\ Len(c) = Cardinality(Cells(File, d))
      /\ IsFiniteSet(Cells(File, e)) /\ Len(c) = Cardinality(Cells(File, e))
  BY <1>1, WholeCounts
<1>3. \A f \in File : /\ \A i \in 1..Len(d[f]) : Has(c, d[f][i])
                      /\ \A i \in 1..Len(e[f]) : Has(c, e[f][i])
  BY <1>1, WholeHas
<1>4. c \in Seq(0..MaxVersions)
  OBVIOUS
<1>5. ASSUME NEW v, Has(c, v) PROVE v # MaxVersions + 1
  <2>1. PICK k \in 1..Len(c) : c[k] = v
    BY <1>5 DEF Has
  <2> HIDE DEF c
  <2>2. v \in 0..MaxVersions
    BY ONLY <1>4, <2>1, ElementOfSeq
  <2> QED  BY <2>2, BackupAssumption
<1>6. ASSUME NEW v, Has(c, v), v # 0
      PROVE  /\ \E f \in File : \E i \in 1..Len(d[f]) : d[f][i] = v /\ << f, i >> = places[v]
             /\ \E f \in File : \E i \in 1..Len(e[f]) : e[f][i] = v /\ << f, i >> = places[v]
  <2>a. PICK f \in File : \E i \in 1..Len(d[f]) : d[f][i] = v
    <3>1. Has(FlattenSeq(Parts(o, d)), v)
      BY <1>6
    <3> QED  BY <1>1, <3>1, WholeFrom
  <2>1. PICK i \in 1..Len(d[f]) : d[f][i] = v
    BY <2>a
  <2>b. PICK g \in File : \E k \in 1..Len(e[g]) : e[g][k] = v
    <3>1. Has(FlattenSeq(Parts(p, e)), v)
      BY <1>6
    <3>2. DOMAIN e = File /\ \A h \in DOMAIN e : e[h] \in Seq(Bytes)
      BY <1>1
    <3> QED  BY ONLY <3>1, <3>2, WholeFrom
  <2>2. PICK k \in 1..Len(e[g]) : e[g][k] = v
    BY <2>b
  <2>3. PlacedAt(v, f, i, places) /\ PlacedAt(v, g, k, places)
    BY <1>1, <2>1, <2>2 DEF Placed
  <2>4. places[v] = << f, i >> /\ places[v] = << g, k >>
    BY <1>5, <1>6, <2>3 DEF PlacedAt
  <2> QED  BY <2>1, <2>2, <2>4
<1> HIDE DEF c
<1>7. ASSUME NEW f \in File, NEW i \in 1..Len(d[f])
      PROVE  i \in 1..Len(e[f]) /\ (d[f][i] # 0 => e[f][i] = d[f][i])
  <2>1. Has(c, d[f][i]) /\ PlacedAt(d[f][i], f, i, places) /\ d[f][i] # MaxVersions + 1
    BY <1>1, <1>3, <1>5 DEF Placed
  <2>2. CASE d[f][i] = 0
    <3>1. i <= 2 \/ d[f][i] \in 1..Len(places)
      BY <2>1 DEF PlacedAt
    <3>2. ~ (d[f][i] \in 1..Len(places))
      BY <2>2
    <3>3. i \in 1..Len(e[f])
      BY <1>1, <3>1, <3>2
    <3> QED  BY <2>2, <3>3
  <2>3. CASE d[f][i] # 0
    <3>1. places[d[f][i]] = << f, i >>
      BY <2>1, <2>3 DEF PlacedAt
    <3>2. PICK g \in File : \E k \in 1..Len(e[g]) : e[g][k] = d[f][i] /\ << g, k >> = places[d[f][i]]
      BY <1>6, <2>1, <2>3
    <3>3. PICK k \in 1..Len(e[g]) : e[g][k] = d[f][i] /\ << g, k >> = << f, i >>
      BY <3>1, <3>2
    <3>4. g = f /\ k = i
      BY <3>3
    <3> QED  BY <3>3, <3>4
  <2> QED  BY <2>2, <2>3
<1>8. Cells(File, d) = Cells(File, e)
  <2>1. ASSUME NEW x \in Cells(File, d) PROVE x \in Cells(File, e)
    <3>1. PICK f \in File : x \in {f} \X (1..Len(d[f]))
      BY DEF Cells
    <3>2. PICK i \in 1..Len(d[f]) : x = << f, i >>
      BY <3>1
    <3>3. x \in {f} \X (1..Len(e[f]))
      BY <1>7, <3>2
    <3> QED  BY <3>3 DEF Cells
  <2>2. Cells(File, d) \in SUBSET Cells(File, e)
    BY <2>1
  <2> QED  BY <1>2, <2>2, FS_Subset
<1>9. ASSUME NEW f \in File PROVE d[f] = e[f]
  <2>1. \A i \in Nat : i \in 1..Len(d[f]) <=> i \in 1..Len(e[f])
    <3>1. ASSUME NEW i \in 1..Len(e[f]) PROVE i \in 1..Len(d[f])
      <4>1. << f, i >> \in Cells(File, d)
        <5>1. << f, i >> \in {f} \X (1..Len(e[f]))
          OBVIOUS
        <5>2. << f, i >> \in Cells(File, e)
          BY <5>1 DEF Cells
        <5> QED  BY <1>8, <5>2
      <4>2. PICK g \in File : << f, i >> \in {g} \X (1..Len(d[g]))
        BY <4>1 DEF Cells
      <4> QED  BY <4>2
    <3> QED  BY <1>7, <3>1
  <2>2. Len(d[f]) = Len(e[f])
    <3>1. Len(d[f]) \in Nat /\ Len(e[f]) \in Nat
      BY <1>1
    <3>2. Len(d[f]) <= Len(e[f])
      <4>1. CASE Len(d[f]) = 0
        BY <3>1, <4>1
      <4>2. CASE Len(d[f]) # 0
        BY <2>1, <3>1, <4>2
      <4> QED  BY <4>1, <4>2
    <3>3. Len(e[f]) <= Len(d[f])
      <4>1. CASE Len(e[f]) = 0
        BY <3>1, <4>1
      <4>2. CASE Len(e[f]) # 0
        BY <2>1, <3>1, <4>2
      <4> QED  BY <4>1, <4>2
    <3> QED  BY <3>1, <3>2, <3>3
  <2>3. ASSUME NEW i \in 1..Len(d[f]) PROVE d[f][i] = e[f][i]
    <3>1. i \in 1..Len(e[f]) /\ (d[f][i] # 0 => e[f][i] = d[f][i])
      BY <1>7
    <3>2. ASSUME e[f][i] # 0 PROVE d[f][i] = e[f][i]
      <4> DEFINE v == e[f][i]
      <4>1. Has(c, v) /\ PlacedAt(v, f, i, places) /\ v # MaxVersions + 1 /\ v # 0
        BY <1>1, <1>3, <1>5, <3>1, <3>2 DEF Placed
      <4> HIDE DEF v
      <4>2. places[v] = << f, i >>
        BY <4>1 DEF PlacedAt
      <4>3. PICK g \in File : \E k \in 1..Len(d[g]) : d[g][k] = v /\ << g, k >> = places[v]
        BY <1>6, <4>1
      <4>4. PICK k \in 1..Len(d[g]) : d[g][k] = v /\ << g, k >> = << f, i >>
        BY <4>2, <4>3
      <4>5. g = f /\ k = i
        BY <4>4
      <4> QED  BY <4>4, <4>5 DEF v
    <3> QED  BY <3>1, <3>2
  <2>4. d[f] \in Seq(Bytes) /\ e[f] \in Seq(Bytes)
    BY <1>1
  <2>5. d[f] = [i \in 1..Len(d[f]) |-> d[f][i]] /\ e[f] = [i \in 1..Len(e[f]) |-> e[f][i]]
    BY <2>4
  <2> QED  BY <2>2, <2>3, <2>5
<1>10. d = [f \in File |-> d[f]] /\ e = [f \in File |-> e[f]]
  OBVIOUS
<1> QED  BY <1>9, <1>10

\* A backup that failed is not taken for one that did not.
LEMMA FailedIsFound == BackupInv => FailedFound
<1> SUFFICES ASSUME CopyInv, EarlierInv, NEW order \in Listings, Verify(order) PROVE Directory = complete
  BY DEF BackupInv, FailedFound
<1>1. meta # << >> /\ << FlattenSeq(Parts(order, Directory)) >> = meta
  BY VerifyIs
<1>2. CompleteIs /\ DOMAIN dest \cup DOMAIN former = File
  BY <1>1 DEF EarlierInv
<1>3. PICK p \in Listings, c \in Seq(0..MaxVersions) : meta = << c >> /\ c = FlattenSeq(Parts(p, complete))
  BY <1>2 DEF CompleteIs
<1>4. /\ FlattenSeq(Parts(order, Directory)) = FlattenSeq(Parts(p, complete))
      /\ FlattenSeq(Parts(p, complete)) \in Seq(0..MaxVersions)
  <2>1. << FlattenSeq(Parts(order, Directory)) >> = << c >>
    BY <1>1, <1>3
  <2> QED  BY <1>3, <2>1
<1>5. Directory \in [File -> Seq(Bytes)] /\ Placed(Directory, places)
  BY <1>2, DirectoryType
<1>6. complete \in [File -> Seq(Bytes)] /\ Placed(complete, places) /\ \A f \in File : Len(complete[f]) >= 2
  BY <1>2 DEF CompleteIs
<1> QED  BY <1>4, <1>5, <1>6, SameBytes

\* After the last file of the listing there is a copy of every file.
LEMMA AllCopied ==
    ASSUME NEW order \in Listings, CopyingAt(order, FileCount + 1, todo, dest, checksum, moments)
    PROVE  DOMAIN dest = File
<1>1. /\ FileCount \in Nat /\ \A j \in 1..FileCount : order[j] \in File
      /\ \A g \in File : \E j \in 1..FileCount : order[j] = g
  BY ListingIs
<1>2. DOMAIN dest = {order[j] : j \in {j \in 1..FileCount : j <= FileCount + 1}}
  BY DEF CopyingAt
<1>3. \A j \in 1..FileCount : j <= FileCount + 1
  BY <1>1
<1> QED  BY <1>1, <1>2, <1>3

\* A buffer changed or lost is found, and the rest is what the backup promises.
LEMMA BackupIsSafe == BackupInv => BackupSafe
<1> SUFFICES ASSUME BackupInv PROVE BackupSafe
  OBVIOUS
<1>0. CopyInv /\ EarlierInv
  BY DEF BackupInv
<1>1. /\ checksum \in Seq(0..MaxVersions)
      /\ DOMAIN dest \in SUBSET File /\ dest \in [DOMAIN dest -> Seq(Bytes)]
      /\ phase = "done" => meta = << checksum >>
      /\ moments \in SUBSET [File -> Seq(0..MaxVersions)] /\ IsFiniteSet(moments)
  BY <1>0 DEF CopyInv, Bytes
<1>2. damaged => phase = "done" /\ DOMAIN dest = File /\ Differs(dest, checksum)
  BY <1>0 DEF CopyInv
<1>a. DOMAIN dest = File => Directory = dest
  BY <1>0, DirectoryIs
<1>3. ASSUME damaged, NEW order \in Listings, Verify(order) PROVE FALSE
  <2>1. FlattenSeq(Parts(order, dest)) = checksum
    <3>1. << FlattenSeq(Parts(order, Directory)) >> = << checksum >> /\ Directory = dest
      BY <1>1, <1>2, <1>3, <1>a, VerifyIs
    <3> QED  BY <3>1
  <2>2. ASSUME NEW f \in File, NEW i \in 1..Len(dest[f]), dest[f][i] = MaxVersions + 1 PROVE FALSE
    <3>1. Has(checksum, dest[f][i])
      BY <1>1, <1>2, <1>3, <2>1, WholeHas
    <3>2. PICK p \in 1..Len(checksum) : checksum[p] = MaxVersions + 1
      BY <2>2, <3>1 DEF Has
    <3>a. checksum \in Seq(0..MaxVersions)
      BY <1>1
    <3>3. checksum[p] \in 0..MaxVersions
      BY ONLY <3>a, ElementOfSeq, p \in 1..Len(checksum)
    <3> QED  BY <3>2, <3>3, BackupAssumption
  <2>3. ASSUME Cardinality(Cells(File, dest)) < Len(checksum) PROVE FALSE
    <3>1. Len(checksum) = Cardinality(Cells(File, dest))
      BY <1>1, <1>2, <1>3, <2>1, WholeCounts
    <3>2. Len(checksum) \in Nat
      BY <1>1
    <3> QED  BY <2>3, <3>1, <3>2
  <2> QED  BY <1>2, <1>3, <2>2, <2>3 DEF Differs
<1>4. ASSUME phase = "done", ~ damaged
      PROVE  (\E order \in Listings : Verify(order)) /\ \A m \in moments : Cardinality(moments) = 1 => dest = m
  <2>1. PICK order \in Listings : CopyingAt(order, FileCount + 1, todo, dest, checksum, moments)
    BY <1>0, <1>4 DEF CopyInv
  <2>2. Verify(order)
    <3>1. checksum = FlattenSeq(Parts(order, dest))
      BY <2>1 DEF CopyingAt
    <3>2. DOMAIN dest = File
      BY <2>1, AllCopied
    <3>3. Directory = dest /\ meta = << checksum >>
      BY <1>1, <1>4, <1>a, <3>2
    <3>4. << FlattenSeq(Parts(order, Directory)) >> = meta /\ meta # << >>
      <4>1. << FlattenSeq(Parts(order, Directory)) >> = << checksum >>
        BY <3>1, <3>3
      <4> QED  BY <3>3, <4>1
    <3> QED  BY <3>4, VerifyIs, Zenon
  <2>3. ASSUME NEW m \in moments, Cardinality(moments) = 1 PROVE dest = m
    <3>1. moments = {m}
      BY <1>1, <2>3, FS_Singleton
    <3>2. /\ FileCount \in Nat /\ \A i \in 1..FileCount : order[i] \in File
          /\ \A f \in File : \E i \in 1..FileCount : order[i] = f
      BY ListingIs
    <3> DEFINE k == FileCount + 1
    <3>3. k - 1 = FileCount /\ \A i \in 1..FileCount : i <= k
      BY <3>2
    <3>4. /\ DOMAIN dest = {order[i] : i \in {i \in 1..FileCount : i <= k}}
          /\ \A i \in 1..(k - 1) : dest[order[i]] = m[order[i]]
      BY <2>1, <2>3, <3>1 DEF CopyingAt
    <3> HIDE DEF k
    <3>5. DOMAIN dest = File /\ \A f \in File : dest[f] = m[f]
      BY <3>2, <3>3, <3>4
    <3>6. m \in [File -> Seq(0..MaxVersions)]
      BY <1>1
    <3>a. dest = [f \in DOMAIN dest |-> dest[f]]
      BY <1>1
    <3> QED  BY <3>5, <3>6, <3>a
  <2> QED  BY <2>2, <2>3
<1>5. ~ damaged => FromMoments(dest, moments)
  BY <1>0 DEF CopyInv
<1>6. FailedFound
  BY FailedIsFound
<1>7. CopiedSafe
  BY <1>4, <1>5, Zenon DEF CopiedSafe, FromMoments
<1>8. DamageFound
  BY <1>3, Zenon DEF DamageFound
<1> QED  BY <1>6, <1>7, <1>8 DEF BackupSafe

\* At the start nothing is copied.
LEMMA CopyBegins == BackupInit => CopyInv
<1> SUFFICES ASSUME BackupInit PROVE CopyInv
  OBVIOUS
<1>1. /\ db = [f \in File |-> << 0, 0 >>] /\ version = 0
      /\ dest = << >> /\ todo = << >> /\ checksum = << >> /\ meta = << >>
      /\ phase = "idle" /\ moments = {} /\ damaged = FALSE
  BY DEF BackupInit
<1>2. DOMAIN dest = {} /\ dest \in [DOMAIN dest -> Seq(Bytes)]
  <2>1. << >> \in [{} -> Seq(Bytes)] /\ DOMAIN << >> = {}
    OBVIOUS
  <2> QED  BY <1>1, <2>1
<1>3. db \in [File -> Seq(0..version)]
  <2>1. << 0, 0 >> \in Seq(0..0)
    OBVIOUS
  <2> QED  BY <1>1, <2>1
<1>4. version \in 0..MaxVersions /\ checksum \in Seq(0..MaxVersions) /\ todo \in Seq(File) /\ IsFiniteSet(moments)
  BY <1>1, BackupAssumption, FS_EmptySet
<1>5. FromMoments(dest, moments)
  BY <1>2 DEF FromMoments
<1> QED  BY <1>1, <1>2, <1>3, <1>4, <1>5 DEF CopyInv

\* A list of elements of a set is one of a larger set.
LEMMA SeqWiden == ASSUME NEW S, NEW T, S \subseteq T, NEW s \in Seq(S) PROVE s \in Seq(T)
<1> DEFINE n == Len(s)
<1>1. n \in Nat /\ s \in [1..n -> S]
  OBVIOUS
<1> HIDE DEF n
<1>2. s \in [1..n -> T]
  BY <1>1
<1> QED  BY <1>1, <1>2

\* What a writer makes of a file is new.
LEMMA WriteFileKeeps ==
    ASSUME CopyInv, NEW f \in File, NEW i \in Nat, WriteFile(f, i) PROVE CopyInv'
<1> DEFINE old == db[f]
           new == IF i > Len(old) THEN Append(old, version + 1) ELSE [old EXCEPT ![i] = version + 1]
           top == version + 1
<1>1. /\ version < MaxVersions /\ version' = top /\ i \in 1..(Len(old) + 1)
      /\ db' = [db EXCEPT ![f] = new]
      /\ moments' = IF phase = "copying" THEN moments \cup {db'} ELSE moments
      /\ dest' = dest /\ todo' = todo /\ checksum' = checksum /\ meta' = meta /\ phase' = phase /\ damaged' = damaged
  BY DEF WriteFile
<1>2. /\ version \in 0..MaxVersions /\ db \in [File -> Seq(0..version)] /\ MaxVersions \in Nat /\ version \in Nat
  BY BackupAssumption DEF CopyInv
<1>3. version' \in 0..MaxVersions /\ top \in Nat /\ version <= top /\ top <= MaxVersions
  BY <1>1, <1>2
<1>4. old \in Seq(0..version)
  BY <1>2
<1>5. \A g \in File : db[g] \in Seq(0..top)
  <2>1. 0..version \subseteq 0..top
    BY <1>2, <1>3
  <2> QED  BY <1>2, <2>1, SeqWiden
<1>6. top \in 0..top
  BY <1>3
<1> HIDE DEF top
<1>7. new \in Seq(0..top) /\ new # old
  <2>0. old \in Seq(0..top) /\ Len(old) \in Nat
    BY <1>5
  <2>1. CASE i > Len(old)
    <3>1. new = Append(old, top)
      BY <2>1 DEF top
    <3>2. Append(old, top) \in Seq(0..top) /\ Len(Append(old, top)) = Len(old) + 1
      BY <1>6, <2>0, AppendProperties
    <3>3. Append(old, top) # old
      BY <2>0, <3>2
    <3> HIDE DEF new
    <3> QED  BY <3>1, <3>2, <3>3
  <2>2. CASE ~ (i > Len(old))
    <3>1. new = [old EXCEPT ![i] = top]
      BY <2>2 DEF top
    <3>2. [old EXCEPT ![i] = top] \in Seq(0..top)
      BY <1>6, <2>0, ReplacedIn, Zenon
    <3>3. i \in 1..Len(old)
      BY <1>1, <2>0, <2>2
    <3>4. old[i] \in 0..version
      BY <1>4, <3>3, ElementOfSeq
    <3>5. i \in DOMAIN old /\ [old EXCEPT ![i] = top][i] = top
      BY <2>0, <3>3
    <3>6. old[i] # top
      BY <1>2, <3>4 DEF top
    <3>7. [old EXCEPT ![i] = top] # old
      BY <3>5, <3>6
    <3> HIDE DEF new
    <3> QED  BY <3>1, <3>2, <3>7, Zenon
  <2> QED  BY <2>1, <2>2
<1> HIDE DEF new
<1>8. db' \in [File -> Seq(0..version')] /\ db' # db
  <2>1. db'[f] = new /\ DOMAIN db' = File /\ \A g \in File : g # f => db'[g] = db[g]
    BY <1>1, <1>2
  <2>2. db' = [g \in File |-> db'[g]]
    BY <1>1, <1>2
  <2>3. \A g \in File : db'[g] \in Seq(0..top)
    BY <1>5, <1>7, <2>1
  <2>4. db' \in [File -> Seq(0..top)]
    BY <2>2, <2>3, Zenon
  <2> QED  BY <1>1, <1>7, <2>1, <2>4
<1>9. db' \in [File -> Seq(0..MaxVersions)]
  <2>1. 0..top \subseteq 0..MaxVersions
    BY <1>2, <1>3
  <2>2. \A g \in File : db'[g] \in Seq(0..MaxVersions)
    BY <1>1, <1>8, <2>1, SeqWiden
  <2> QED  BY <1>8, <2>2
<1>10. moments' \in SUBSET [File -> Seq(0..MaxVersions)] /\ IsFiniteSet(moments') /\ moments \subseteq moments'
  <2>1. moments \in SUBSET [File -> Seq(0..MaxVersions)] /\ IsFiniteSet(moments)
    BY DEF CopyInv
  <2>2. IsFiniteSet(moments \cup {db'})
    BY <2>1, FS_AddElement
  <2> QED  BY <1>1, <1>9, <2>1, <2>2
<1>11. ASSUME phase = "copying", NEW order \in Listings, NEW k \in 1..(FileCount + 1),
              CopyingAt(order, k, todo, dest, checksum, moments)
       PROVE  CopyingAt(order, k, todo, dest, checksum, moments')
  <2>1. db \in moments' /\ db' \in moments'
    BY <1>1, <1>11 DEF CopyInv
  <2>2. \A m \in moments' : moments' # {m}
    BY <1>8, <2>1
  <2> QED  BY <1>11, <2>2 DEF CopyingAt
<1>12. phase # "copying" => moments' = moments
  BY <1>1
<1>13. FromMoments(dest, moments) => FromMoments(dest, moments')
  BY <1>10 DEF FromMoments
<1>14. phase' = "copying" => /\ db' \in moments'
                             /\ \E order \in Listings, k \in 1..(FileCount + 1) : CopyingAt(order, k, todo', dest', checksum', moments')
  <2> SUFFICES ASSUME phase = "copying"
               PROVE  /\ db' \in moments'
                      /\ \E order \in Listings, k \in 1..(FileCount + 1) : CopyingAt(order, k, todo, dest, checksum, moments')
    BY <1>1
  <2>1. PICK order \in Listings, k \in 1..(FileCount + 1) : CopyingAt(order, k, todo, dest, checksum, moments)
    BY DEF CopyInv
  <2> QED  BY <1>1, <1>11, <2>1
<1>15. phase' = "done" /\ ~ damaged' => \E order \in Listings : CopyingAt(order, FileCount + 1, todo', dest', checksum', moments')
  <2> SUFFICES ASSUME phase = "done", ~ damaged
               PROVE  \E order \in Listings : CopyingAt(order, FileCount + 1, todo, dest, checksum, moments)
    BY <1>1, <1>12
  <2> QED  BY DEF CopyInv
<1>16. /\ checksum' \in Seq(0..MaxVersions) /\ todo' \in Seq(File)
       /\ DOMAIN dest' \in SUBSET File /\ dest' \in [DOMAIN dest' -> Seq(Bytes)]
       /\ phase' \in {"idle", "copying", "done", "failed"} /\ damaged' \in BOOLEAN
       /\ phase' = "idle" => checksum' = << >> /\ dest' = << >>
       /\ damaged' => phase' = "done"
       /\ phase' = "done" => meta' = << checksum' >>
       /\ damaged' => DOMAIN dest' = File /\ Differs(dest', checksum')
  BY <1>1 DEF CopyInv, Differs
<1>17. ~ damaged' => FromMoments(dest', moments')
  BY <1>1, <1>13 DEF CopyInv
<1> QED  BY <1>3, <1>8, <1>10, <1>14, <1>15, <1>16, <1>17, Zenon DEF CopyInv

\* The step leaves the files of the database and the copy alone.
LEMMA BeginKeeps == ASSUME CopyInv, NEW order \in Listings, BeginBackup(order) PROVE CopyInv'
<1>1. /\ phase' = "copying" /\ todo' = order /\ moments' = {db} /\ checksum' = << >> /\ damaged' = FALSE
      /\ dest' = [f \in {order[1]} |-> << >>]
      /\ db' = db /\ version' = version
  BY DEF BeginBackup
<1>2. /\ version \in 0..MaxVersions /\ db \in [File -> Seq(0..version)] /\ MaxVersions \in Nat /\ version \in Nat
  BY <1>1, BackupAssumption DEF CopyInv
<1>3. /\ FileCount \in Nat /\ FileCount # 0 /\ DOMAIN order = 1..FileCount
      /\ \A i \in 1..FileCount : order[i] \in File
      /\ \A i, j \in 1..FileCount : order[i] = order[j] => i = j
      /\ Len(order) = FileCount /\ order \in Seq(File)
  BY ListingIs
<1>4. DOMAIN dest' = {order[1]} /\ order[1] \in File /\ dest'[order[1]] = << >> /\ dest' \in [DOMAIN dest' -> Seq(Bytes)]
      /\ \A f \in DOMAIN dest' : dest'[f] = << >>
  <2>1. order[1] \in File
    BY <1>3
  <2>2. << >> \in Seq(Bytes)
    OBVIOUS
  <2> QED  BY <1>1, <2>1, <2>2
<1>5. db \in [File -> Seq(0..MaxVersions)]
  <2>1. 0..version \subseteq 0..MaxVersions
    BY <1>2
  <2>2. \A g \in File : db[g] \in Seq(0..MaxVersions)
    BY <1>2, <2>1, SeqWiden
  <2> QED  BY <1>2, <2>2
<1>6. FlattenSeq(Parts(order, dest')) = << >>
  <2> DEFINE s == Parts(order, dest')
  <2>1. \A f \in DOMAIN dest' : dest'[f] \in Seq(Bytes)
    BY <1>4
  <2>2. /\ s \in Seq(Seq(Bytes)) /\ Len(s) = FileCount
        /\ \A i \in 1..FileCount : s[i] = IF order[i] \in DOMAIN dest' THEN dest'[order[i]] ELSE << >>
    BY <2>1, PartsType
  <2> HIDE DEF s
  <2>3. \A i \in 1..Len(s) : s[i] = << >>
    BY <1>4, <2>2
  <2>4. FlattenSeq(s) = << >>
    BY <2>2, <2>3, FlattenEmpty
  <2> QED  BY <2>4 DEF s
<1>7. CopyingAt(order, 1, todo', dest', checksum', moments')
  <2>1. Len(todo') = FileCount + 1 - 1 /\ \A j \in 1..Len(todo') : todo'[j] = order[1 - 1 + j]
    BY <1>1, <1>3
  <2>2. DOMAIN dest' = {order[i] : i \in {i \in 1..FileCount : i <= 1}}
    <3>1. \A i : i \in {j \in 1..FileCount : j <= 1} <=> i = 1
      BY <1>3
    <3> QED  BY <1>4, <3>1
  <2>3. checksum' = FlattenSeq(Parts(order, dest'))
    BY <1>1, <1>2, <1>6
  <2>4. ASSUME NEW m \in moments'
        PROVE  /\ \A i \in 1..(1 - 1) : dest'[order[i]] = m[order[i]]
               /\ Len(dest'[order[1]]) <= Len(m[order[1]])
               /\ \A j \in 1..Len(dest'[order[1]]) : dest'[order[1]][j] = m[order[1]][j]
    <3>1. m = db /\ Len(db[order[1]]) \in Nat
      BY <1>1, <1>4, <1>5
    <3>2. Len(dest'[order[1]]) = 0
      BY <1>4
    <3> QED  BY <3>1, <3>2
  <2> QED  BY <2>1, <2>2, <2>3, <2>4 DEF CopyingAt
<1>8. FromMoments(dest', moments')
  <2>1. \A f \in DOMAIN dest' : DOMAIN dest'[f] = {}
    BY <1>4
  <2> QED  BY <2>1 DEF FromMoments
<1>9. moments' \in SUBSET [File -> Seq(0..MaxVersions)] /\ IsFiniteSet(moments') /\ db' \in moments'
  BY <1>1, <1>5, FS_Singleton
<1>10. \E ord \in Listings, k \in 1..(FileCount + 1) : CopyingAt(ord, k, todo', dest', checksum', moments')
  <2>1. 1 \in 1..(FileCount + 1)
    BY <1>3
  <2> QED  BY <1>7, <2>1
<1>11. /\ version' \in 0..MaxVersions /\ db' \in [File -> Seq(0..version')]
       /\ checksum' \in Seq(0..MaxVersions) /\ todo' \in Seq(File)
       /\ DOMAIN dest' \in SUBSET File /\ dest' \in [DOMAIN dest' -> Seq(Bytes)]
  BY <1>1, <1>2, <1>3, <1>4
<1> QED  BY <1>1, <1>2, <1>8, <1>9, <1>10, <1>11 DEF CopyInv

\* What is at work: the file copied, its place in the listing, and the files
\* before and after it.
AtWork(order, k) ==
    /\ order \in Listings /\ k \in 1..FileCount /\ CopyingAt(order, k, todo, dest, checksum, moments)
    /\ Head(todo) = order[k] /\ order[k] \in DOMAIN dest /\ order[k] \in File
    /\ \A i \in 1..FileCount : order[i] \in DOMAIN dest <=> i <= k

\* The file at the head of what is to do is the last one copied to.
LEMMA AtWorkIs ==
    ASSUME CopyInv, phase = "copying", todo # << >>
    PROVE  \E order, k : AtWork(order, k)
<1>1. PICK order \in Listings, k \in 1..(FileCount + 1) : CopyingAt(order, k, todo, dest, checksum, moments)
  BY DEF CopyInv
<1>2. /\ FileCount \in Nat /\ \A i \in 1..FileCount : order[i] \in File
      /\ \A i, j \in 1..FileCount : order[i] = order[j] => i = j
  BY ListingIs
<1>3. todo \in Seq(File) /\ Len(todo) \in Nat /\ Len(todo) # 0 /\ Head(todo) = todo[1]
  <2>1. todo \in Seq(File)
    BY DEF CopyInv
  <2> QED  BY <2>1
<1>4. /\ Len(todo) = FileCount + 1 - k /\ \A j \in 1..Len(todo) : todo[j] = order[k - 1 + j]
      /\ DOMAIN dest = {order[i] : i \in {i \in 1..FileCount : i <= k}}
  BY <1>1 DEF CopyingAt
<1>5. k \in 1..FileCount
  BY <1>2, <1>3, <1>4
<1>6. todo[1] = order[k]
  <2>1. 1 \in 1..Len(todo) /\ k - 1 + 1 = k
    BY <1>3, <1>5
  <2> QED  BY <1>4, <2>1
<1>7. \A i \in 1..FileCount : order[i] \in DOMAIN dest <=> i <= k
  BY <1>2, <1>4, <1>5
<1>8. k <= k
  BY <1>5
<1> QED  BY <1>1, <1>2, <1>3, <1>5, <1>6, <1>7, <1>8 DEF AtWork

\* A buffer copied is one of the file as it is now, ...
LEMMA CopyBufferKeeps == ASSUME CopyInv, CopyBuffer PROVE CopyInv'
<1>1. phase = "copying" /\ todo # << >>
  BY DEF CopyBuffer
<1>2. PICK order, k : AtWork(order, k)
  BY <1>1, AtWorkIs
<1> DEFINE f == order[k]
           old == dest[f]
           n == Len(old) + 1
           b == db[f][n]
<1>3. /\ n <= Len(db[f]) /\ dest' = [dest EXCEPT ![f] = Append(@, b)] /\ checksum' = Append(checksum, b)
      /\ db' = db /\ version' = version /\ todo' = todo /\ meta' = meta /\ phase' = phase
      /\ moments' = moments /\ damaged' = damaged
  BY <1>2 DEF CopyBuffer, AtWork
<1>4. /\ order \in Listings /\ k \in 1..FileCount /\ CopyingAt(order, k, todo, dest, checksum, moments)
      /\ f \in DOMAIN dest /\ f \in File
      /\ \A i \in 1..FileCount : order[i] \in DOMAIN dest <=> i <= k
  BY <1>2 DEF AtWork
<1>5. /\ version \in 0..MaxVersions /\ db \in [File -> Seq(0..version)] /\ MaxVersions \in Nat /\ version \in Nat
      /\ checksum \in Seq(0..MaxVersions)
      /\ DOMAIN dest \in SUBSET File /\ dest \in [DOMAIN dest -> Seq(Bytes)]
      /\ ~ damaged /\ db \in moments /\ FromMoments(dest, moments)
  BY <1>1, BackupAssumption DEF CopyInv
<1>6. old \in Seq(Bytes) /\ n \in Nat /\ n \in 1..Len(db[f]) /\ Len(old) = n - 1
  <2>1. old \in Seq(Bytes)
    BY <1>4, <1>5
  <2>2. db[f] \in Seq(0..version)
    BY <1>4, <1>5
  <2>3. Len(old) \in Nat /\ Len(db[f]) \in Nat
    BY <2>1, <2>2
  <2> QED  BY <1>3, <2>1, <2>3
<1>7. b \in 0..version /\ b \in 0..MaxVersions /\ b \in Bytes
  <2>1. db[f] \in Seq(0..version)
    BY <1>4, <1>5
  <2>2. b \in 0..version
    BY <1>6, <2>1, ElementOfSeq
  <2> HIDE DEF b
  <2> QED  BY <1>5, <2>2 DEF Bytes
<1> HIDE DEF n, b
<1>8. /\ Append(old, b) \in Seq(Bytes) /\ Len(Append(old, b)) = n /\ Append(old, b)[n] = b
      /\ \A j \in 1..(n - 1) : Append(old, b)[j] = old[j]
  <2> HIDE DEF old
  <2>1. /\ Append(old, b) \in Seq(Bytes) /\ Len(Append(old, b)) = Len(old) + 1
        /\ \A j \in 1..Len(old) : Append(old, b)[j] = old[j]
        /\ Append(old, b)[Len(old) + 1] = b
    BY <1>6, <1>7, AppendProperties
  <2> QED  BY <1>6, <2>1 DEF n
<1> DEFINE new == Append(old, b)
<1> HIDE DEF new
<1>9. /\ DOMAIN dest' = DOMAIN dest /\ dest'[f] = new /\ \A g \in DOMAIN dest : g # f => dest'[g] = dest[g]
      /\ dest' \in [DOMAIN dest' -> Seq(Bytes)]
  <2>1. dest' = [dest EXCEPT ![f] = new]
    BY <1>3 DEF new
  <2>2. new \in Seq(Bytes)
    BY <1>8 DEF new
  <2> QED  BY <1>4, <1>5, <2>1, <2>2
<1>10. /\ FileCount \in Nat /\ \A i \in 1..FileCount : order[i] \in File
       /\ \A i, j \in 1..FileCount : order[i] = order[j] => i = j
  BY <1>4, ListingIs
<1>11. FlattenSeq(Parts(order, dest')) = Append(FlattenSeq(Parts(order, dest)), b)
  <2> DEFINE s == Parts(order, dest)
             t == Parts(order, dest')
  <2>1. /\ s \in Seq(Seq(Bytes)) /\ Len(s) = FileCount
        /\ \A i \in 1..FileCount : s[i] = IF order[i] \in DOMAIN dest THEN dest[order[i]] ELSE << >>
    <3>1. \A g \in DOMAIN dest : dest[g] \in Seq(Bytes)
      BY <1>5
    <3> QED  BY <1>4, <3>1, PartsType
  <2>2. /\ t \in Seq(Seq(Bytes)) /\ Len(t) = FileCount
        /\ \A i \in 1..FileCount : t[i] = IF order[i] \in DOMAIN dest' THEN dest'[order[i]] ELSE << >>
    <3>1. \A g \in DOMAIN dest' : dest'[g] \in Seq(Bytes)
      BY <1>9
    <3> QED  BY <1>4, <3>1, PartsType
  <2> HIDE DEF s, t
  <2>3. \A i \in 1..FileCount : i # k => t[i] = s[i]
    <3> SUFFICES ASSUME NEW i \in 1..FileCount, i # k PROVE t[i] = s[i]
      OBVIOUS
    <3> DEFINE g == order[i]
    <3>1. g # f /\ t[i] = (IF g \in DOMAIN dest' THEN dest'[g] ELSE << >>)
          /\ s[i] = (IF g \in DOMAIN dest THEN dest[g] ELSE << >>)
      BY <1>4, <1>10, <2>1, <2>2
    <3> HIDE DEF g
    <3> QED  BY <1>9, <3>1
  <2>4. \A i \in 1..FileCount : i > k => s[i] = << >>
    <3>1. \A i \in 1..FileCount : i > k => ~ (i <= k)
      BY <1>4, <1>10
    <3> QED  BY <1>4, <2>1, <3>1
  <2>5. t[k] = Append(s[k], b)
    BY <1>4, <1>9, <2>1, <2>2 DEF new
  <2>6. Grows(s, t, k, b)
    BY <2>1, <2>3, <2>4, <2>5 DEF Grows
  <2>7. FlattenSeq(t) = Append(FlattenSeq(s), b)
    BY <1>4, <1>7, <2>1, <2>2, <2>6, FlattenGrows
  <2> QED  BY <2>7 DEF s, t
<1>12. CopyingAt(order, k, todo', dest', checksum', moments')
  <2>1. /\ Len(todo) = FileCount + 1 - k /\ \A j \in 1..Len(todo) : todo[j] = order[k - 1 + j]
        /\ DOMAIN dest = {order[i] : i \in {i \in 1..FileCount : i <= k}}
        /\ checksum = FlattenSeq(Parts(order, dest))
    BY <1>4 DEF CopyingAt
  <2>2. ASSUME NEW m \in moments, moments = {m}
        PROVE  /\ \A i \in 1..(k - 1) : dest'[order[i]] = m[order[i]]
               /\ Len(dest'[f]) <= Len(m[f]) /\ \A j \in 1..Len(dest'[f]) : dest'[f][j] = m[f][j]
    <3>1. m = db
      BY <1>5, <2>2
    <3>2. /\ \A i \in 1..(k - 1) : dest[order[i]] = m[order[i]]
          /\ \A j \in 1..Len(old) : old[j] = m[f][j]
      BY <1>4, <2>2 DEF CopyingAt
    <3>3. \A i \in 1..(k - 1) : dest'[order[i]] = m[order[i]]
      <4> SUFFICES ASSUME NEW i \in 1..(k - 1) PROVE dest'[order[i]] = m[order[i]]
        OBVIOUS
      <4>1. i \in 1..FileCount /\ i <= k /\ i # k
        BY <1>4, <1>10
      <4>2. order[i] \in DOMAIN dest /\ order[i] # f
        BY <1>4, <1>10, <4>1
      <4> QED  BY <1>9, <3>2, <4>2
    <3>4. Len(new) = n /\ n <= Len(m[f])
      BY <1>6, <1>8, <3>1 DEF new
    <3>5. \A j \in 1..n : new[j] = m[f][j]
      <4> SUFFICES ASSUME NEW j \in 1..n PROVE new[j] = m[f][j]
        OBVIOUS
      <4>1. CASE j = n
        BY <1>8, <3>1, <4>1 DEF new, b
      <4>2. CASE j # n
        <5>1. j \in 1..(n - 1) /\ j \in 1..Len(old)
          BY <1>6, <4>2
        <5> QED  BY <1>8, <3>2, <5>1 DEF new
      <4> QED  BY <4>1, <4>2
    <3> QED  BY <1>9, <3>3, <3>4, <3>5
  <2> QED  BY <1>3, <1>9, <1>11, <2>1, <2>2 DEF CopyingAt
<1>13. FromMoments(dest', moments')
  <2> SUFFICES ASSUME NEW g \in DOMAIN dest', NEW i \in DOMAIN dest'[g]
               PROVE  \E m \in moments : i \in DOMAIN m[g] /\ m[g][i] = dest'[g][i]
    BY <1>3 DEF FromMoments
  <2>1. CASE g # f
    <3>1. g \in DOMAIN dest /\ dest'[g] = dest[g] /\ i \in DOMAIN dest[g]
      BY <1>9, <2>1
    <3> QED  BY <1>5, <3>1 DEF FromMoments
  <2>2. CASE g = f /\ i = n
    <3>1. db[f][n] = dest'[f][n] /\ n \in DOMAIN db[f]
      <4>1. db[f] \in Seq(0..version)
        BY <1>4, <1>5
      <4> QED  BY <1>6, <1>8, <1>9, <4>1 DEF new, b
    <3> QED  BY <1>5, <2>2, <3>1
  <2>3. CASE g = f /\ i # n
    <3>1. DOMAIN new = 1..n
      BY <1>6, <1>8 DEF new
    <3>2. i \in 1..(n - 1) /\ i \in DOMAIN old
      BY <1>6, <1>9, <2>3, <3>1
    <3>3. dest'[g][i] = old[i]
      BY <1>8, <1>9, <2>3, <3>2 DEF new
    <3>4. \E m \in moments : i \in DOMAIN m[f] /\ m[f][i] = old[i]
      BY <1>4, <1>5, <3>2 DEF FromMoments
    <3> QED  BY <2>3, <3>3, <3>4
  <2> QED  BY <2>1, <2>2, <2>3
<1>14. /\ version' \in 0..MaxVersions /\ db' \in [File -> Seq(0..version')]
       /\ checksum' \in Seq(0..MaxVersions)
       /\ DOMAIN dest' \in SUBSET File /\ dest' \in [DOMAIN dest' -> Seq(Bytes)]
  <2>1. Append(checksum, b) \in Seq(0..MaxVersions)
    BY <1>5, <1>7, AppendProperties
  <2> QED  BY <1>3, <1>5, <1>9, <2>1
<1>15. /\ todo' \in Seq(File) /\ moments' \in SUBSET [File -> Seq(0..MaxVersions)] /\ IsFiniteSet(moments')
  BY <1>3 DEF CopyInv
<1>16. \E ord \in Listings, j \in 1..(FileCount + 1) : CopyingAt(ord, j, todo', dest', checksum', moments')
  <2>1. k \in 1..(FileCount + 1)
    BY <1>4, <1>10
  <2> QED  BY <1>4, <1>12, <2>1
<1> QED  BY <1>1, <1>3, <1>5, <1>13, <1>14, <1>15, <1>16 DEF CopyInv

\* ... at its end the next file of the listing is opened, ...
LEMMA FileDoneKeeps == ASSUME CopyInv, FileDone PROVE CopyInv'
<1>1. phase = "copying" /\ todo # << >>
  BY DEF FileDone
<1>2. PICK order, k : AtWork(order, k)
  BY <1>1, AtWorkIs
<1> DEFINE f == order[k]
           next == {todo[i] : i \in {2} \cap DOMAIN todo}
<1>3. /\ Len(dest[f]) >= Len(db[f]) /\ todo' = Tail(todo)
      /\ dest' = [g \in DOMAIN dest \cup next |-> IF g \in DOMAIN dest THEN dest[g] ELSE << >>]
      /\ db' = db /\ version' = version /\ checksum' = checksum /\ meta' = meta /\ phase' = phase
      /\ moments' = moments /\ damaged' = damaged
  BY <1>2 DEF FileDone, AtWork
<1>4. /\ order \in Listings /\ k \in 1..FileCount /\ CopyingAt(order, k, todo, dest, checksum, moments)
      /\ f \in DOMAIN dest /\ f \in File
      /\ \A i \in 1..FileCount : order[i] \in DOMAIN dest <=> i <= k
  BY <1>2 DEF AtWork
<1>5. /\ version \in 0..MaxVersions /\ db \in [File -> Seq(0..version)]
      /\ checksum \in Seq(0..MaxVersions) /\ todo \in Seq(File)
      /\ DOMAIN dest \in SUBSET File /\ dest \in [DOMAIN dest -> Seq(Bytes)]
      /\ ~ damaged /\ db \in moments /\ FromMoments(dest, moments)
  BY <1>1 DEF CopyInv
<1>6. /\ FileCount \in Nat /\ \A i \in 1..FileCount : order[i] \in File
      /\ \A i, j \in 1..FileCount : order[i] = order[j] => i = j
  BY <1>4, ListingIs
<1>7. /\ Len(todo) = FileCount + 1 - k /\ \A j \in 1..Len(todo) : todo[j] = order[k - 1 + j]
      /\ DOMAIN dest = {order[i] : i \in {i \in 1..FileCount : i <= k}}
      /\ checksum = FlattenSeq(Parts(order, dest))
  BY <1>4 DEF CopyingAt
<1>8. next = {order[i] : i \in {i \in 1..FileCount : i = k + 1}}
  <2>1. DOMAIN todo = 1..Len(todo) /\ Len(todo) \in Nat
    BY <1>5
  <2>2. CASE k + 1 \in 1..FileCount
    <3>1. 2 \in 1..Len(todo) /\ k - 1 + 2 = k + 1
      BY <1>4, <1>6, <1>7, <2>1, <2>2
    <3>2. todo[2] = order[k + 1]
      BY <1>7, <3>1
    <3>3. next = {todo[2]}
      BY <2>1, <3>1
    <3> HIDE DEF next
    <3> QED  BY <2>2, <3>2, <3>3
  <2>3. CASE k + 1 \notin 1..FileCount
    <3>1. 2 \notin 1..Len(todo)
      BY <1>4, <1>6, <1>7, <2>1, <2>3
    <3>2. next = {}
      BY <2>1, <3>1
    <3> HIDE DEF next
    <3> QED  BY <2>3, <3>2
  <2> QED  BY <2>2, <2>3
<1> HIDE DEF next
<1>9. /\ DOMAIN dest' = DOMAIN dest \cup next
      /\ \A g \in DOMAIN dest : dest'[g] = dest[g]
      /\ \A g \in DOMAIN dest' : g \notin DOMAIN dest => dest'[g] = << >>
  BY <1>3
<1>10. DOMAIN dest' = {order[i] : i \in {i \in 1..FileCount : i <= k + 1}}
  <2>1. \A i \in 1..FileCount : i <= k + 1 <=> i <= k \/ i = k + 1
    BY <1>4, <1>6
  <2> QED  BY <1>7, <1>8, <1>9, <2>1
<1>11. DOMAIN dest' \in SUBSET File /\ dest' \in [DOMAIN dest' -> Seq(Bytes)]
  <2>1. DOMAIN dest' \in SUBSET File
    BY <1>6, <1>10
  <2>2. << >> \in Seq(Bytes)
    OBVIOUS
  <2>3. \A g \in DOMAIN dest' : dest'[g] \in Seq(Bytes)
    BY <1>5, <1>9, <2>2
  <2>4. dest' = [g \in DOMAIN dest' |-> dest'[g]]
    BY <1>3, <1>9
  <2> QED  BY <2>1, <2>3, <2>4
<1>12. Parts(order, dest') = Parts(order, dest)
  <2>1. \A i \in DOMAIN order : (IF order[i] \in DOMAIN dest' THEN dest'[order[i]] ELSE << >>)
                                = (IF order[i] \in DOMAIN dest THEN dest[order[i]] ELSE << >>)
    BY <1>9
  <2> QED  BY <2>1 DEF Parts
<1>13. Tail(todo) \in Seq(File) /\ Len(Tail(todo)) = Len(todo) - 1
       /\ \A j \in 1..(Len(todo) - 1) : Tail(todo)[j] = todo[j + 1]
  BY <1>1, <1>5
<1>14. CopyingAt(order, k + 1, todo', dest', checksum', moments')
  <2>1. Len(todo) \in Nat /\ Len(todo') = FileCount + 1 - (k + 1)
    BY <1>3, <1>4, <1>5, <1>6, <1>7, <1>13
  <2>2. \A j \in 1..Len(todo') : todo'[j] = order[(k + 1) - 1 + j]
    <3> SUFFICES ASSUME NEW j \in 1..Len(todo') PROVE todo'[j] = order[(k + 1) - 1 + j]
      OBVIOUS
    <3>1. j \in 1..(Len(todo) - 1) /\ j + 1 \in 1..Len(todo) /\ k - 1 + (j + 1) = (k + 1) - 1 + j
      BY <1>3, <1>4, <1>6, <1>13, <2>1
    <3> QED  BY <1>3, <1>7, <1>13, <3>1
  <2>3. ASSUME NEW m \in moments, moments = {m}
        PROVE  /\ \A i \in 1..((k + 1) - 1) : dest'[order[i]] = m[order[i]]
               /\ (k + 1) <= FileCount =>
                     /\ Len(dest'[order[k + 1]]) <= Len(m[order[k + 1]])
                     /\ \A j \in 1..Len(dest'[order[k + 1]]) : dest'[order[k + 1]][j] = m[order[k + 1]][j]
    <3>1. m = db
      BY <1>5, <2>3
    <3>2. /\ \A i \in 1..(k - 1) : dest[order[i]] = m[order[i]]
          /\ Len(dest[f]) <= Len(m[f]) /\ \A j \in 1..Len(dest[f]) : dest[f][j] = m[f][j]
      <4>1. k <= FileCount
        BY <1>4, <1>6
      <4> QED  BY <1>4, <2>3, <4>1 DEF CopyingAt
    <3>3. dest[f] = m[f]
      <4> DEFINE a == dest[f]
                 c == db[f]
      <4>1. a \in Seq(Bytes) /\ c \in Seq(0..version)
        BY <1>4, <1>5
      <4>2. Len(a) \in Nat /\ Len(c) \in Nat /\ Len(a) >= Len(c) /\ Len(a) <= Len(c) /\ \A j \in 1..Len(a) : a[j] = c[j]
        BY <1>3, <3>1, <3>2, <4>1
      <4> HIDE DEF a, c
      <4>3. Len(a) = Len(c)
        BY <4>2
      <4>4. a = [j \in 1..Len(a) |-> a[j]] /\ c = [j \in 1..Len(c) |-> c[j]]
        BY <4>1
      <4>5. a = c
        BY <4>2, <4>3, <4>4
      <4> QED  BY <3>1, <4>5 DEF a, c
    <3>4. \A i \in 1..k : dest'[order[i]] = m[order[i]]
      <4> SUFFICES ASSUME NEW i \in 1..k PROVE dest'[order[i]] = m[order[i]]
        OBVIOUS
      <4>1. i \in 1..FileCount /\ i <= k /\ (i = k \/ i \in 1..(k - 1))
        BY <1>4, <1>6
      <4>2. order[i] \in DOMAIN dest
        BY <1>4, <4>1
      <4> QED  BY <1>9, <3>2, <3>3, <4>1, <4>2
    <3>5. ASSUME k + 1 <= FileCount
          PROVE  /\ Len(dest'[order[k + 1]]) <= Len(m[order[k + 1]])
                 /\ \A j \in 1..Len(dest'[order[k + 1]]) : dest'[order[k + 1]][j] = m[order[k + 1]][j]
      <4>1. k + 1 \in 1..FileCount /\ ~ (k + 1 <= k)
        BY <1>4, <1>6, <3>5
      <4>2. order[k + 1] \notin DOMAIN dest /\ order[k + 1] \in DOMAIN dest' /\ order[k + 1] \in File
        BY <1>4, <1>6, <1>8, <1>9, <4>1
      <4>3. dest'[order[k + 1]] = << >>
        BY <1>9, <4>2
      <4>4. Len(db[order[k + 1]]) \in Nat
        BY <1>5, <4>2
      <4> QED  BY <3>1, <4>3, <4>4
    <3>6. (k + 1) - 1 = k
      BY <1>4, <1>6
    <3> QED  BY <3>4, <3>5, <3>6
  <2> QED  BY <1>3, <1>7, <1>10, <1>12, <2>1, <2>2, <2>3 DEF CopyingAt
<1>15. FromMoments(dest', moments')
  <2>0. moments' = moments
    BY <1>3
  <2> SUFFICES ASSUME NEW g \in DOMAIN dest', NEW i \in DOMAIN dest'[g]
               PROVE  \E m \in moments : i \in DOMAIN m[g] /\ m[g][i] = dest'[g][i]
    BY <2>0 DEF FromMoments
  <2>1. CASE g \in DOMAIN dest
    <3>1. dest'[g] = dest[g] /\ i \in DOMAIN dest[g]
      BY <1>9, <2>1
    <3> QED  BY <1>5, <2>1, <3>1 DEF FromMoments
  <2>2. CASE g \notin DOMAIN dest
    <3>1. dest'[g] = << >> /\ DOMAIN << >> = {}
      BY <1>9, <2>2
    <3> QED  BY <3>1
  <2> QED  BY <2>1, <2>2
<1>16. \E ord \in Listings, j \in 1..(FileCount + 1) : CopyingAt(ord, j, todo', dest', checksum', moments')
  <2>1. k + 1 \in 1..(FileCount + 1)
    BY <1>4, <1>6
  <2> QED  BY <1>4, <1>14, <2>1
<1>17. /\ todo' \in Seq(File) /\ moments' \in SUBSET [File -> Seq(0..MaxVersions)] /\ IsFiniteSet(moments')
  BY <1>3, <1>13 DEF CopyInv
<1> QED  BY <1>1, <1>3, <1>5, <1>11, <1>15, <1>16, <1>17 DEF CopyInv

\* ... and after the last one the checksum is that of the whole copy.
LEMMA WriteMetaKeeps == ASSUME CopyInv, WriteMeta PROVE CopyInv'
<1>1. /\ phase = "copying" /\ todo = << >> /\ phase' = "done" /\ meta' = << checksum >>
      /\ db' = db /\ version' = version /\ dest' = dest /\ todo' = todo /\ checksum' = checksum
      /\ moments' = moments /\ damaged' = damaged
  BY DEF WriteMeta
<1>2. PICK order \in Listings, k \in 1..(FileCount + 1) : CopyingAt(order, k, todo, dest, checksum, moments)
  BY <1>1 DEF CopyInv
<1>3. k = FileCount + 1
  <2>1. FileCount \in Nat
    BY ListingIs
  <2>2. Len(todo) = FileCount + 1 - k /\ Len(todo) = 0
    BY <1>1, <1>2 DEF CopyingAt
  <2> QED  BY <2>1, <2>2
<1>4. \E ord \in Listings : CopyingAt(ord, FileCount + 1, todo', dest', checksum', moments')
  BY <1>1, <1>2, <1>3
<1> QED  BY <1>1, <1>4 DEF CopyInv, FromMoments

\* A copy that fails leaves what it has without a checksum.
LEMMA FailKeeps == ASSUME CopyInv, Fail PROVE CopyInv'
<1>1. /\ phase = "copying" /\ phase' = "failed"
      /\ db' = db /\ version' = version /\ dest' = dest /\ todo' = todo /\ checksum' = checksum
      /\ moments' = moments /\ damaged' = damaged
  BY DEF Fail
<1> QED  BY <1>1 DEF CopyInv, FromMoments

\* A buffer changed or a file cut short later is not what the checksum is of.
LEMMA DamageKeeps == ASSUME CopyInv, NEW f \in DOMAIN dest, NEW i \in Nat, Damage(f, i) PROVE CopyInv'
<1> DEFINE cut == SubSeq(dest[f], 1, i - 1)
<1>1. /\ phase = "done" /\ ~ damaged /\ damaged' = TRUE /\ i \in DOMAIN dest[f]
      /\ \/ dest' = [dest EXCEPT ![f][i] = MaxVersions + 1]
         \/ dest' = [dest EXCEPT ![f] = cut]
      /\ db' = db /\ version' = version /\ todo' = todo /\ checksum' = checksum /\ meta' = meta
      /\ phase' = phase /\ moments' = moments
  BY DEF Damage
<1>2. PICK order \in Listings : CopyingAt(order, FileCount + 1, todo, dest, checksum, moments)
  BY <1>1 DEF CopyInv
<1>3. DOMAIN dest \in SUBSET File /\ dest \in [DOMAIN dest -> Seq(Bytes)] /\ MaxVersions \in Nat
      /\ dest = [g \in DOMAIN dest |-> dest[g]]
  BY BackupAssumption DEF CopyInv
<1>4. DOMAIN dest = File
  BY <1>2, AllCopied
<1>5. IsFiniteSet(Cells(File, dest)) /\ Len(checksum) = Cardinality(Cells(File, dest))
  <2>1. \A g \in DOMAIN dest : dest[g] \in Seq(Bytes)
    BY <1>3
  <2>2. checksum = FlattenSeq(Parts(order, dest))
    BY <1>2 DEF CopyingAt
  <2> QED  BY <1>4, <2>1, <2>2, WholeCounts
<1> DEFINE old == dest[f]
           n == Len(old)
<1>6. old \in Seq(Bytes) /\ n \in Nat /\ i \in 1..n /\ f \in File
  BY <1>1, <1>3, <1>4
<1>7. ASSUME dest' = [dest EXCEPT ![f][i] = MaxVersions + 1]
      PROVE  DOMAIN dest' = File /\ dest' \in [File -> Seq(Bytes)] /\ Differs(dest', checksum)
  <2> DEFINE new == [old EXCEPT ![i] = MaxVersions + 1]
  <2>1. new \in Seq(Bytes)
    <3>1. MaxVersions + 1 \in Bytes
      BY <1>3 DEF Bytes
    <3> QED  BY <1>6, <3>1, ReplacedIn
  <2>2. new[i] = MaxVersions + 1 /\ i \in 1..Len(new)
    BY <1>6
  <2>3. dest' = [dest EXCEPT ![f] = new]
    BY <1>7
  <2> HIDE DEF new
  <2>4. dest'[f] = new /\ dest' \in [File -> Seq(Bytes)]
    BY <1>3, <1>4, <1>6, <2>1, <2>3
  <2>5. Differs(dest', checksum)
    BY <1>6, <2>2, <2>4 DEF Differs
  <2> QED  BY <2>4, <2>5
<1>8. ASSUME dest' = [dest EXCEPT ![f] = cut]
      PROVE  DOMAIN dest' = File /\ dest' \in [File -> Seq(Bytes)] /\ Differs(dest', checksum)
  <2>1. cut \in Seq(Bytes) /\ Len(cut) = i - 1
    BY <1>6
  <2> HIDE DEF cut
  <2>2. dest'[f] = cut /\ dest' \in [File -> Seq(Bytes)] /\ \A g \in File : g # f => dest'[g] = dest[g]
    BY <1>3, <1>4, <1>6, <1>8, <2>1
  <2>3. \A g \in File : {g} \X (1..Len(dest'[g])) \subseteq {g} \X (1..Len(dest[g]))
    <3> SUFFICES ASSUME NEW g \in File PROVE {g} \X (1..Len(dest'[g])) \subseteq {g} \X (1..Len(dest[g]))
      OBVIOUS
    <3>1. CASE g # f
      BY <2>2, <3>1
    <3>2. CASE g = f
      <4>1. Len(dest'[g]) = i - 1 /\ Len(dest[g]) = n
        BY <2>1, <2>2, <3>2
      <4>2. 1..(i - 1) \subseteq 1..n
        BY <1>6
      <4> QED  BY <4>1, <4>2
    <3> QED  BY <3>1, <3>2
  <2> DEFINE less == Cells(File, dest')
             all == Cells(File, dest)
  <2>4. less \in SUBSET all
    BY <2>3 DEF Cells
  <2>5. << f, i >> \in all
    BY <1>6 DEF Cells
  <2>6. << f, i >> \notin less
    <3> SUFFICES ASSUME << f, i >> \in less PROVE FALSE
      OBVIOUS
    <3>1. PICK g \in File : << f, i >> \in {g} \X (1..Len(dest'[g]))
      BY DEF Cells
    <3>2. g = f /\ i \in 1..Len(dest'[f])
      BY <3>1
    <3>3. i \in 1..(i - 1)
      BY <2>1, <2>2, <3>2
    <3> QED  BY <1>6, <3>3
  <2> HIDE DEF less, all
  <2>7. IsFiniteSet(all) /\ Len(checksum) = Cardinality(all)
    BY <1>5 DEF all
  <2>8. /\ IsFiniteSet(less) /\ Cardinality(less) <= Cardinality(all)
        /\ Cardinality(all) = Cardinality(less) => all = less
    BY <2>4, <2>7, FS_Subset
  <2>9. Cardinality(less) \in Nat /\ Cardinality(all) \in Nat
    BY <2>7, <2>8, FS_CardinalityType
  <2>10. Cardinality(less) < Len(checksum)
    BY <2>5, <2>6, <2>7, <2>8, <2>9
  <2> QED  BY <2>2, <2>10 DEF Differs, less
<1>9. DOMAIN dest' = File /\ dest' \in [DOMAIN dest' -> Seq(Bytes)] /\ Differs(dest', checksum')
  BY <1>1, <1>7, <1>8
<1> QED  BY <1>1, <1>9 DEF CopyInv

-----------------------------------------------------------------------------
\* Nothing is kept at first.
LEMMA EarlierBegins == BackupInit => EarlierInv
<1> SUFFICES ASSUME BackupInit PROVE EarlierInv
  OBVIOUS
<1>1. /\ db = [f \in File |-> << 0, 0 >>] /\ version = 0 /\ places = << >>
      /\ dest = << >> /\ former = << >> /\ meta = << >> /\ phase = "idle"
  BY DEF BackupInit
<1>2. DOMAIN former = {} /\ former \in [DOMAIN former -> Seq(Bytes)] /\ DOMAIN dest = {}
  <2>1. << >> \in [{} -> Seq(Bytes)] /\ DOMAIN << >> = {}
    OBVIOUS
  <2> QED  BY <1>1, <2>1
<1>3. places \in Seq(File \X Nat) /\ Len(places) = version
  BY <1>1
<1>4. Placed(db, places)
  <2> SUFFICES ASSUME NEW f \in File, NEW i \in 1..Len(<< 0, 0 >>) PROVE PlacedAt(<< 0, 0 >>[i], f, i, places)
    BY <1>1 DEF Placed
  <2>1. i \in 1..2 /\ << 0, 0 >>[i] = 0
    OBVIOUS
  <2> QED  BY <2>1 DEF PlacedAt
<1>5. Placed(dest, places) /\ Placed(former, places)
  BY <1>1, <1>2 DEF Placed
<1>6. \A f \in File : Len(db[f]) >= 2
  BY <1>1
<1> QED  BY <1>1, <1>2, <1>3, <1>4, <1>5, <1>6 DEF EarlierInv

\* A write more leaves the others where they are.
LEMMA PlacedGrows ==
    ASSUME NEW ps \in Seq(File \X Nat), NEW x \in File \X Nat, NEW d, Placed(d, ps)
    PROVE  Placed(d, Append(ps, x))
<1>1. Len(ps) \in Nat /\ Len(Append(ps, x)) = Len(ps) + 1 /\ \A v \in 1..Len(ps) : Append(ps, x)[v] = ps[v]
  BY AppendProperties, LenProperties
<1> SUFFICES ASSUME NEW f \in DOMAIN d, NEW i \in 1..Len(d[f]) PROVE PlacedAt(d[f][i], f, i, Append(ps, x))
  BY DEF Placed
<1>2. PlacedAt(d[f][i], f, i, ps)
  BY DEF Placed
<1>3. \A v : v \in 1..Len(ps) => v \in 1..Len(Append(ps, x))
  BY <1>1
<1> QED  BY <1>1, <1>2, <1>3 DEF PlacedAt

\* A writer puts the content of its write where it says.
LEMMA WriteFileRecords ==
    ASSUME CopyInv, EarlierInv, NEW f \in File, NEW i \in Nat, WriteFile(f, i) PROVE EarlierInv'
<1> DEFINE old == db[f]
           top == version + 1
           new == IF i > Len(old) THEN Append(old, top) ELSE [old EXCEPT ![i] = top]
           ps == Append(places, << f, i >>)
<1>1. /\ i \in 1..(Len(old) + 1) /\ version' = top /\ places' = ps /\ db' = [db EXCEPT ![f] = new]
      /\ dest' = dest /\ former' = former /\ todo' = todo /\ meta' = meta /\ phase' = phase /\ complete' = complete
  BY DEF WriteFile
<1>2. /\ version \in Nat /\ db \in [File -> Seq(0..version)] /\ old \in Seq(0..version) /\ Len(old) \in Nat /\ Len(old) >= 2
      /\ places \in Seq(File \X Nat) /\ Len(places) = version /\ << f, i >> \in File \X Nat
      /\ Placed(db, places) /\ Placed(dest, places) /\ Placed(former, places)
  <2>1. version \in Nat /\ db \in [File -> Seq(0..version)]
    BY BackupAssumption DEF CopyInv
  <2>2. old \in Seq(0..version)
    BY <2>1
  <2> HIDE DEF old
  <2>3. Len(old) \in Nat
    BY <2>2, LenProperties
  <2>4. /\ Len(old) >= 2 /\ places \in Seq(File \X Nat) /\ Len(places) = version
        /\ Placed(db, places) /\ Placed(dest, places) /\ Placed(former, places)
    BY DEF EarlierInv, old
  <2> QED  BY <2>1, <2>2, <2>3, <2>4
<1>3. ps \in Seq(File \X Nat) /\ Len(ps) = top /\ ps[top] = << f, i >>
  BY <1>2, AppendProperties
<1>4. Placed(db, ps) /\ Placed(dest, ps) /\ Placed(former, ps) /\ (Placed(complete, places) => Placed(complete, ps))
  BY <1>2, PlacedGrows
<1> HIDE DEF ps
<1>5. Len(new) \in Nat /\ Len(new) >= 2 /\ \A k \in 1..Len(new) : IF k = i THEN new[k] = top ELSE k \in 1..Len(old) /\ new[k] = old[k]
  <2>1. CASE i > Len(old)
    <3>1. new = Append(old, top) /\ i = Len(old) + 1
      BY <1>1, <1>2, <2>1
    <3>0. old \in Seq(Nat) /\ top \in Nat
      <4>1. 0..version \subseteq Nat
        BY <1>2
      <4> QED  BY <1>2, <4>1, SeqWiden
    <3> HIDE DEF new, top, old
    <3>2. /\ Len(new) = Len(old) + 1 /\ new[Len(old) + 1] = top
          /\ \A k \in 1..Len(old) : new[k] = old[k]
      BY <3>0, <3>1, AppendProperties
    <3> QED  BY <1>2, <3>1, <3>2
  <2>2. CASE ~ (i > Len(old))
    <3>1. new = [old EXCEPT ![i] = top] /\ i \in 1..Len(old)
      BY <1>1, <1>2, <2>2
    <3> HIDE DEF new, top
    <3>2. Len(new) = Len(old) /\ \A k \in 1..Len(old) : new[k] = IF k = i THEN top ELSE old[k]
      BY <1>2, <3>1
    <3> QED  BY <1>2, <3>1, <3>2
  <2> QED  BY <2>1, <2>2
<1> HIDE DEF new
<1>6. DOMAIN db' = File /\ db'[f] = new /\ \A g \in File : g # f => db'[g] = db[g]
  BY <1>1, <1>2
<1>7. Placed(db', ps)
  <2> SUFFICES ASSUME NEW g \in File, NEW k \in 1..Len(db'[g]) PROVE PlacedAt(db'[g][k], g, k, ps)
    BY <1>6 DEF Placed
  <2>1. CASE g = f /\ k = i
    <3>1. db'[g][k] = top /\ top \in 1..Len(ps) /\ ps[top] = << g, k >>
      BY <1>2, <1>3, <1>5, <1>6, <2>1
    <3> HIDE DEF top
    <3> QED  BY <3>1 DEF PlacedAt
  <2>2. CASE g = f /\ k # i
    <3>1. db'[g][k] = db[g][k] /\ k \in 1..Len(db[g])
      BY <1>5, <1>6, <2>2
    <3> QED  BY <1>2, <1>4, <3>1 DEF Placed
  <2>3. CASE g # f
    BY <1>2, <1>4, <1>6, <2>3 DEF Placed
  <2> QED  BY <2>1, <2>2, <2>3
<1>8. \A g \in File : Len(db'[g]) >= 2
  BY <1>5, <1>6 DEF EarlierInv
<1>9. meta' # << >> => CompleteIs' /\ DOMAIN dest' \cup DOMAIN former' = File
  BY <1>1, <1>4 DEF EarlierInv, CompleteIs
<1>10. phase' = "copying" => \A g \in DOMAIN dest' : Len(dest'[g]) >= 2 \/ (todo' # << >> /\ g = Head(todo'))
  BY <1>1 DEF EarlierInv
<1>11. DOMAIN former' \in SUBSET File /\ former' \in [DOMAIN former' -> Seq(Bytes)]
  BY <1>1 DEF EarlierInv
<1> QED  BY <1>1, <1>3, <1>4, <1>7, <1>8, <1>9, <1>10, <1>11 DEF EarlierInv

\* What is in the directory when a backup begins stays until it is replaced, ...
LEMMA BeginRecords == ASSUME CopyInv, EarlierInv, NEW order \in Listings, BeginBackup(order) PROVE EarlierInv'
<1>1. /\ phase' = "copying" /\ todo' = order /\ former' = Directory /\ dest' = [f \in {order[1]} |-> << >>]
      /\ db' = db /\ version' = version /\ meta' = meta /\ places' = places /\ complete' = complete
  BY DEF BeginBackup
<1>2. /\ DOMAIN Directory = DOMAIN dest \cup DOMAIN former /\ DOMAIN Directory \in SUBSET File
      /\ Directory \in [DOMAIN Directory -> Seq(Bytes)] /\ Placed(Directory, places)
  BY DirectoryType
<1>3. order[1] \in File /\ order # << >> /\ Head(order) = order[1]
  <2>1. FileCount \in Nat /\ FileCount # 0 /\ order \in Seq(File) /\ Len(order) = FileCount
        /\ \A i \in 1..FileCount : order[i] \in File
    BY ListingIs
  <2> QED  BY <2>1
<1>4. DOMAIN dest' = {order[1]} /\ \A f \in DOMAIN dest' : dest'[f] = << >>
  BY <1>1
<1>5. Placed(dest', places)
  <2>1. \A f \in DOMAIN dest' : 1..Len(dest'[f]) = {}
    BY <1>4
  <2> QED  BY <2>1 DEF Placed
<1>6. \A f \in DOMAIN dest' : todo' # << >> /\ f = Head(todo')
  BY <1>1, <1>3, <1>4
<1>7. meta' # << >> => CompleteIs' /\ DOMAIN dest' \cup DOMAIN former' = File
  BY <1>1, <1>2, <1>3, <1>4 DEF EarlierInv, CompleteIs
<1> QED  BY <1>1, <1>2, <1>5, <1>6, <1>7 DEF EarlierInv

\* ... what is copied is where it was written, ...
LEMMA CopyBufferRecords == ASSUME CopyInv, EarlierInv, CopyBuffer PROVE EarlierInv'
<1>1. phase = "copying" /\ todo # << >>
  BY DEF CopyBuffer
<1>2. PICK order, k : AtWork(order, k)
  BY <1>1, AtWorkIs
<1> DEFINE f == Head(todo)
           old == dest[f]
           n == Len(old) + 1
           b == db[f][n]
<1>3. /\ n <= Len(db[f]) /\ dest' = [dest EXCEPT ![f] = Append(@, b)]
      /\ db' = db /\ version' = version /\ todo' = todo /\ meta' = meta /\ phase' = phase
      /\ former' = former /\ places' = places /\ complete' = complete
  BY DEF CopyBuffer
<1>4. f \in DOMAIN dest /\ f \in File
  BY <1>2 DEF AtWork
<1>5. /\ version \in 0..MaxVersions /\ db \in [File -> Seq(0..version)]
      /\ dest \in [DOMAIN dest -> Seq(Bytes)] /\ Placed(db, places) /\ Placed(dest, places)
  BY DEF CopyInv, EarlierInv
<1>6. old \in Seq(Bytes) /\ Len(old) \in Nat /\ n \in 1..Len(db[f]) /\ b \in Bytes
  <2>1. old \in Seq(Bytes) /\ db[f] \in Seq(0..version)
    BY <1>4, <1>5
  <2>2. Len(old) \in Nat /\ Len(db[f]) \in Nat
    BY <2>1, LenProperties
  <2>3. n \in 1..Len(db[f])
    BY <1>3, <2>2
  <2>4. b \in 0..version
    BY <2>1, <2>3, ElementOfSeq
  <2>5. version \in 0..MaxVersions /\ MaxVersions \in Nat
    BY <1>5, BackupAssumption
  <2> HIDE DEF b, n, old
  <2> QED  BY <2>1, <2>2, <2>3, <2>4, <2>5 DEF Bytes
<1>7. PlacedAt(b, f, n, places)
  BY <1>4, <1>5, <1>6 DEF Placed
<1> HIDE DEF b
<1> DEFINE new == Append(old, b)
<1>8. Len(new) = Len(old) + 1 /\ new[n] = b /\ \A j \in 1..Len(old) : new[j] = old[j]
  <2> HIDE DEF old
  <2> QED  BY <1>6, AppendProperties
<1> HIDE DEF new
<1>9. DOMAIN dest' = DOMAIN dest /\ dest'[f] = new /\ \A g \in DOMAIN dest : g # f => dest'[g] = dest[g]
  BY <1>3, <1>4, <1>5 DEF new
<1>10. Placed(dest', places)
  <2> SUFFICES ASSUME NEW g \in DOMAIN dest, NEW j \in 1..Len(dest'[g]) PROVE PlacedAt(dest'[g][j], g, j, places)
    BY <1>9 DEF Placed
  <2>1. CASE g = f /\ j = n
    BY <1>7, <1>8, <1>9, <2>1
  <2>2. CASE g = f /\ j # n
    <3>1. j \in 1..Len(old)
      BY <1>6, <1>8, <1>9, <2>2
    <3> QED  BY <1>5, <1>8, <1>9, <2>2, <3>1 DEF Placed
  <2>3. CASE g # f
    BY <1>5, <1>9, <2>3 DEF Placed
  <2> QED  BY <2>1, <2>2, <2>3
<1>11. \A g \in DOMAIN dest' : Len(dest'[g]) >= 2 \/ (todo' # << >> /\ g = Head(todo'))
  BY <1>1, <1>3, <1>9 DEF EarlierInv
<1>12. meta' # << >> => CompleteIs' /\ DOMAIN dest' \cup DOMAIN former' = File
  BY <1>3, <1>9 DEF EarlierInv, CompleteIs
<1> QED  BY <1>3, <1>10, <1>11, <1>12 DEF EarlierInv

\* ... a file that is done has the buffers every file began with at least, ...
LEMMA FileDoneRecords == ASSUME CopyInv, EarlierInv, FileDone PROVE EarlierInv'
<1>1. phase = "copying" /\ todo # << >>
  BY DEF FileDone
<1>2. PICK order, k : AtWork(order, k)
  BY <1>1, AtWorkIs
<1> DEFINE f == Head(todo)
           next == {todo[i] : i \in {2} \cap DOMAIN todo}
<1>3. /\ Len(dest[f]) >= Len(db[f]) /\ todo' = Tail(todo)
      /\ dest' = [g \in DOMAIN dest \cup next |-> IF g \in DOMAIN dest THEN dest[g] ELSE << >>]
      /\ db' = db /\ version' = version /\ meta' = meta /\ phase' = phase
      /\ former' = former /\ places' = places /\ complete' = complete
  BY DEF FileDone
<1>4. f \in DOMAIN dest /\ f \in File
  BY <1>2 DEF AtWork
<1>5. todo \in Seq(File) /\ Len(todo) \in Nat /\ dest \in [DOMAIN dest -> Seq(Bytes)] /\ DOMAIN dest \in SUBSET File
  BY LenProperties DEF CopyInv
<1>6. \A g \in next : g \in File /\ Tail(todo) # << >> /\ g = Head(Tail(todo))
  <2> SUFFICES ASSUME NEW g \in next PROVE g \in File /\ Tail(todo) # << >> /\ g = Head(Tail(todo))
    OBVIOUS
  <2>1. 2 \in 1..Len(todo) /\ g = todo[2]
    BY <1>5
  <2>2. Len(Tail(todo)) = Len(todo) - 1 /\ Tail(todo) \in Seq(File) /\ Tail(todo)[1] = todo[2]
    BY <1>1, <1>5, <2>1
  <2>3. g \in File
    BY <1>5, <2>1
  <2> DEFINE t == Tail(todo)
  <2>4. t \in Seq(File) /\ Len(t) >= 1 /\ t[1] = g
    BY <1>5, <2>1, <2>2
  <2> HIDE DEF next, t
  <2>5. t # << >> /\ Head(t) = t[1]
    BY <2>4
  <2> QED  BY <2>3, <2>4, <2>5 DEF t
<1> HIDE DEF next
<1>7. /\ DOMAIN dest' = DOMAIN dest \cup next
      /\ \A g \in DOMAIN dest : dest'[g] = dest[g]
      /\ \A g \in DOMAIN dest' : g \notin DOMAIN dest => g \in next /\ dest'[g] = << >>
  BY <1>3
<1>8. Placed(dest', places)
  <2> SUFFICES ASSUME NEW g \in DOMAIN dest', NEW j \in 1..Len(dest'[g]) PROVE PlacedAt(dest'[g][j], g, j, places)
    BY DEF Placed
  <2>1. g \in DOMAIN dest /\ j \in 1..Len(dest[g]) /\ dest'[g] = dest[g]
    <3>1. CASE g \in DOMAIN dest
      BY <1>7, <3>1
    <3>2. CASE g \notin DOMAIN dest
      BY <1>7, <3>2
    <3> QED  BY <3>1, <3>2
  <2> QED  BY <2>1 DEF EarlierInv, Placed
<1>9. \A g \in DOMAIN dest' : Len(dest'[g]) >= 2 \/ (todo' # << >> /\ g = Head(todo'))
  <2> SUFFICES ASSUME NEW g \in DOMAIN dest' PROVE Len(dest'[g]) >= 2 \/ (Tail(todo) # << >> /\ g = Head(Tail(todo)))
    BY <1>3
  <2>1. CASE g \notin DOMAIN dest
    BY <1>6, <1>7, <2>1
  <2>2. CASE g \in DOMAIN dest /\ g = f
    <3>1. Len(db[f]) >= 2
      BY <1>4 DEF EarlierInv
    <3>2. Len(db[f]) \in Nat /\ Len(dest[f]) \in Nat
      <4>1. db[f] \in Seq(0..version) /\ dest[f] \in Seq(Bytes)
        BY <1>4, <1>5 DEF CopyInv
      <4> QED  BY <4>1, LenProperties
    <3> QED  BY <1>3, <1>7, <2>2, <3>1, <3>2
  <2>3. CASE g \in DOMAIN dest /\ g # f
    BY <1>1, <1>7, <2>3 DEF EarlierInv
  <2> QED  BY <2>1, <2>2, <2>3
<1>10. meta' # << >> => CompleteIs' /\ DOMAIN dest' \cup DOMAIN former' = File
  <2>1. DOMAIN dest' \in SUBSET File
    BY <1>5, <1>6, <1>7
  <2> QED  BY <1>3, <1>7, <2>1 DEF EarlierInv, CompleteIs
<1> QED  BY <1>3, <1>8, <1>9, <1>10 DEF EarlierInv

\* ... and the metadata is of the whole copy.
LEMMA WriteMetaRecords == ASSUME CopyInv, EarlierInv, WriteMeta PROVE EarlierInv'
<1>1. /\ phase = "copying" /\ todo = << >> /\ phase' = "done" /\ meta' = << checksum >> /\ complete' = dest
      /\ db' = db /\ version' = version /\ dest' = dest /\ todo' = todo /\ former' = former /\ places' = places
  BY DEF WriteMeta
<1>2. PICK order \in Listings, k \in 1..(FileCount + 1) : CopyingAt(order, k, todo, dest, checksum, moments)
  BY <1>1 DEF CopyInv
<1>3. CopyingAt(order, FileCount + 1, todo, dest, checksum, moments)
  <2>1. FileCount \in Nat
    BY ListingIs
  <2>2. Len(todo) = FileCount + 1 - k /\ Len(todo) = 0
    BY <1>1, <1>2 DEF CopyingAt
  <2>3. k = FileCount + 1
    BY <2>1, <2>2
  <2> QED  BY <1>2, <2>3
<1>4. DOMAIN dest = File /\ checksum = FlattenSeq(Parts(order, dest)) /\ checksum \in Seq(0..MaxVersions)
  BY <1>3, AllCopied DEF CopyingAt, CopyInv
<1>5. dest \in [File -> Seq(Bytes)] /\ Placed(dest, places) /\ \A f \in File : Len(dest[f]) >= 2
  BY <1>1, <1>4 DEF CopyInv, EarlierInv
<1>6. CompleteIs'
  BY <1>1, <1>4, <1>5 DEF CompleteIs
<1>7. DOMAIN dest' \cup DOMAIN former' = File
  BY <1>1, <1>4 DEF EarlierInv
<1> QED  BY <1>1, <1>6, <1>7 DEF EarlierInv

\* A copy that fails leaves the earlier metadata, or none.
LEMMA FailRecords == ASSUME CopyInv, EarlierInv, Fail PROVE EarlierInv'
<1>1. /\ phase' = "failed" /\ meta' \in {meta, << >>}
      /\ db' = db /\ version' = version /\ dest' = dest /\ todo' = todo /\ former' = former
      /\ places' = places /\ complete' = complete
  BY DEF Fail
<1>2. meta' # << >> => meta' = meta
  BY <1>1
<1>3. meta' # << >> => CompleteIs' /\ DOMAIN dest' \cup DOMAIN former' = File
  BY <1>1, <1>2 DEF EarlierInv, CompleteIs
<1> QED  BY <1>1, <1>3 DEF EarlierInv

\* Damage is no write.
LEMMA DamageRecords == ASSUME CopyInv, EarlierInv, NEW f \in DOMAIN dest, NEW i \in Nat, Damage(f, i) PROVE EarlierInv'
<1> DEFINE old == dest[f]
           cut == SubSeq(old, 1, i - 1)
           hit == [old EXCEPT ![i] = MaxVersions + 1]
<1>1. /\ phase = "done" /\ i \in DOMAIN old
      /\ dest' = [dest EXCEPT ![f] = hit] \/ dest' = [dest EXCEPT ![f] = cut]
      /\ db' = db /\ version' = version /\ todo' = todo /\ meta' = meta /\ phase' = phase
      /\ former' = former /\ places' = places /\ complete' = complete
  BY DEF Damage
<1>2. dest \in [DOMAIN dest -> Seq(Bytes)] /\ Placed(dest, places)
  BY DEF CopyInv, EarlierInv
<1>3. old \in Seq(Bytes) /\ Len(old) \in Nat /\ i \in 1..Len(old)
  <2>1. old \in Seq(Bytes)
    BY <1>2
  <2> QED  BY <1>1, <2>1, LenProperties
<1>4. /\ Len(hit) = Len(old) /\ \A j \in 1..Len(old) : hit[j] = IF j = i THEN MaxVersions + 1 ELSE old[j]
      /\ Len(cut) = i - 1 /\ \A j \in 1..(i - 1) : cut[j] = old[j]
  <2> HIDE DEF old
  <2> QED  BY <1>3
<1>a. \A j \in 1..Len(old) : PlacedAt(old[j], f, j, places)
  BY <1>2 DEF Placed
<1>b. \A new \in {hit, cut} : \A j \in 1..Len(new) : PlacedAt(new[j], f, j, places)
  <2>1. ASSUME NEW j \in 1..Len(hit) PROVE PlacedAt(hit[j], f, j, places)
    <3>1. CASE j = i
      <4>1. hit[j] = MaxVersions + 1
        BY <1>3, <1>4, <3>1
      <4> HIDE DEF hit
      <4> QED  BY <4>1 DEF PlacedAt
    <3>2. CASE j # i
      <4>1. hit[j] = old[j] /\ j \in 1..Len(old)
        BY <1>3, <1>4, <3>2
      <4> QED  BY <1>a, <4>1
    <3> QED  BY <3>1, <3>2
  <2>2. ASSUME NEW j \in 1..Len(cut) PROVE PlacedAt(cut[j], f, j, places)
    <3>1. cut[j] = old[j] /\ j \in 1..Len(old)
      BY <1>3, <1>4
    <3> QED  BY <1>a, <3>1
  <2> QED  BY <2>1, <2>2
<1> HIDE DEF hit, cut
<1>5. PICK new \in {hit, cut} : dest' = [dest EXCEPT ![f] = new]
  BY <1>1
<1>6. DOMAIN dest' = DOMAIN dest /\ dest'[f] = new /\ \A g \in DOMAIN dest : g # f => dest'[g] = dest[g]
  BY <1>2, <1>5
<1>7. Placed(dest', places)
  <2> SUFFICES ASSUME NEW g \in DOMAIN dest, NEW j \in 1..Len(dest'[g]) PROVE PlacedAt(dest'[g][j], g, j, places)
    BY <1>6 DEF Placed
  <2>1. CASE g = f
    BY <1>b, <1>6, <2>1
  <2>2. CASE g # f
    BY <1>2, <1>6, <2>2 DEF Placed
  <2> QED  BY <2>1, <2>2
<1>8. meta' # << >> => CompleteIs' /\ DOMAIN dest' \cup DOMAIN former' = File
  BY <1>1, <1>6 DEF EarlierInv, CompleteIs
<1> QED  BY <1>1, <1>7, <1>8 DEF EarlierInv

LEMMA BackupBegins == BackupInit => BackupInv
BY CopyBegins, EarlierBegins DEF BackupInv

\* Every step keeps the invariant.
LEMMA BackupKeeps == BackupInv /\ [BackupNext]_backup_vars => BackupInv'
<1> SUFFICES ASSUME CopyInv, EarlierInv, [BackupNext]_backup_vars PROVE CopyInv' /\ EarlierInv'
  BY DEF BackupInv
<1>1. \A i \in 1..(MaxVersions + 2) : i \in Nat
  BY BackupAssumption
<1>2. CASE UNCHANGED backup_vars
  <2>1. /\ db' = db /\ version' = version /\ dest' = dest /\ former' = former /\ todo' = todo /\ meta' = meta
        /\ phase' = phase /\ places' = places /\ complete' = complete
    BY <1>2 DEF backup_vars
  <2>2. meta' # << >> => CompleteIs' /\ DOMAIN dest' \cup DOMAIN former' = File
    BY <2>1 DEF EarlierInv, CompleteIs
  <2>3. EarlierInv'
    BY <2>1, <2>2 DEF EarlierInv
  <2>4. CopyInv'
    BY <1>2 DEF backup_vars, CopyInv, FromMoments, Differs
  <2> QED  BY <2>3, <2>4
<1> QED  BY <1>1, <1>2, CopyBufferKeeps, FileDoneKeeps, WriteMetaKeeps, FailKeeps, BeginKeeps, WriteFileKeeps,
            DamageKeeps, CopyBufferRecords, FileDoneRecords, WriteMetaRecords, FailRecords, BeginRecords,
            WriteFileRecords, DamageRecords, Zenon DEF BackupNext

-----------------------------------------------------------------------------
(* History as a whole. *)

\* The four parts share no state.
HistInv == PitrInv /\ SaveInv /\ BackupInv /\ CatalogInv

\* Time-travel reads at or after the cutoff of the collector give what was
\* committed by then; rolling back to a savepoint only takes writes back, and a
\* savepoint inside another is one of fewer writes taken back; a finished backup
\* is of what the files held while it ran, damage to it is found and a failed
\* one verifies only where it left the copy of an earlier one as it was; and a
\* dropped table leaves no index behind.  So it is for every number of keys,
\* files, tables and columns.
THEOREM HistoryIsSafe == SumSpec => []HistorySafe
<1>1. SumInit => HistInv
  BY PitrBegins, SaveBegins, BackupBegins, CatalogBegins DEF SumInit, HistInv
<1>2. HistInv /\ [SumNext]_<<part, tm_vars, save_vars, pitr_vars, backup_vars, catalog_vars>> => HistInv'
  <2> SUFFICES ASSUME HistInv, [SumNext]_<<part, tm_vars, save_vars, pitr_vars, backup_vars, catalog_vars>>
               PROVE  HistInv'
    OBVIOUS
  <2>1. [PitrNext]_pitr_vars /\ [SaveNext]_save_vars /\ [BackupNext]_backup_vars /\ [CatalogNext]_catalog_vars
    BY DEF SumNext
  <2> QED  BY <2>1, PitrKeeps, SaveKeeps, BackupKeeps, CatalogKeeps DEF HistInv
<1>3. HistInv => HistorySafe
  BY PitrIsSafe, SaveIsSafe, BackupIsSafe, CatalogIsSafe DEF HistInv, HistorySafe
<1> QED  BY <1>1, <1>2, <1>3, PTL DEF SumSpec
===============================================================================
