-------------------------- MODULE ConcurrentTMProofs --------------------------
(***************************************************************************)
(* Proofs about ConcurrentTM, for every set of threads and keys and every  *)
(* bound on the number of transactions.  Calls overlap freely, collections *)
(* included; no thread commits or writes in another one's transaction,     *)
(* Disciplined below.  What the two races of run_gc break is stated for    *)
(* the behaviours that met neither, and a collector that does not run      *)
(* while calls overlap, Serial below, meets neither.                       *)
(***************************************************************************)
EXTENDS ConcurrentTM, SequenceTheorems, FiniteSetTheorems, WellFoundedInduction, TLAPS

\* What the modes of a behaviour promise: only the thread that began a
\* transaction writes in it and commits it.
Disciplined == \A m \in Mode : m.shared # "all"

\* Modes in which no collection overlaps a call: when calls overlap nobody calls
\* run_gc, and the commits of a behaviour do not make the collector due.
Serial == \A m \in Mode : m.overlap => ~m.run_gc /\ m.gc_interval > MaxTxn

\* The modes the run of the manager explores are disciplined.
LEMMA AllModesDisciplined == ASSUME Mode = AllModes PROVE Disciplined
BY DEF Disciplined, AllModes, NotCollecting, SerialCollecting, ForeignAborts,
       OverlapCollecting

-----------------------------------------------------------------------------
(* The inductive invariant. *)

\* Where a thread is in its call.
CommitLabels == {"validate", "abort", "allocate", "mark", "publish_ts",
                 "publish", "notify", "count"}
PendingLabels == {"validate", "abort", "allocate", "mark"}
LockLabels == {"allocate", "mark", "publish_ts", "publish"}
StampedLabels == {"mark", "publish_ts", "publish"}
MarkedLabels == {"publish_ts", "publish", "notify", "count"}
GcLabels == {"gc_min", "gc_scan", "gc_remove", "gc_ts", "gc_txns", "gc_reset"}
BoundLabels == {"gc_scan", "gc_remove", "gc_ts", "gc_txns"}

\* What TypeOK says, but for the bound of the counter, and the types of the
\* ghosts.
Entry == [txn : 1..MaxTxn, read_ts : Nat, commit_ts : Nat, write_set : SUBSET Key]

Types == /\ mode \in Mode
         /\ oracle \in Nat \ {0}
         /\ next_txn_id \in 1..(MaxTxn + 1)
         /\ DOMAIN txns \subseteq 1..(next_txn_id - 1)
         /\ txns \in [DOMAIN txns -> Transaction]
         /\ committed_ts \subseteq Nat
         /\ latest_writes \in [Key -> Nat]
         /\ commits_since_gc \in Nat
         /\ lw_lock \in Thread \cup {None}
         /\ pc \in [Thread -> Labels]
         /\ loc \in [Thread -> Locals]
         /\ owner \in [1..MaxTxn -> Thread \cup {None}]
         /\ history \subseteq Entry
         /\ reclaimed \subseteq Key \X Nat
         /\ overtaken \in BOOLEAN

\* The mode keeps the discipline; one call at a time unless calls overlap; the
\* lock belongs to the commit that validated and has not published.
Scheduled ==
    /\ mode.shared # "all"
    /\ \A p, q \in Thread :
          ~mode.overlap /\ pc[p] # "idle" /\ pc[q] # "idle" => p = q
    /\ \A p \in Thread : pc[p] \in LockLabels <=> lw_lock = p

\* A call works on a transaction its thread began, and what it read of it is
\* still so until the transaction is marked.
Identified ==
    \A p \in Thread :
        /\ pc[p] = "insert" \/ pc[p] \in CommitLabels
           => /\ loc[p].txn \in 1..(next_txn_id - 1)
              /\ owner[loc[p].txn] = p
        /\ pc[p] = "insert" => loc[p].txn \notin DOMAIN txns
        /\ pc[p] \in PendingLabels /\ loc[p].txn \in DOMAIN txns
           => /\ txns[loc[p].txn].state # "Committed"
              /\ txns[loc[p].txn].write_set = loc[p].write_set
              /\ txns[loc[p].txn].read_ts = loc[p].read_ts

\* The transactions in the history are those that were marked.
Recorded ==
    /\ \A h \in history :
          /\ h.txn \in 1..(next_txn_id - 1)
          /\ h.txn \in DOMAIN txns => txns[h.txn].state = "Committed"
          /\ \A p \in Thread : pc[p] = "insert" => loc[p].txn # h.txn
          /\ \A p \in Thread :
                pc[p] \in {"publish_ts", "publish"} /\ loc[p].txn = h.txn
                => h.write_set = loc[p].write_set
    /\ \A p \in Thread : pc[p] \in MarkedLabels => \E h \in history : h.txn = loc[p].txn

\* The collector's counter is at most the number of commits that have been
\* counted.
Marked == {h.txn : h \in history}
InFlight == {loc[p].txn : p \in {q \in Thread : pc[q] \in MarkedLabels}}
Counted == commits_since_gc <= Cardinality(Marked \ InFlight)

\* Nothing is later than the oracle ...
Timed == /\ \A x \in DOMAIN txns : txns[x].read_ts <= oracle
         /\ \A k \in Key : latest_writes[k] <= oracle
         /\ \A h \in history : h.commit_ts <= oracle
         /\ \A v \in reclaimed : v[2] >= 1 /\ v[2] <= oracle

TimedCalls ==
    \A p \in Thread : /\ loc[p].read_ts <= oracle
                      /\ loc[p].min_active <= oracle
                      /\ \A v \in loc[p].superseded : v[2] >= 1 /\ v[2] <= oracle

\* ... and while a commit has its timestamp and has not published everything
\* else is earlier.
Stamped ==
    \A p \in Thread : pc[p] \in StampedLabels =>
          /\ loc[p].commit_ts = oracle
          /\ \A k \in Key : latest_writes[k] < oracle
          /\ \A v \in reclaimed : v[2] < oracle
          /\ \A q \in Thread : \A v \in loc[q].superseded : v[2] < oracle

\* A commit that holds the lock has no conflict.
Validated == \A p \in Thread : pc[p] \in {"allocate", "mark"} => ~Conflict(p)

\* latest_writes remembers a committed writer, unless its commit is about to
\* publish, or no snapshot in use is older than it.
Unneeded(c) == /\ \A x \in DOMAIN txns : txns[x].state = "Active" => c <= txns[x].read_ts
               /\ \A p \in Thread : pc[p] = "insert" => c <= loc[p].read_ts

Publishing(h) == \E p \in Thread : pc[p] \in {"publish_ts", "publish"} /\ loc[p].txn = h.txn

Remembered ==
    \A h \in history : \A k \in h.write_set :
        latest_writes[k] >= h.commit_ts \/ Publishing(h) \/ Unneeded(h.commit_ts)

\* The bound the collector works with is below every snapshot in use.
Bounded == \A p \in Thread : pc[p] \in BoundLabels => Unneeded(loc[p].min_active)

\* A superseded version is out of latest_writes, and in one place only.
Disposed ==
    /\ \A v \in reclaimed : latest_writes[v[1]] # v[2]
    /\ \A p \in Thread : pc[p] = "notify" =>
          \A v \in loc[p].superseded : latest_writes[v[1]] # v[2] /\ v \notin reclaimed
    /\ \A p, q \in Thread : p # q /\ pc[p] = "notify" /\ pc[q] = "notify"
          => loc[p].superseded \cap loc[q].superseded = {}

IInv == /\ Types
        /\ Scheduled
        /\ Identified
        /\ Recorded
        /\ Counted
        /\ Timed
        /\ TimedCalls
        /\ Stamped
        /\ Validated
        /\ ~overtaken => Remembered
        /\ ~overtaken => Bounded
        /\ Disposed
        /\ FirstCommitterWins

-----------------------------------------------------------------------------
\* A nonempty set of naturals has a least element.
LEMMA LeastNat ==
    ASSUME NEW T \in SUBSET Nat, T # {}
    PROVE  \E x \in T : \A y \in T : x <= y
<1> DEFINE R == {ss \in Nat \X Nat : ss[1] < ss[2]}
<1>1. IsWellFoundedOn(R, Nat)
  BY NatLessThanWellFounded DEF OpToRel
<1>2. \A x, y \in Nat : x < y => <<x, y>> \in R
  OBVIOUS
<1> HIDE DEF R
<1>3. PICK x \in T : \A y \in T : ~ (<<y, x>> \in R)
  BY <1>1, WFMin, Zenon
<1>4. \A y \in T : x \in Nat /\ y \in Nat /\ ~ (y < x)
  BY <1>2, <1>3
<1>5. \A y \in T : x <= y
  BY <1>4
<1> QED BY <1>5

\* Before any call nothing is recorded, locked or due.
LEMMA InitIInv == ASSUME Disciplined, Init PROVE IInv
<1> USE ConcurrentTMAssumption DEF Init, NoTs
<1>1. mode \in ModeType /\ mode.shared # "all"
  BY DEF Disciplined
<1>2. NoLocals \in Locals
  BY DEF NoLocals, Locals
<1>3. Types
  <2>1. overtaken \in BOOLEAN
    BY Zenon
  <2> QED BY <1>2, <2>1 DEF Types, Labels, Transaction
<1>4. Scheduled
  BY <1>1 DEF Scheduled, LockLabels
<1>5. Identified
  BY DEF Identified, CommitLabels, PendingLabels
<1>6. Recorded
  BY DEF Recorded, MarkedLabels
<1>7. Counted
  <2>1. Marked \ InFlight = {}
    BY DEF Marked
  <2>2. Cardinality(Marked \ InFlight) = 0
    BY <2>1, FS_EmptySet, Zenon
  <2> QED BY <2>2 DEF Counted
<1>8. Timed /\ TimedCalls /\ Stamped
  BY DEF Timed, TimedCalls, Stamped, NoLocals, StampedLabels
<1>9. Validated /\ Remembered /\ Bounded /\ Disposed /\ FirstCommitterWins
  BY DEF Validated, Remembered, Bounded, Disposed, FirstCommitterWins, NoLostUpdate,
         BoundLabels
<1> QED BY <1>3, <1>4, <1>5, <1>6, <1>7, <1>8, <1>9 DEF IInv

-----------------------------------------------------------------------------
(* What every step has in common. *)

\* A step of thread p moves p alone.
Moves(p) == \A q \in Thread \ {p} : pc'[q] = pc[q] /\ loc'[q] = loc[q]

\* The collector's bound is a timestamp, at most every active snapshot and at
\* most the oracle.
LEMMA MinActiveBound ==
    ASSUME Types, Timed
    PROVE  /\ MinActive \in Nat
           /\ MinActive <= oracle
           /\ \A x \in DOMAIN txns :
                 txns[x].state = "Active" => MinActive <= txns[x].read_ts
<1> DEFINE reads == {txns[x].read_ts : x \in {y \in DOMAIN txns : Active(y)}}
<1>1. oracle \in Nat /\ \A x \in DOMAIN txns : txns[x].read_ts \in Nat
  BY DEF Types, Transaction
<1>2. MinActive = IF reads = {} THEN oracle ELSE Min(reads)
  BY DEF MinActive
<1>3. reads \in SUBSET Nat
  BY <1>1
<1>4. \A x \in DOMAIN txns : txns[x].state = "Active" => txns[x].read_ts \in reads
  BY DEF Active
<1>5. \A n \in reads : n <= oracle
  BY DEF Timed
<1> HIDE DEF reads
<1>6. CASE reads = {}
  BY <1>1, <1>2, <1>4, <1>6
<1>7. CASE reads # {}
  <2>1. PICK n \in reads : \A m \in reads : n <= m
    BY <1>3, <1>7, LeastNat
  <2>2. /\ Min(reads) \in reads
        /\ \A m \in reads : Min(reads) <= m
    BY <2>1 DEF Min
  <2> QED BY <1>2, <1>3, <1>4, <1>5, <1>7, <2>2
<1> QED BY <1>6, <1>7

\* A step keeps the types of pc and loc and moves one thread.
LEMMA Stepping ==
    ASSUME Types, Timed, NEW p \in Thread, Step(p) \/ Call(p)
    PROVE  pc' \in [Thread -> Labels] /\ loc' \in [Thread -> Locals] /\ Moves(p)
<1> USE DEF Goto, Moves, Labels
<1>1. NoLocals \in Locals /\ [NoLocals EXCEPT !.caller = "commit"] \in Locals
  <2>1. NoLocals \in Locals
    BY ConcurrentTMAssumption DEF NoLocals, Locals, NoTs
  <2>2. [NoLocals EXCEPT !.caller = "commit"] \in Locals
    BY <2>1 DEF Locals
  <2> QED BY <2>1, <2>2
<1>2. /\ pc \in [Thread -> Labels] /\ loc \in [Thread -> Locals] /\ loc[p] \in Locals
      /\ oracle \in Nat /\ latest_writes \in [Key -> Nat]
  BY DEF Types
<1>3. ASSUME \E r \in Locals : loc' = [loc EXCEPT ![p] = r]
      PROVE  loc' \in [Thread -> Locals] /\ \A q \in Thread \ {p} : loc'[q] = loc[q]
  BY <1>2, <1>3
<1>4. CASE BeginSnapshot(p)
  <2>1. next_txn_id \in 0..MaxTxn
    BY <1>4, ConcurrentTMAssumption DEF BeginSnapshot, Types
  <2>2. [loc[p] EXCEPT !.txn = next_txn_id, !.read_ts = oracle] \in Locals
    BY <1>2, <2>1 DEF Locals
  <2>3. \E r \in Locals : loc' = [loc EXCEPT ![p] = r]
    BY <2>2, <1>4 DEF BeginSnapshot
  <2>4. pc' \in [Thread -> Labels] /\ \A q \in Thread \ {p} : pc'[q] = pc[q]
    BY <1>2, <1>4 DEF BeginSnapshot
  <2> QED BY <1>3, <2>3, <2>4
<1>5. CASE \E x \in DOMAIN txns : CommitRead(p, x)
  <2>1. PICK x \in DOMAIN txns : CommitRead(p, x)
    BY <1>5
  <2>2. x \in 0..MaxTxn /\ txns[x].read_ts \in Nat /\ txns[x].write_set \in SUBSET Key
    BY ConcurrentTMAssumption DEF Types, Transaction
  <2>3. [loc[p] EXCEPT !.txn = x, !.read_ts = txns[x].read_ts,
                       !.write_set = txns[x].write_set] \in Locals
    BY <1>2, <2>2 DEF Locals
  <2>4. \E r \in Locals : loc' = [loc EXCEPT ![p] = r]
    BY <2>3, <2>1 DEF CommitRead
  <2>5. pc' \in [Thread -> Labels] /\ \A q \in Thread \ {p} : pc'[q] = pc[q]
    BY <1>2, <2>1 DEF CommitRead
  <2> QED BY <1>3, <2>4, <2>5
<1>6. CASE BeginInsert(p) \/ CommitAbort(p) \/ CommitLost(p) \/ GcReset(p)
  BY <1>1, <1>2, <1>6 DEF BeginInsert, CommitAbort, CommitLost, GcReset, Return
<1>7. CASE CommitCount(p)
  BY <1>1, <1>2, <1>7 DEF CommitCount, Return
<1>8. CASE GcTxns(p)
  BY <1>1, <1>2, <1>8 DEF GcTxns, Return
<1>9. CASE \/ CommitValidate(p) \/ CommitMark(p) \/ CommitPublishTs(p)
           \/ CommitNotify(p) \/ RunGc(p) \/ GcRemove(p) \/ GcCommittedTs(p)
  BY <1>2, <1>9 DEF CommitValidate, CommitMark, CommitPublishTs, CommitNotify,
                    RunGc, GcRemove, GcCommittedTs
<1>10. CASE \E x \in DOMAIN txns : Abort(p, x) \/ \E k \in Key : RecordWrite(p, x, k)
  BY <1>2, <1>10 DEF Abort, RecordWrite
<1>11. CASE CommitAllocate(p)
  <2>1. [loc[p] EXCEPT !.commit_ts = oracle + 1] \in Locals
    BY <1>2 DEF Locals
  <2>2. \E r \in Locals : loc' = [loc EXCEPT ![p] = r]
    BY <2>1, <1>11 DEF CommitAllocate
  <2>3. pc' \in [Thread -> Labels] /\ \A q \in Thread \ {p} : pc'[q] = pc[q]
    BY <1>2, <1>11 DEF CommitAllocate
  <2> QED BY <1>3, <2>2, <2>3
<1>12. CASE CommitPublish(p)
  <2> DEFINE old == {<<k, latest_writes[k]>> :
                       k \in {w \in loc[p].write_set :
                                latest_writes[w] \in 1..(loc[p].commit_ts - 1)}}
  <2>1. old \in SUBSET (Key \X Nat)
    BY <1>2 DEF Locals
  <2>2. [loc[p] EXCEPT !.superseded = old] \in Locals
    BY <1>2, <2>1 DEF Locals
  <2>3. \E r \in Locals : loc' = [loc EXCEPT ![p] = r]
    BY <2>2, <1>12 DEF CommitPublish
  <2>4. pc' \in [Thread -> Labels] /\ \A q \in Thread \ {p} : pc'[q] = pc[q]
    BY <1>2, <1>12 DEF CommitPublish
  <2> QED BY <1>3, <2>3, <2>4
<1>13. CASE GcMin(p)
  <2>1. [loc[p] EXCEPT !.min_active = MinActive] \in Locals
    BY <1>2, MinActiveBound DEF Locals
  <2>2. \E r \in Locals : loc' = [loc EXCEPT ![p] = r]
    BY <2>1, <1>13 DEF GcMin
  <2>3. pc' \in [Thread -> Labels] /\ \A q \in Thread \ {p} : pc'[q] = pc[q]
    BY <1>2, <1>13 DEF GcMin
  <2> QED BY <1>3, <2>2, <2>3
<1>14. CASE GcScan(p)
  <2> DEFINE old == {k \in Key : latest_writes[k] \in 1..(loc[p].min_active - 1)}
  <2>1. [loc[p] EXCEPT !.keys = old] \in Locals
    BY <1>2 DEF Locals
  <2>2. \E r \in Locals : loc' = [loc EXCEPT ![p] = r]
    BY <2>1, <1>14 DEF GcScan
  <2>3. pc' \in [Thread -> Labels] /\ \A q \in Thread \ {p} : pc'[q] = pc[q]
    BY <1>2, <1>14 DEF GcScan
  <2> QED BY <1>3, <2>2, <2>3
<1> QED BY <1>4, <1>5, <1>6, <1>7, <1>8, <1>9, <1>10, <1>11, <1>12, <1>13, <1>14
        DEF Step, Call

\* A step keeps the types of the transaction table.
LEMMA TableTyped ==
    ASSUME Types, Identified, NEW p \in Thread, Step(p) \/ Call(p)
    PROVE  /\ next_txn_id' \in 1..(MaxTxn + 1)
           /\ DOMAIN txns' \subseteq 1..(next_txn_id' - 1)
           /\ txns' \in [DOMAIN txns' -> Transaction]
           /\ owner' \in [1..MaxTxn -> Thread \cup {None}]
<1>1. /\ MaxTxn \in Nat /\ next_txn_id \in 1..(MaxTxn + 1)
      /\ DOMAIN txns \subseteq 1..(next_txn_id - 1)
      /\ txns \in [DOMAIN txns -> Transaction]
      /\ owner \in [1..MaxTxn -> Thread \cup {None}]
      /\ loc \in [Thread -> Locals]
  BY ConcurrentTMAssumption DEF Types
<1>2. CASE BeginSnapshot(p)
  BY <1>1, <1>2 DEF BeginSnapshot
<1>3. CASE BeginInsert(p)
  <2> DEFINE new == [read_ts |-> loc[p].read_ts, commit_ts |-> NoTs,
                     state |-> "Active", write_set |-> {}]
  <2>1. loc[p].txn \in 1..(next_txn_id - 1) /\ loc[p].read_ts \in Nat
    BY <1>1, <1>3 DEF BeginInsert, Identified, Locals
  <2>2. new \in Transaction
    BY <2>1 DEF Transaction, NoTs
  <2> HIDE DEF new
  <2>3. txns' = [x \in DOMAIN txns \cup {loc[p].txn} |->
                   IF x = loc[p].txn THEN new ELSE txns[x]]
    BY <1>3 DEF BeginInsert, new
  <2>4. UNCHANGED <<next_txn_id, owner>>
    BY <1>3 DEF BeginInsert, ghosts
  <2> QED BY <1>1, <2>1, <2>2, <2>3, <2>4
<1>4. ASSUME NEW x \in DOMAIN txns, NEW ss \in {"Active", "Aborted"},
             txns' = [txns EXCEPT ![x].state = "Aborted"]
      PROVE  DOMAIN txns' = DOMAIN txns /\ txns' \in [DOMAIN txns -> Transaction]
  BY <1>1, <1>4 DEF Transaction
<1>5. CASE CommitAbort(p)
  BY <1>1, <1>4, <1>5 DEF CommitAbort, ghosts
<1>6. CASE \E x \in DOMAIN txns : Abort(p, x)
  BY <1>1, <1>4, <1>6 DEF Abort, ghosts
<1>7. CASE \E x \in DOMAIN txns, k \in Key : RecordWrite(p, x, k)
  <2>1. PICK x \in DOMAIN txns, k \in Key :
           /\ txns' = [txns EXCEPT ![x].write_set = @ \cup {k}]
           /\ UNCHANGED <<next_txn_id, owner>>
    BY <1>7 DEF RecordWrite, ghosts
  <2>2. DOMAIN txns' = DOMAIN txns /\ txns' \in [DOMAIN txns -> Transaction]
    BY <1>1, <2>1 DEF Transaction
  <2> QED BY <1>1, <2>1, <2>2
<1>8. CASE CommitMark(p)
  <2>1. loc[p].commit_ts \in Nat
    BY <1>1 DEF Locals
  <2> DEFINE x == loc[p].txn
             new == [txns[x] EXCEPT !.state = "Committed", !.commit_ts = loc[p].commit_ts]
  <2>2. x \in DOMAIN txns /\ txns' = [txns EXCEPT ![x] = new] /\ UNCHANGED <<next_txn_id, owner>>
    BY <1>8 DEF CommitMark
  <2>3. new \in Transaction
    <3>1. PICK old \in Transaction : old = txns[x]
      BY <1>1, <2>2
    <3>2. new = [old EXCEPT !.state = "Committed", !.commit_ts = loc[p].commit_ts]
      BY <3>1
    <3> HIDE DEF new
    <3> QED BY <2>1, <3>2 DEF Transaction
  <2>4. DOMAIN txns' = DOMAIN txns /\ txns' \in [DOMAIN txns -> Transaction]
    BY <1>1, <2>2, <2>3
  <2> QED BY <1>1, <2>2, <2>4
<1>9. CASE GcTxns(p)
  BY <1>1, <1>9 DEF GcTxns, ghosts
<1>10. CASE UNCHANGED <<next_txn_id, txns, owner>>
  BY <1>1, <1>10
<1>11. CASE \/ CommitPublishTs(p) \/ CommitPublish(p) \/ CommitNotify(p)
            \/ CommitCount(p) \/ CommitAllocate(p) \/ GcRemove(p) \/ GcCommittedTs(p)
  BY <1>10, <1>11 DEF shared, ghosts, CommitAllocate, CommitPublishTs, CommitPublish,
                      CommitNotify, CommitCount, GcRemove, GcCommittedTs
<1>12. CASE \/ CommitValidate(p) \/ CommitLost(p) \/ RunGc(p) \/ GcMin(p)
            \/ GcScan(p) \/ GcReset(p)
  BY <1>10, <1>12 DEF shared, ghosts, CommitValidate, CommitLost, RunGc, GcMin,
                      GcScan, GcReset
<1>13. CASE \E x \in DOMAIN txns : CommitRead(p, x)
  BY <1>10, <1>13 DEF shared, ghosts, CommitRead
<1> QED BY <1>2, <1>3, <1>5, <1>6, <1>7, <1>8, <1>9, <1>11, <1>12, <1>13 DEF Step, Call

\* A step keeps the types of the other tables.
LEMMA TablesTyped ==
    ASSUME Types, NEW p \in Thread, Step(p) \/ Call(p)
    PROVE  /\ mode' = mode
           /\ oracle' \in Nat \ {0}
           /\ committed_ts' \subseteq Nat
           /\ latest_writes' \in [Key -> Nat]
           /\ lw_lock' \in Thread \cup {None}
           /\ history' \subseteq Entry
           /\ reclaimed' \subseteq Key \X Nat
<1>1. /\ oracle \in Nat \ {0} /\ committed_ts \subseteq Nat
      /\ latest_writes \in [Key -> Nat] /\ lw_lock \in Thread \cup {None}
      /\ loc \in [Thread -> Locals] /\ loc[p] \in Locals
      /\ DOMAIN txns \subseteq 1..MaxTxn /\ txns \in [DOMAIN txns -> Transaction]
      /\ history \subseteq Entry /\ reclaimed \subseteq Key \X Nat
  BY ConcurrentTMAssumption DEF Types
<1>2. /\ loc[p].commit_ts \in Nat /\ loc[p].read_ts \in Nat
      /\ loc[p].superseded \subseteq Key \X Nat /\ loc[p].keys \subseteq Key
  BY <1>1 DEF Locals
<1>3. mode' = mode
  <2>1. CASE \/ BeginSnapshot(p) \/ BeginInsert(p) \/ CommitValidate(p) \/ CommitAbort(p)
             \/ CommitAllocate(p) \/ CommitLost(p) \/ CommitMark(p)
    BY <2>1 DEF control, BeginSnapshot, BeginInsert, CommitValidate, CommitAbort,
                CommitAllocate, CommitLost, CommitMark
  <2>2. CASE \/ CommitPublishTs(p) \/ CommitPublish(p) \/ CommitNotify(p) \/ CommitCount(p)
    BY <2>2 DEF control, CommitPublishTs, CommitPublish, CommitNotify, CommitCount
  <2>3. CASE \/ RunGc(p) \/ GcMin(p) \/ GcScan(p) \/ GcRemove(p) \/ GcCommittedTs(p)
             \/ GcTxns(p) \/ GcReset(p)
    BY <2>3 DEF control, RunGc, GcMin, GcScan, GcRemove, GcCommittedTs, GcTxns, GcReset
  <2>4. CASE \E x \in DOMAIN txns : \/ Abort(p, x) \/ CommitRead(p, x)
                                    \/ \E k \in Key : RecordWrite(p, x, k)
    BY <2>4 DEF control, Abort, CommitRead, RecordWrite
  <2> QED BY <2>1, <2>2, <2>3, <2>4 DEF Step, Call
<1>4. CASE CommitAllocate(p)
  BY <1>1, <1>4 DEF CommitAllocate, control, ghosts
<1>5. CASE CommitMark(p)
  <2> DEFINE h == [txn |-> loc[p].txn, read_ts |-> loc[p].read_ts,
                   commit_ts |-> loc[p].commit_ts,
                   write_set |-> txns[loc[p].txn].write_set]
  <2>1. h \in Entry
    BY <1>1, <1>2, <1>5 DEF CommitMark, Entry, Transaction
  <2>2. history' = history \cup {h}
    BY <1>5 DEF CommitMark
  <2>3. UNCHANGED <<oracle, committed_ts, latest_writes, lw_lock, reclaimed>>
    BY <1>5 DEF CommitMark, control
  <2> QED BY <1>1, <1>3, <2>1, <2>2, <2>3
<1>6. CASE CommitPublish(p)
  <2>1. latest_writes' = [k \in Key |-> IF k \in loc[p].write_set
                                        THEN loc[p].commit_ts ELSE latest_writes[k]]
    BY <1>6 DEF CommitPublish
  <2>2. UNCHANGED <<oracle, committed_ts, history, reclaimed>> /\ lw_lock' = None
    BY <1>6 DEF CommitPublish, ghosts
  <2> QED BY <1>1, <1>2, <1>3, <2>1, <2>2
<1>7. CASE GcRemove(p)
  <2> DEFINE gone == {k \in loc[p].keys : latest_writes[k] # NoTs}
  <2>1. latest_writes' = [k \in Key |-> IF k \in gone THEN NoTs ELSE latest_writes[k]]
    BY <1>7 DEF GcRemove
  <2>2. reclaimed' \subseteq reclaimed \cup {<<k, latest_writes[k]>> : k \in gone}
    BY <1>7 DEF GcRemove
  <2>3. {<<k, latest_writes[k]>> : k \in gone} \subseteq Key \X Nat
    BY <1>1, <1>2
  <2>4. UNCHANGED <<oracle, committed_ts, history, lw_lock>>
    BY <1>7 DEF GcRemove, control
  <2> QED BY <1>1, <1>2, <1>3, <2>1, <2>2, <2>3, <2>4 DEF NoTs
<1>8. CASE CommitValidate(p) \/ CommitLost(p)
  BY <1>1, <1>3, <1>8 DEF CommitValidate, CommitLost, shared, ghosts
<1>9. CASE CommitPublishTs(p) \/ GcCommittedTs(p) \/ CommitNotify(p)
  BY <1>1, <1>2, <1>3, <1>9 DEF CommitPublishTs, GcCommittedTs, CommitNotify, shared, control, ghosts
<1>10. CASE UNCHANGED <<oracle, committed_ts, latest_writes, lw_lock, history, reclaimed>>
  BY <1>1, <1>3, <1>10
<1>11. CASE \/ BeginSnapshot(p) \/ BeginInsert(p) \/ CommitAbort(p) \/ CommitCount(p)
            \/ RunGc(p) \/ GcMin(p) \/ GcScan(p) \/ GcTxns(p) \/ GcReset(p)
  BY <1>10, <1>11 DEF shared, control, ghosts, BeginSnapshot, BeginInsert, CommitAbort,
                      CommitCount, RunGc, GcMin, GcScan, GcTxns, GcReset
<1>12. CASE \E x \in DOMAIN txns : \/ Abort(p, x) \/ CommitRead(p, x)
                                   \/ \E k \in Key : RecordWrite(p, x, k)
  BY <1>10, <1>12 DEF shared, control, ghosts, Abort, CommitRead, RecordWrite
<1> QED BY <1>4, <1>5, <1>6, <1>7, <1>8, <1>9, <1>11, <1>12 DEF Step, Call

\* The counter moves with a counted commit and with the collector's reset.
LEMMA CounterStep ==
    ASSUME NEW p \in Thread, Step(p) \/ Call(p), ~CommitCount(p), ~GcReset(p)
    PROVE  commits_since_gc' = commits_since_gc
<1>1. CASE \/ BeginSnapshot(p) \/ BeginInsert(p) \/ CommitValidate(p) \/ CommitAbort(p)
           \/ CommitAllocate(p) \/ CommitLost(p) \/ CommitMark(p)
  BY <1>1 DEF control, BeginSnapshot, BeginInsert, CommitValidate, CommitAbort,
              CommitAllocate, CommitLost, CommitMark
<1>2. CASE \/ CommitPublishTs(p) \/ CommitPublish(p) \/ CommitNotify(p)
  BY <1>2 DEF control, CommitPublishTs, CommitPublish, CommitNotify
<1>3. CASE \/ RunGc(p) \/ GcMin(p) \/ GcScan(p) \/ GcRemove(p) \/ GcCommittedTs(p)
           \/ GcTxns(p)
  BY <1>3 DEF control, RunGc, GcMin, GcScan, GcRemove, GcCommittedTs, GcTxns
<1>4. CASE \E x \in DOMAIN txns : \/ Abort(p, x) \/ CommitRead(p, x)
                                  \/ \E k \in Key : RecordWrite(p, x, k)
  BY <1>4 DEF control, Abort, CommitRead, RecordWrite
<1> QED BY <1>1, <1>2, <1>3, <1>4 DEF Step, Call

\* Only the collector notices its races, and it does not forget them.
LEMMA OvertakenStep ==
    ASSUME Types, NEW p \in Thread, Step(p) \/ Call(p)
    PROVE  /\ overtaken' \in BOOLEAN
           /\ overtaken => overtaken'
           /\ ~GcMin(p) /\ ~GcRemove(p) => overtaken' = overtaken
<1>1. overtaken \in BOOLEAN
  BY DEF Types
<1>2. CASE GcMin(p)
  BY <1>1, <1>2, Zenon DEF GcMin
<1>3. CASE GcRemove(p)
  BY <1>1, <1>3, Zenon DEF GcRemove
<1>4. CASE overtaken' = overtaken
  BY <1>1, <1>4, Zenon
<1>5. CASE \/ BeginSnapshot(p) \/ BeginInsert(p) \/ CommitValidate(p) \/ CommitAbort(p)
           \/ CommitAllocate(p) \/ CommitLost(p) \/ CommitMark(p)
  BY <1>4, <1>5 DEF ghosts, BeginSnapshot, BeginInsert, CommitValidate, CommitAbort,
              CommitAllocate, CommitLost, CommitMark
<1>6. CASE \/ CommitPublishTs(p) \/ CommitPublish(p) \/ CommitNotify(p) \/ CommitCount(p)
  BY <1>4, <1>6 DEF ghosts, CommitPublishTs, CommitPublish, CommitNotify, CommitCount
<1>7. CASE RunGc(p) \/ GcScan(p) \/ GcCommittedTs(p) \/ GcTxns(p) \/ GcReset(p)
  BY <1>4, <1>7 DEF ghosts, RunGc, GcScan, GcCommittedTs, GcTxns, GcReset
<1>8. CASE \E x \in DOMAIN txns : \/ Abort(p, x) \/ CommitRead(p, x)
                                  \/ \E k \in Key : RecordWrite(p, x, k)
  BY <1>4, <1>8 DEF ghosts, Abort, CommitRead, RecordWrite
<1> QED BY <1>2, <1>3, <1>5, <1>6, <1>7, <1>8 DEF Step, Call

\* A step keeps all types.
LEMMA TypesStep ==
    ASSUME Types, Timed, Identified, NEW p \in Thread, Step(p) \/ Call(p)
    PROVE  Types'
<1>1. commits_since_gc' \in Nat
  <2>1. commits_since_gc \in Nat
    BY DEF Types
  <2>2. CASE CommitCount(p) \/ GcReset(p)
    BY <2>1, <2>2 DEF CommitCount, GcReset
  <2> QED BY <2>1, <2>2, CounterStep
<1>2. mode \in Mode
  BY DEF Types
<1>3. overtaken' \in BOOLEAN
  BY OvertakenStep
<1> QED BY <1>1, <1>2, <1>3, Stepping, TableTyped, TablesTyped DEF Types

\* The steps of a call, and the calls: what each needs of its thread's label.
LEMMA Alone ==
    ASSUME Types, Scheduled, ~mode.overlap, NEW p \in Thread, Step(p) \/ Call(p)
    PROVE  \A q \in Thread \ {p} : pc[q] = "idle"
<1>1. CASE pc[p] # "idle"
  BY <1>1 DEF Scheduled
<1>2. CASE CanCall(p)
  BY <1>2 DEF CanCall
<1>3. CASE \/ BeginInsert(p) \/ CommitValidate(p) \/ CommitAbort(p)
           \/ CommitAllocate(p) \/ CommitLost(p) \/ CommitMark(p)
  BY <1>1, <1>3 DEF BeginInsert, CommitValidate, CommitAbort,
                    CommitAllocate, CommitLost, CommitMark
<1>4. CASE \/ CommitPublishTs(p) \/ CommitPublish(p) \/ CommitNotify(p) \/ CommitCount(p)
  BY <1>1, <1>4 DEF CommitPublishTs, CommitPublish, CommitNotify, CommitCount
<1>5. CASE \/ GcMin(p) \/ GcScan(p) \/ GcRemove(p) \/ GcCommittedTs(p)
           \/ GcTxns(p) \/ GcReset(p)
  BY <1>1, <1>5 DEF GcMin, GcScan, GcRemove, GcCommittedTs, GcTxns, GcReset
<1>6. CASE BeginSnapshot(p) \/ RunGc(p)
  BY <1>2, <1>6 DEF BeginSnapshot, RunGc
<1>7. CASE \E x \in DOMAIN txns : \/ Abort(p, x) \/ CommitRead(p, x)
                                  \/ \E k \in Key : RecordWrite(p, x, k)
  BY <1>2, <1>7 DEF RecordWrite, Abort, CommitRead
<1> QED BY <1>3, <1>4, <1>5, <1>6, <1>7 DEF Step, Call

\* Of the finitely many transactions only committed ones are counted.
CounterBounded == commits_since_gc <= MaxTxn

LEMMA CountedFinite ==
    ASSUME Types
    PROVE  /\ IsFiniteSet(Marked \ InFlight)
           /\ Cardinality(Marked \ InFlight) \in 0..MaxTxn
<1>1. MaxTxn \in Nat /\ IsFiniteSet(1..MaxTxn) /\ Cardinality(1..MaxTxn) = MaxTxn
  <2>1. MaxTxn \in Nat
    BY ConcurrentTMAssumption
  <2> QED BY <2>1, FS_Interval
<1>2. Marked \ InFlight \subseteq 1..MaxTxn
  BY DEF Marked, Types, Entry
<1>3. /\ IsFiniteSet(Marked \ InFlight)
      /\ Cardinality(Marked \ InFlight) <= Cardinality(1..MaxTxn)
  BY <1>1, <1>2, FS_Subset, Zenon
<1>4. Cardinality(Marked \ InFlight) \in Nat
  BY <1>3, FS_CardinalityType
<1> QED BY <1>1, <1>3, <1>4

LEMMA CountedBound == ASSUME Types, Counted PROVE CounterBounded
BY CountedFinite, ConcurrentTMAssumption DEF Counted, Types, CounterBounded

\* A step keeps to the schedule: the lock passes with the labels that hold it.
LEMMA ScheduledStep ==
    ASSUME NEW p \in Thread, Types, Types', Scheduled, Moves(p), mode' = mode,
           Step(p) \/ Call(p)
    PROVE  Scheduled'
<1> USE DEF LockLabels, Goto, Return
<1>1. /\ pc \in [Thread -> Labels] /\ pc' \in [Thread -> Labels]
      /\ None \notin Thread /\ MaxTxn \in Nat
      /\ commits_since_gc \in Nat
      /\ \A q \in Thread \ {p} : pc'[q] = pc[q]
      /\ mode.gc_interval \in Nat
  BY ConcurrentTMAssumption DEF Types, Moves, ModeType
<1>2. ~mode.overlap => \A q \in Thread \ {p} : pc'[q] = "idle"
  BY <1>1, Alone
<1>4. \A q \in Thread : pc'[q] \in LockLabels <=> lw_lock' = q
  <2>1. \A q \in Thread : pc[q] \in LockLabels <=> lw_lock = q
    BY DEF Scheduled
  <2>2. CASE CommitValidate(p)
    BY <1>1, <2>1, <2>2 DEF CommitValidate
  <2>3. CASE CommitLost(p) \/ CommitPublish(p)
    BY <1>1, <2>1, <2>3 DEF CommitLost, CommitPublish
  <2>4. CASE CommitAllocate(p) \/ CommitMark(p) \/ CommitPublishTs(p)
    BY <1>1, <2>1, <2>4 DEF CommitAllocate, CommitMark, CommitPublishTs, control
  <2>5. ASSUME lw_lock' = lw_lock, pc[p] \notin LockLabels, pc'[p] \notin LockLabels
        PROVE  \A q \in Thread : pc'[q] \in LockLabels <=> lw_lock' = q
    BY <1>1, <2>1, <2>5
  <2>6. CASE \/ BeginInsert(p) \/ CommitAbort(p) \/ BeginSnapshot(p) \/ RunGc(p)
             \/ CommitNotify(p) \/ CommitCount(p)
    BY <1>1, <2>5, <2>6 DEF BeginInsert, CommitAbort, BeginSnapshot, RunGc, CanCall,
                            CommitNotify, CommitCount, control
  <2>7. CASE \/ GcMin(p) \/ GcScan(p) \/ GcRemove(p) \/ GcCommittedTs(p)
             \/ GcTxns(p) \/ GcReset(p)
    BY <1>1, <2>5, <2>7 DEF GcMin, GcScan, GcRemove, GcCommittedTs, GcTxns, GcReset, control
  <2>8. CASE \E x \in DOMAIN txns : \/ Abort(p, x) \/ CommitRead(p, x)
                                    \/ \E k \in Key : RecordWrite(p, x, k)
    BY <1>1, <2>5, <2>8 DEF Abort, CommitRead, RecordWrite, CanCall, control
  <2> QED BY <2>2, <2>3, <2>4, <2>6, <2>7, <2>8 DEF Step, Call
<1> QED BY <1>1, <1>2, <1>4 DEF Scheduled

-----------------------------------------------------------------------------
(* The transaction table and the history. *)

\* What a step of p does to the table: a begin adds its transaction, a mark
\* commits its own, only p's transactions get writes, and nothing else changes
\* but active transactions that are aborted and entries that are collected.
TableMoves(p) ==
    /\ \A x \in DOMAIN txns' \ DOMAIN txns :
          /\ pc[p] = "insert" /\ pc'[p] = "idle"
          /\ x = loc[p].txn
          /\ txns'[x].state = "Active"
          /\ txns'[x].read_ts = loc[p].read_ts
    /\ \A x \in DOMAIN txns \cap DOMAIN txns' :
          /\ txns'[x].read_ts = txns[x].read_ts
          /\ txns[x].state = "Committed" => txns'[x] = txns[x]
          /\ txns'[x].state = "Active" => txns[x].state = "Active"
          /\ txns'[x].state = "Committed" /\ txns[x].state # "Committed"
             => CommitMark(p) /\ x = loc[p].txn
          /\ owner[x] # p \/ pc[p] # "idle" => txns'[x].write_set = txns[x].write_set

LEMMA TableStep ==
    ASSUME NEW p \in Thread, Types, Scheduled, Identified, Step(p) \/ Call(p)
    PROVE  TableMoves(p)
<1>1. /\ txns \in [DOMAIN txns -> Transaction]
      /\ \A x \in DOMAIN txns : txns[x].state \in {"Active", "Committed", "Aborted"}
      /\ pc \in [Thread -> Labels]
      /\ mode.shared # "all"
  BY DEF Types, Scheduled, Transaction
<1>2. CASE BeginInsert(p)
  <2> DEFINE new == [read_ts |-> loc[p].read_ts, commit_ts |-> NoTs,
                     state |-> "Active", write_set |-> {}]
  <2>1. new.state = "Active" /\ new.read_ts = loc[p].read_ts
    OBVIOUS
  <2> HIDE DEF new
  <2>2. txns' = [x \in DOMAIN txns \cup {loc[p].txn} |->
                   IF x = loc[p].txn THEN new ELSE txns[x]]
    BY <1>2 DEF BeginInsert, new
  <2>3. loc[p].txn \notin DOMAIN txns /\ pc[p] = "insert" /\ pc'[p] = "idle"
    BY <1>1, <1>2 DEF BeginInsert, Identified, Return, Goto
  <2> QED BY <1>1, <2>1, <2>2, <2>3 DEF TableMoves
<1>3. ASSUME NEW x \in DOMAIN txns, txns[x].state # "Committed",
             txns' = [txns EXCEPT ![x].state = "Aborted"]
      PROVE  TableMoves(p)
  <2>1. /\ DOMAIN txns' = DOMAIN txns
        /\ \A y \in DOMAIN txns : y # x => txns'[y] = txns[y]
        /\ txns'[x].state = "Aborted"
        /\ txns'[x].read_ts = txns[x].read_ts
        /\ txns'[x].write_set = txns[x].write_set
    BY <1>1, <1>3 DEF Transaction
  <2> QED BY <1>1, <1>3, <2>1 DEF TableMoves
<1>4. CASE UNCHANGED txns
  <2>1. DOMAIN txns' = DOMAIN txns /\ \A x \in DOMAIN txns : txns'[x] = txns[x]
    BY <1>4
  <2> QED BY <2>1 DEF TableMoves
<1>5. CASE CommitAbort(p)
  <2>1. CASE loc[p].txn \in DOMAIN txns
    <3>1. txns[loc[p].txn].state # "Committed"
      BY <1>5, <2>1 DEF CommitAbort, Identified, PendingLabels
    <3> QED BY <1>3, <1>5, <2>1, <3>1 DEF CommitAbort
  <2>2. CASE loc[p].txn \notin DOMAIN txns
    BY <1>4, <1>5, <2>2 DEF CommitAbort
  <2> QED BY <2>1, <2>2
<1>6. CASE \E x \in DOMAIN txns : Abort(p, x)
  BY <1>3, <1>6 DEF Abort, Active
<1>7. CASE \E x \in DOMAIN txns, k \in Key : RecordWrite(p, x, k)
  <2>1. PICK x \in DOMAIN txns, k \in Key : RecordWrite(p, x, k)
    BY <1>7
  <2>2. txns' = [txns EXCEPT ![x].write_set = @ \cup {k}]
    BY <2>1 DEF RecordWrite
  <2>3. txns[x].state = "Active" /\ owner[x] = p /\ pc[p] = "idle"
    BY <1>1, <2>1 DEF RecordWrite, Active, MayUse, CanCall
  <2>4. /\ DOMAIN txns' = DOMAIN txns
        /\ \A y \in DOMAIN txns : y # x => txns'[y] = txns[y]
        /\ txns'[x].state = txns[x].state
        /\ txns'[x].read_ts = txns[x].read_ts
    BY <1>1, <2>2 DEF Transaction
  <2> QED BY <1>1, <2>3, <2>4 DEF TableMoves
<1>8. CASE CommitMark(p)
  <2> DEFINE x == loc[p].txn
  <2>1. PICK old \in Transaction : old = txns[x]
    BY <1>1, <1>8 DEF CommitMark
  <2> DEFINE new == [old EXCEPT !.state = "Committed", !.commit_ts = loc[p].commit_ts]
  <2>2. /\ new.state = "Committed" /\ new.read_ts = old.read_ts
        /\ new.write_set = old.write_set
    BY DEF Transaction
  <2>3. x \in DOMAIN txns /\ txns' = [txns EXCEPT ![x] = new]
    BY <1>8, <2>1 DEF CommitMark
  <2>4. txns[x].state # "Committed"
    BY <1>8 DEF CommitMark, Identified, PendingLabels
  <2> HIDE DEF new, x
  <2>5. /\ DOMAIN txns' = DOMAIN txns /\ txns'[x] = new
        /\ \A y \in DOMAIN txns : y # x => txns'[y] = txns[y]
    BY <2>3
  <2>6. x = loc[p].txn
    BY DEF x
  <2> QED BY <1>1, <1>8, <2>1, <2>2, <2>3, <2>4, <2>5, <2>6 DEF TableMoves
<1>9. CASE GcTxns(p)
  <2>1. DOMAIN txns' \subseteq DOMAIN txns /\ \A x \in DOMAIN txns' : txns'[x] = txns[x]
    BY <1>9 DEF GcTxns
  <2> QED BY <2>1 DEF TableMoves
<1>10. CASE \/ BeginSnapshot(p) \/ CommitPublishTs(p) \/ CommitPublish(p) \/ CommitNotify(p)
            \/ CommitCount(p) \/ CommitAllocate(p) \/ GcRemove(p) \/ GcCommittedTs(p)
  BY <1>4, <1>10 DEF shared, CommitAllocate, CommitPublishTs, CommitPublish, BeginSnapshot,
                      CommitNotify, CommitCount, GcRemove, GcCommittedTs
<1>11. CASE \/ CommitValidate(p) \/ CommitLost(p) \/ RunGc(p) \/ GcMin(p)
            \/ GcScan(p) \/ GcReset(p)
  BY <1>4, <1>11 DEF shared, CommitValidate, CommitLost, RunGc, GcMin,
                      GcScan, GcReset
<1>12. CASE \E x \in DOMAIN txns : CommitRead(p, x)
  BY <1>4, <1>12 DEF shared, CommitRead
<1> QED BY <1>2, <1>5, <1>6, <1>7, <1>8, <1>9, <1>10, <1>11, <1>12 DEF Step, Call

\* How a step of p moves p through its call: what a commit copied when it read
\* the transaction stays until the commit is counted.
CallMoves(p) ==
    /\ pc'[p] = "insert" => BeginSnapshot(p)
    /\ pc'[p] = "validate" => \E x \in DOMAIN txns : CommitRead(p, x)
    /\ pc'[p] \in CommitLabels \ {"validate"}
       => /\ pc[p] \in CommitLabels
          /\ pc'[p] \in PendingLabels => pc[p] \in PendingLabels
          /\ loc'[p].txn = loc[p].txn
          /\ loc'[p].read_ts = loc[p].read_ts
          /\ loc'[p].write_set = loc[p].write_set
    /\ pc'[p] \in MarkedLabels => pc[p] \in MarkedLabels \/ CommitMark(p)
    /\ pc'[p] \in {"publish_ts", "publish"}
       => pc[p] \in {"publish_ts", "publish"} \/ CommitMark(p)
    /\ pc[p] \in MarkedLabels /\ pc'[p] \notin MarkedLabels => CommitCount(p)
    /\ pc'[p] = "allocate" => CommitValidate(p)
    /\ pc'[p] = "mark" => CommitAllocate(p)
    /\ pc'[p] = "publish_ts" => CommitMark(p)
    /\ pc'[p] = "publish" => CommitPublishTs(p)

LEMMA CallStep ==
    ASSUME NEW p \in Thread, Types, Step(p) \/ Call(p) PROVE CallMoves(p)
<1> USE DEF CommitLabels, PendingLabels, MarkedLabels, Goto, Return
<1>1. pc \in [Thread -> Labels] /\ loc \in [Thread -> Locals] /\ loc[p] \in Locals
  BY DEF Types
<1>2. CASE BeginSnapshot(p)
  BY <1>1, <1>2 DEF CallMoves, BeginSnapshot, CanCall
<1>10. CASE \E x \in DOMAIN txns : CommitRead(p, x)
  <2>1. pc[p] = "idle" /\ pc'[p] = "validate"
    BY <1>1, <1>10 DEF CommitRead, CanCall
  <2> QED BY <1>10, <2>1 DEF CallMoves
<1>3. CASE \/ BeginInsert(p) \/ CommitAbort(p) \/ CommitLost(p) \/ RunGc(p)
  BY <1>1, <1>3 DEF CallMoves, BeginInsert, CommitAbort, CommitLost, RunGc, CanCall
<1>4. CASE CommitCount(p)
  BY <1>1, <1>4 DEF CallMoves, CommitCount
<1>5. CASE CommitValidate(p) \/ CommitMark(p) \/ CommitPublishTs(p) \/ CommitNotify(p)
  BY <1>1, <1>5 DEF CallMoves, CommitValidate, CommitMark, CommitPublishTs, CommitNotify
<1>6. CASE CommitAllocate(p)
  <2>1. /\ loc'[p] = [loc[p] EXCEPT !.commit_ts = oracle + 1]
        /\ pc[p] = "allocate" /\ pc'[p] = "mark"
    BY <1>1, <1>6 DEF CommitAllocate
  <2> QED BY <1>1, <1>6, <2>1 DEF CallMoves, Locals
<1>7. CASE CommitPublish(p)
  <2>1. /\ \E vs : loc'[p] = [loc[p] EXCEPT !.superseded = vs]
        /\ pc[p] = "publish" /\ pc'[p] \in {"notify", "count"}
    BY <1>1, <1>7 DEF CommitPublish
  <2> QED BY <1>1, <2>1 DEF CallMoves, Locals
<1>8. CASE \/ GcMin(p) \/ GcScan(p) \/ GcRemove(p) \/ GcCommittedTs(p)
           \/ GcTxns(p) \/ GcReset(p)
  BY <1>1, <1>8 DEF CallMoves, GcMin, GcScan, GcRemove, GcCommittedTs, GcTxns, GcReset
<1>9. CASE \E x \in DOMAIN txns : Abort(p, x) \/ \E k \in Key : RecordWrite(p, x, k)
  BY <1>1, <1>9 DEF CallMoves, Abort, RecordWrite, CanCall
<1> QED BY <1>2, <1>3, <1>4, <1>5, <1>6, <1>7, <1>8, <1>9, <1>10 DEF Step, Call

\* Ids are handed out once.
IdsMove(p) ==
    /\ next_txn_id' >= next_txn_id
    /\ \A x \in 1..(next_txn_id - 1) : owner'[x] = owner[x]
    /\ BeginSnapshot(p) => /\ next_txn_id' = next_txn_id + 1
                           /\ owner'[next_txn_id] = p
                           /\ loc'[p].txn = next_txn_id
                           /\ loc'[p].read_ts = oracle
                           /\ pc'[p] = "insert"

LEMMA IdsStep ==
    ASSUME NEW p \in Thread, Types, Step(p) \/ Call(p) PROVE IdsMove(p)
<1>1. /\ next_txn_id \in Nat \ {0} /\ MaxTxn \in Nat
      /\ owner \in [1..MaxTxn -> Thread \cup {None}]
      /\ loc \in [Thread -> Locals] /\ pc \in [Thread -> Labels]
  BY ConcurrentTMAssumption DEF Types
<1>2. CASE BeginSnapshot(p)
  <2>1. /\ next_txn_id \in 1..MaxTxn /\ next_txn_id' = next_txn_id + 1
        /\ owner' = [owner EXCEPT ![next_txn_id] = p]
    BY <1>1, <1>2 DEF BeginSnapshot
  <2>2. loc'[p] = [loc[p] EXCEPT !.txn = next_txn_id, !.read_ts = oracle]
        /\ loc[p] \in Locals /\ pc'[p] = "insert"
    BY <1>1, <1>2 DEF BeginSnapshot, Goto
  <2>3. loc'[p].txn = next_txn_id /\ loc'[p].read_ts = oracle
    BY <2>2 DEF Locals
  <2>4. \A x \in 1..(next_txn_id - 1) : owner'[x] = owner[x]
    BY <1>1, <2>1
  <2>5. owner'[next_txn_id] = p
    BY <1>1, <2>1
  <2> QED BY <1>1, <2>1, <2>2, <2>3, <2>4, <2>5 DEF IdsMove
<1>3. ASSUME ~BeginSnapshot(p), UNCHANGED <<next_txn_id, owner>> PROVE IdsMove(p)
  BY <1>1, <1>3 DEF IdsMove
<1>4. CASE \/ BeginInsert(p) \/ CommitAbort(p) \/ CommitLost(p) \/ RunGc(p)
           \/ CommitMark(p) \/ CommitNotify(p)
  BY <1>2, <1>3, <1>4 DEF BeginInsert, CommitAbort, CommitLost, RunGc, CommitMark,
                          CommitNotify, shared, ghosts
<1>5. CASE \/ CommitValidate(p) \/ CommitAllocate(p) \/ CommitPublishTs(p)
           \/ CommitPublish(p) \/ CommitCount(p)
  BY <1>2, <1>3, <1>5 DEF CommitValidate, CommitAllocate, CommitPublishTs, CommitPublish,
                          CommitCount, shared, ghosts
<1>6. CASE \/ GcMin(p) \/ GcScan(p) \/ GcRemove(p) \/ GcCommittedTs(p)
           \/ GcTxns(p) \/ GcReset(p)
  BY <1>2, <1>3, <1>6 DEF GcMin, GcScan, GcRemove, GcCommittedTs, GcTxns, GcReset,
                          shared, ghosts
<1>7. CASE \E x \in DOMAIN txns : \/ Abort(p, x) \/ CommitRead(p, x)
                                  \/ \E k \in Key : RecordWrite(p, x, k)
  BY <1>2, <1>3, <1>7 DEF Abort, CommitRead, RecordWrite, shared, ghosts
<1> QED BY <1>2, <1>4, <1>5, <1>6, <1>7 DEF Step, Call

\* What a step of p knows of p's own call.
LEMMA ReadStep ==
    ASSUME NEW p \in Thread, Types, Scheduled, NEW x \in DOMAIN txns, CommitRead(p, x)
    PROVE  /\ owner[x] = p /\ txns[x].state = "Active" /\ txns' = txns
           /\ loc'[p].txn = x
           /\ loc'[p].read_ts = txns[x].read_ts
           /\ loc'[p].write_set = txns[x].write_set
           /\ pc'[p] = "validate"
<1>1. loc \in [Thread -> Locals] /\ pc \in [Thread -> Labels] /\ mode.shared # "all"
  BY DEF Types, Scheduled
<1>2. /\ loc'[p] = [loc[p] EXCEPT !.txn = x, !.read_ts = txns[x].read_ts,
                                  !.write_set = txns[x].write_set]
      /\ loc[p] \in Locals
  BY <1>1 DEF CommitRead
<1>3. /\ loc'[p].txn = x
      /\ loc'[p].read_ts = txns[x].read_ts
      /\ loc'[p].write_set = txns[x].write_set
  BY <1>2 DEF Locals
<1> QED BY <1>1, <1>3 DEF CommitRead, MayUse, Active, shared, Goto

\* A step keeps what the calls know of their transactions.
LEMMA IdentifiedStep ==
    ASSUME NEW p \in Thread, Types, Scheduled, Identified,
           Moves(p), TableMoves(p), CallMoves(p), IdsMove(p), Step(p) \/ Call(p)
    PROVE  Identified'
<1>1. /\ next_txn_id \in Nat \ {0} /\ next_txn_id' \in Nat
      /\ DOMAIN txns \subseteq 1..(next_txn_id - 1)
      /\ next_txn_id' >= next_txn_id
      /\ \A x \in 1..(next_txn_id - 1) : owner'[x] = owner[x]
  <2>1. next_txn_id' \in Nat
    BY TableTyped, ConcurrentTMAssumption
  <2> QED BY <2>1, ConcurrentTMAssumption DEF Types, IdsMove
<1>2. ASSUME NEW q \in Thread, q # p
      PROVE  /\ pc'[q] = "insert" \/ pc'[q] \in CommitLabels
                => /\ loc'[q].txn \in 1..(next_txn_id' - 1)
                   /\ owner'[loc'[q].txn] = q
             /\ pc'[q] = "insert" => loc'[q].txn \notin DOMAIN txns'
             /\ pc'[q] \in PendingLabels /\ loc'[q].txn \in DOMAIN txns'
                => /\ txns'[loc'[q].txn].state # "Committed"
                   /\ txns'[loc'[q].txn].write_set = loc'[q].write_set
                   /\ txns'[loc'[q].txn].read_ts = loc'[q].read_ts
  <2> DEFINE x == loc[q].txn
  <2>1. pc'[q] = pc[q] /\ loc'[q] = loc[q]
    BY <1>2 DEF Moves
  <2>2. pc[q] = "insert" \/ pc[q] \in CommitLabels => x \in 1..(next_txn_id - 1) /\ owner[x] = q
    BY DEF Identified
  <2>3. pc[q] = "insert" \/ pc[q] \in CommitLabels
        => ~ (x = loc[p].txn /\ (pc[p] = "insert" \/ pc[p] \in CommitLabels))
    BY <1>2, <2>2 DEF Identified
  <2>4. pc[q] = "insert" => x \notin DOMAIN txns'
    BY <2>3 DEF Identified, TableMoves
  <2>5. ASSUME pc[q] \in PendingLabels, x \in DOMAIN txns'
        PROVE  /\ txns'[x].state # "Committed"
               /\ txns'[x].write_set = loc[q].write_set
               /\ txns'[x].read_ts = loc[q].read_ts
    <3>1. pc[q] \in CommitLabels
      BY <2>5 DEF PendingLabels, CommitLabels
    <3>2. x \in DOMAIN txns
      BY <2>3, <2>5, <3>1 DEF TableMoves
    <3>3. /\ txns[x].state # "Committed"
          /\ txns[x].write_set = loc[q].write_set
          /\ txns[x].read_ts = loc[q].read_ts
      BY <2>5, <3>2 DEF Identified
    <3>4. CommitMark(p) => pc[p] \in CommitLabels
      BY DEF CommitMark, CommitLabels
    <3>5. owner[x] # p
      BY <1>2, <2>2, <3>1
    <3> QED BY <2>3, <2>5, <3>1, <3>2, <3>3, <3>4, <3>5 DEF TableMoves
  <2> QED BY <1>1, <2>1, <2>2, <2>4, <2>5
<1>3. /\ pc'[p] = "insert" \/ pc'[p] \in CommitLabels
         => /\ loc'[p].txn \in 1..(next_txn_id' - 1)
            /\ owner'[loc'[p].txn] = p
      /\ pc'[p] = "insert" => loc'[p].txn \notin DOMAIN txns'
      /\ pc'[p] \in PendingLabels /\ loc'[p].txn \in DOMAIN txns'
         => /\ txns'[loc'[p].txn].state # "Committed"
            /\ txns'[loc'[p].txn].write_set = loc'[p].write_set
            /\ txns'[loc'[p].txn].read_ts = loc'[p].read_ts
  <2>1. CASE pc'[p] = "insert"
    <3>1. BeginSnapshot(p) /\ txns' = txns
      BY <2>1 DEF CallMoves, BeginSnapshot
    <3> QED BY <1>1, <2>1, <3>1 DEF IdsMove, PendingLabels
  <2>2. CASE pc'[p] = "validate"
    <3>1. PICK x \in DOMAIN txns : CommitRead(p, x)
      BY <2>2 DEF CallMoves
    <3> QED BY <1>1, <2>2, <3>1, ReadStep
  <2>3. CASE pc'[p] \in CommitLabels \ {"validate"}
    <3> DEFINE x == loc[p].txn
    <3>1. /\ pc[p] \in CommitLabels
          /\ pc'[p] \in PendingLabels => pc[p] \in PendingLabels
          /\ loc'[p].txn = x
          /\ loc'[p].read_ts = loc[p].read_ts
          /\ loc'[p].write_set = loc[p].write_set
      BY <2>3 DEF CallMoves
    <3>2. pc[p] # "insert" /\ pc[p] # "idle" /\ pc'[p] # "insert"
      BY <2>3, <3>1 DEF CommitLabels
    <3>3. x \in 1..(next_txn_id - 1) /\ owner[x] = p
      BY <3>1 DEF Identified
    <3>4. ASSUME pc'[p] \in PendingLabels, x \in DOMAIN txns'
          PROVE  /\ txns'[x].state # "Committed"
                 /\ txns'[x].write_set = loc[p].write_set
                 /\ txns'[x].read_ts = loc[p].read_ts
      <4>1. x \in DOMAIN txns
        BY <3>2, <3>4 DEF TableMoves
      <4>2. /\ txns[x].state # "Committed"
            /\ txns[x].write_set = loc[p].write_set
            /\ txns[x].read_ts = loc[p].read_ts
        BY <3>1, <3>4, <4>1 DEF Identified
      <4>3. ~CommitMark(p)
        BY <3>4 DEF CommitMark, Goto, PendingLabels, Types
      <4> QED BY <3>2, <3>4, <4>1, <4>2, <4>3 DEF TableMoves
    <3> QED BY <1>1, <3>1, <3>2, <3>3, <3>4
  <2>4. CASE pc'[p] # "insert" /\ pc'[p] \notin CommitLabels
    BY <2>4 DEF PendingLabels, CommitLabels
  <2> QED BY <2>1, <2>2, <2>3, <2>4
<1> QED BY <1>2, <1>3 DEF Identified

\* A mark records its transaction, which was active and in nobody else's call.
Record(p) == [txn |-> loc[p].txn, read_ts |-> loc[p].read_ts,
              commit_ts |-> loc[p].commit_ts, write_set |-> loc[p].write_set]

LEMMA MarkStep ==
    ASSUME NEW p \in Thread, Types, Identified, Recorded, CommitMark(p)
    PROVE  /\ loc[p].txn \in DOMAIN txns
           /\ txns[loc[p].txn].state = "Active"
           /\ txns[loc[p].txn].read_ts = loc[p].read_ts
           /\ txns'[loc[p].txn].state = "Committed"
           /\ \A h \in history : h.txn # loc[p].txn
           /\ history' = history \cup {Record(p)}
           /\ Record(p) \in Entry
           /\ Record(p).txn = loc[p].txn
           /\ Record(p).read_ts = loc[p].read_ts
           /\ Record(p).commit_ts = loc[p].commit_ts
           /\ Record(p).write_set = loc[p].write_set
           /\ pc[p] = "mark" /\ pc'[p] = "publish_ts"
           /\ UNCHANGED <<loc, oracle, next_txn_id, latest_writes, commits_since_gc, reclaimed>>
<1> DEFINE x == loc[p].txn
<1>1. /\ pc[p] = "mark" /\ x \in DOMAIN txns /\ txns[x].state # "Aborted"
      /\ txns' = [txns EXCEPT ![x] = [@ EXCEPT !.state = "Committed",
                                               !.commit_ts = loc[p].commit_ts]]
      /\ history' = history \cup {[txn |-> x, read_ts |-> loc[p].read_ts,
                                   commit_ts |-> loc[p].commit_ts,
                                   write_set |-> txns[x].write_set]}
      /\ UNCHANGED <<loc, oracle, next_txn_id, latest_writes, commits_since_gc, reclaimed>>
  BY DEF CommitMark, control
<1>2. /\ txns[x].state # "Committed"
      /\ txns[x].write_set = loc[p].write_set
      /\ txns[x].read_ts = loc[p].read_ts
  BY <1>1 DEF Identified, PendingLabels
<1>3. txns[x] \in Transaction /\ loc[p] \in Locals /\ x \in 1..MaxTxn
  BY <1>1, ConcurrentTMAssumption DEF Types
<1>4. txns[x].state = "Active"
  BY <1>1, <1>2, <1>3 DEF Transaction
<1>5. txns'[x].state = "Committed"
  <2>1. PICK old \in Transaction : old = txns[x]
    BY <1>3
  <2> DEFINE new == [old EXCEPT !.state = "Committed", !.commit_ts = loc[p].commit_ts]
  <2>2. new.state = "Committed"
    BY DEF Transaction
  <2> HIDE DEF new
  <2>3. txns' = [txns EXCEPT ![x] = new]
    BY <1>1, <2>1 DEF new
  <2> QED BY <1>1, <2>2, <2>3
<1>6. \A h \in history : h.txn # x
  BY <1>1, <1>2 DEF Recorded
<1>7. history' = history \cup {Record(p)}
  BY <1>1, <1>2 DEF Record
<1>8. Record(p) \in Entry
  BY <1>3 DEF Record, Entry, Locals
<1>9. pc'[p] = "publish_ts"
  BY DEF CommitMark, Goto, Types
<1>10. /\ Record(p).txn = loc[p].txn
       /\ Record(p).read_ts = loc[p].read_ts
       /\ Record(p).commit_ts = loc[p].commit_ts
       /\ Record(p).write_set = loc[p].write_set
  BY DEF Record
<1> QED BY <1>1, <1>2, <1>4, <1>5, <1>6, <1>7, <1>8, <1>9, <1>10

\* No other step touches the history.
LEMMA HistoryStep ==
    ASSUME NEW p \in Thread, Step(p) \/ Call(p), ~CommitMark(p)
    PROVE  history' = history
<1>1. CASE \/ BeginSnapshot(p) \/ BeginInsert(p) \/ CommitAbort(p) \/ CommitLost(p)
           \/ RunGc(p) \/ CommitNotify(p)
  BY <1>1 DEF BeginSnapshot, BeginInsert, CommitAbort, CommitLost, RunGc,
              CommitNotify, ghosts
<1>2. CASE \/ CommitValidate(p) \/ CommitAllocate(p) \/ CommitPublishTs(p)
           \/ CommitPublish(p) \/ CommitCount(p)
  BY <1>2 DEF CommitValidate, CommitAllocate, CommitPublishTs, CommitPublish,
              CommitCount, ghosts
<1>3. CASE \/ GcMin(p) \/ GcScan(p) \/ GcRemove(p) \/ GcCommittedTs(p)
           \/ GcTxns(p) \/ GcReset(p)
  BY <1>3 DEF GcMin, GcScan, GcRemove, GcCommittedTs, GcTxns, GcReset, ghosts
<1>4. CASE \E x \in DOMAIN txns : \/ Abort(p, x) \/ CommitRead(p, x)
                                  \/ \E k \in Key : RecordWrite(p, x, k)
  BY <1>4 DEF Abort, CommitRead, RecordWrite, ghosts
<1> QED BY <1>1, <1>2, <1>3, <1>4 DEF Step, Call

\* A step keeps the history of marked transactions.
LEMMA RecordedStep ==
    ASSUME NEW p \in Thread, Types, Scheduled, Identified, Recorded,
           Moves(p), TableMoves(p), CallMoves(p), IdsMove(p), Step(p) \/ Call(p)
    PROVE  Recorded'
<1>1. next_txn_id \in Nat \ {0} /\ next_txn_id' \in Nat /\ next_txn_id' >= next_txn_id
  <2>1. next_txn_id' \in Nat
    BY TableTyped, ConcurrentTMAssumption
  <2> QED BY <2>1, ConcurrentTMAssumption DEF Types, IdsMove
<1>2. /\ history \subseteq history'
      /\ \A h \in history' \ history :
            CommitMark(p) /\ h.txn = loc[p].txn /\ h.write_set = loc[p].write_set
  BY MarkStep, HistoryStep
<1>3. CommitMark(p) => /\ loc[p].txn \in 1..(next_txn_id - 1)
                       /\ owner[loc[p].txn] = p
                       /\ loc' = loc /\ pc[p] = "mark" /\ pc'[p] = "publish_ts"
                       /\ txns'[loc[p].txn].state = "Committed"
                       /\ \A h \in history : h.txn # loc[p].txn
  BY MarkStep DEF Identified, CommitLabels
<1>4. ASSUME NEW h \in history'
      PROVE  /\ h.txn \in 1..(next_txn_id' - 1)
             /\ h.txn \in DOMAIN txns' => txns'[h.txn].state = "Committed"
  <2>1. CASE h \in history
    <3>1. h.txn \in 1..(next_txn_id' - 1)
      BY <1>1, <2>1 DEF Recorded
    <3>2. ASSUME h.txn \in DOMAIN txns' PROVE txns'[h.txn].state = "Committed"
      <4>1. h.txn \in DOMAIN txns
        BY <2>1, <3>2 DEF Recorded, TableMoves
      <4> QED BY <2>1, <3>2, <4>1 DEF Recorded, TableMoves
    <3> QED BY <3>1, <3>2
  <2>2. CASE h \notin history
    BY <1>1, <1>2, <1>3, <2>2
  <2> QED BY <2>1, <2>2
<1>5. ASSUME NEW h \in history', NEW q \in Thread, pc'[q] = "insert"
      PROVE  loc'[q].txn # h.txn
  <2>1. CASE q = p
    <3>1. BeginSnapshot(p) /\ history' = history
      BY <1>5, <2>1 DEF CallMoves, BeginSnapshot
    <3>2. loc'[p].txn = next_txn_id /\ h.txn \in 1..(next_txn_id - 1)
      BY <3>1 DEF IdsMove, Recorded
    <3> QED BY <1>1, <2>1, <3>2
  <2>2. CASE q # p
    <3>1. pc[q] = "insert" /\ loc'[q] = loc[q]
      BY <1>5, <2>2 DEF Moves
    <3>2. owner[loc[q].txn] = q
      BY <3>1 DEF Identified
    <3> QED BY <1>2, <1>3, <2>2, <3>1, <3>2 DEF Recorded
  <2> QED BY <2>1, <2>2
<1>6. ASSUME NEW h \in history', NEW q \in Thread, pc'[q] \in {"publish_ts", "publish"},
             loc'[q].txn = h.txn
      PROVE  h.write_set = loc'[q].write_set
  <2>1. CASE q # p
    <3>1. pc[q] \in {"publish_ts", "publish"} /\ loc'[q] = loc[q]
      BY <1>6, <2>1 DEF Moves
    <3>2. owner[loc[q].txn] = q
      BY <3>1 DEF Identified, CommitLabels
    <3>3. h \in history
      BY <1>2, <1>3, <1>6, <2>1, <3>1, <3>2
    <3> QED BY <1>6, <3>1, <3>3 DEF Recorded
  <2>2. CASE q = p /\ CommitMark(p)
    BY <1>2, <1>3, <1>6, <2>2
  <2>3. CASE q = p /\ ~CommitMark(p)
    <3>1. pc[p] \in {"publish_ts", "publish"}
      BY <1>6, <2>3 DEF CallMoves
    <3>2. pc'[p] \in CommitLabels \ {"validate"}
      BY <1>6, <2>3 DEF CommitLabels
    <3>3. loc'[p].txn = loc[p].txn /\ loc'[p].write_set = loc[p].write_set
      BY <3>2 DEF CallMoves
    <3> QED BY <1>2, <1>6, <2>3, <3>1, <3>3 DEF Recorded
  <2> QED BY <2>1, <2>2, <2>3
<1>7. ASSUME NEW q \in Thread, pc'[q] \in MarkedLabels
      PROVE  \E h \in history' : h.txn = loc'[q].txn
  <2>1. CASE q # p
    <3>1. pc[q] \in MarkedLabels /\ loc'[q] = loc[q]
      BY <1>7, <2>1 DEF Moves
    <3> QED BY <1>2, <3>1 DEF Recorded
  <2>2. CASE q = p /\ CommitMark(p)
    BY <2>2, MarkStep
  <2>3. CASE q = p /\ ~CommitMark(p)
    <3>1. pc[p] \in MarkedLabels
      BY <1>7, <2>3 DEF CallMoves
    <3>2. loc'[p].txn = loc[p].txn
      BY <1>7, <2>3 DEF CallMoves, MarkedLabels, CommitLabels
    <3> QED BY <1>2, <2>3, <3>1, <3>2 DEF Recorded
  <2> QED BY <2>1, <2>2, <2>3
<1> QED BY <1>4, <1>5, <1>6, <1>7 DEF Recorded

\* A step keeps the counter below the number of commits counted.
LEMMA CountedStep ==
    ASSUME NEW p \in Thread, Types, Types', Identified, Recorded, Counted,
           Moves(p), CallMoves(p), Step(p) \/ Call(p)
    PROVE  Counted'
<1> DEFINE x == loc[p].txn
<1>1. /\ IsFiniteSet(Marked \ InFlight)
      /\ Cardinality(Marked \ InFlight) \in Nat
      /\ commits_since_gc \in Nat
      /\ commits_since_gc <= Cardinality(Marked \ InFlight)
  <2>1. commits_since_gc \in Nat
    BY DEF Types
  <2> QED BY <2>1, CountedFinite, ConcurrentTMAssumption DEF Counted
<1>2. /\ \A y : y \in InFlight <=> \E q \in Thread : pc[q] \in MarkedLabels /\ loc[q].txn = y
      /\ \A y : y \in InFlight' <=> \E q \in Thread : pc'[q] \in MarkedLabels /\ loc'[q].txn = y
      /\ \A q \in Thread \ {p} : pc'[q] = pc[q] /\ loc'[q] = loc[q]
  BY DEF InFlight, Moves
<1>3. pc'[p] \in MarkedLabels => loc'[p].txn = x
  BY DEF CallMoves, MarkedLabels, CommitLabels
<1>4. CASE CommitMark(p)
  <2>1. Marked' = Marked \cup {x} /\ x \notin Marked /\ commits_since_gc' = commits_since_gc
    BY <1>4, MarkStep DEF Marked
  <2>2. pc[p] \notin MarkedLabels /\ pc'[p] \in MarkedLabels
    BY <1>4, MarkStep DEF MarkedLabels
  <2>3. InFlight' = InFlight \cup {x}
    BY <1>2, <1>3, <2>2
  <2>4. Marked' \ InFlight' = Marked \ InFlight
    BY <2>1, <2>3
  <2> QED BY <1>1, <2>1, <2>4 DEF Counted
<1>5. CASE CommitCount(p)
  <2>1. /\ pc[p] \in MarkedLabels /\ pc'[p] \notin MarkedLabels
        /\ commits_since_gc' = commits_since_gc + 1
        /\ history' = history
    BY <1>5 DEF CommitCount, MarkedLabels, Goto, Return, Types, ghosts
  <2>2. Marked' = Marked /\ x \in Marked /\ x \in InFlight
    BY <1>2, <2>1 DEF Marked, Recorded
  <2>3. \A q \in Thread \ {p} : pc[q] \in MarkedLabels => loc[q].txn # x
    BY <2>1 DEF Identified, MarkedLabels, CommitLabels
  <2>4. InFlight' = InFlight \ {x}
    BY <1>2, <2>1, <2>3
  <2>5. Marked' \ InFlight' = (Marked \ InFlight) \cup {x} /\ x \notin Marked \ InFlight
    BY <2>2, <2>4
  <2>6. Cardinality(Marked' \ InFlight') = Cardinality(Marked \ InFlight) + 1
    BY <1>1, <2>5, FS_AddElement
  <2> QED BY <1>1, <2>1, <2>6 DEF Counted
<1>6. CASE GcReset(p)
  <2>1. Cardinality(Marked' \ InFlight') \in Nat
    <3>1. Marked' = Marked /\ pc[p] \notin MarkedLabels /\ pc'[p] \notin MarkedLabels
      BY <1>6 DEF GcReset, Return, Goto, MarkedLabels, Marked, ghosts, Types
    <3>2. \A y : y \in InFlight' <=> y \in InFlight
      BY <1>2, <3>1
    <3>3. InFlight' = InFlight
      BY <3>2
    <3> QED BY <1>1, <3>1, <3>3
  <2>2. commits_since_gc' = 0
    BY <1>6 DEF GcReset
  <2> QED BY <2>1, <2>2 DEF Counted
<1>7. CASE ~CommitMark(p) /\ ~CommitCount(p) /\ ~GcReset(p)
  <2>1. Marked' = Marked /\ commits_since_gc' = commits_since_gc
    BY <1>7, HistoryStep, CounterStep DEF Marked
  <2>2. pc'[p] \in MarkedLabels <=> pc[p] \in MarkedLabels
    BY <1>7 DEF CallMoves
  <2>3. pc[p] \in MarkedLabels => pc'[p] \in MarkedLabels /\ loc'[p].txn = x
    BY <1>3, <2>2
  <2>4. \A y : y \in InFlight' <=> y \in InFlight
    BY <1>2, <2>2, <2>3
  <2>5. InFlight' = InFlight
    BY <2>4
  <2> QED BY <2>1, <2>5 DEF Counted
<1> QED BY <1>4, <1>5, <1>6, <1>7

-----------------------------------------------------------------------------
(* The oracle, latest_writes and the versions handed out. *)

\* The steps that move each of them.
LEMMA DataStep ==
    ASSUME NEW p \in Thread, Step(p) \/ Call(p)
    PROVE  /\ ~CommitAllocate(p) => oracle' = oracle
           /\ ~CommitPublish(p) /\ ~GcRemove(p) => latest_writes' = latest_writes
           /\ ~CommitNotify(p) /\ ~GcRemove(p) => reclaimed' = reclaimed
<1>1. CASE \/ BeginSnapshot(p) \/ BeginInsert(p) \/ CommitAbort(p) \/ CommitLost(p)
           \/ RunGc(p) \/ CommitNotify(p)
  BY <1>1 DEF BeginSnapshot, BeginInsert, CommitAbort, CommitLost, RunGc,
              CommitNotify, ghosts, shared
<1>2. CASE \/ CommitValidate(p) \/ CommitAllocate(p) \/ CommitPublishTs(p)
           \/ CommitPublish(p) \/ CommitCount(p) \/ CommitMark(p)
  BY <1>2 DEF CommitValidate, CommitAllocate, CommitPublishTs, CommitPublish,
              CommitCount, CommitMark, ghosts, shared
<1>3. CASE \/ GcMin(p) \/ GcScan(p) \/ GcRemove(p) \/ GcCommittedTs(p)
           \/ GcTxns(p) \/ GcReset(p)
  BY <1>3 DEF GcMin, GcScan, GcRemove, GcCommittedTs, GcTxns, GcReset, ghosts, shared
<1>4. CASE \E x \in DOMAIN txns : \/ Abort(p, x) \/ CommitRead(p, x)
                                  \/ \E k \in Key : RecordWrite(p, x, k)
  BY <1>4 DEF Abort, CommitRead, RecordWrite, ghosts, shared
<1> QED BY <1>1, <1>2, <1>3, <1>4 DEF Step, Call

\* Publication: the entries of the write set get the timestamp, and the list
\* of superseded versions is what they were.
LEMMA PublishStep ==
    ASSUME NEW p \in Thread, Types, CommitPublish(p)
    PROVE  /\ pc[p] = "publish" /\ pc'[p] \in {"notify", "count"}
           /\ \A k \in Key : k \in loc[p].write_set => latest_writes'[k] = loc[p].commit_ts
           /\ \A k \in Key : k \notin loc[p].write_set => latest_writes'[k] = latest_writes[k]
           /\ \A v \in loc'[p].superseded :
                 /\ v[1] \in loc[p].write_set
                 /\ v[2] = latest_writes[v[1]]
                 /\ v[2] \in 1..(loc[p].commit_ts - 1)
           /\ loc'[p].read_ts = loc[p].read_ts
           /\ loc'[p].min_active = loc[p].min_active
           /\ UNCHANGED <<oracle, txns, history, reclaimed>>
<1> DEFINE old == {<<k, latest_writes[k]>> :
                     k \in {w \in loc[p].write_set :
                              latest_writes[w] \in 1..(loc[p].commit_ts - 1)}}
<1>1. loc \in [Thread -> Locals] /\ loc[p] \in Locals /\ pc \in [Thread -> Labels]
  BY DEF Types
<1>2. \A v \in old : /\ v[1] \in loc[p].write_set
                     /\ v[2] = latest_writes[v[1]]
                     /\ v[2] \in 1..(loc[p].commit_ts - 1)
  OBVIOUS
<1>3. loc' = [loc EXCEPT ![p].superseded = old]
  BY DEF CommitPublish
<1> HIDE DEF old
<1>4. /\ loc'[p].superseded = old
      /\ loc'[p].read_ts = loc[p].read_ts
      /\ loc'[p].min_active = loc[p].min_active
  BY <1>1, <1>3 DEF Locals
<1>5. pc[p] = "publish" /\ pc'[p] \in {"notify", "count"}
  BY <1>1 DEF CommitPublish, Goto
<1>6. latest_writes' = [k \in Key |-> IF k \in loc[p].write_set
                                      THEN loc[p].commit_ts ELSE latest_writes[k]]
      /\ UNCHANGED <<oracle, txns, history, reclaimed>>
  BY DEF CommitPublish, ghosts
<1> QED BY <1>2, <1>4, <1>5, <1>6

\* The locals a step of p sets: snapshots and bounds are not after the oracle,
\* and only publication makes a list of superseded versions.
LocalsMove(p) ==
    /\ loc'[p].read_ts <= oracle
    /\ loc'[p].min_active <= oracle
    /\ ~CommitPublish(p) => /\ pc'[p] # "notify"
                            /\ loc'[p].superseded \subseteq loc[p].superseded

LEMMA LocalsStep ==
    ASSUME NEW p \in Thread, Types, Timed, TimedCalls, Step(p) \/ Call(p)
    PROVE  LocalsMove(p)
<1> USE DEF Goto, Return
<1>1. /\ pc \in [Thread -> Labels] /\ loc \in [Thread -> Locals] /\ loc[p] \in Locals
      /\ oracle \in Nat
      /\ loc[p].read_ts <= oracle /\ loc[p].min_active <= oracle
  BY DEF Types, TimedCalls
<1>2. /\ NoLocals.read_ts = 0 /\ NoLocals.min_active = 0 /\ NoLocals.superseded = {}
      /\ [NoLocals EXCEPT !.caller = "commit"].read_ts = 0
      /\ [NoLocals EXCEPT !.caller = "commit"].min_active = 0
      /\ [NoLocals EXCEPT !.caller = "commit"].superseded = {}
  BY DEF NoLocals, NoTs
<1>3. ASSUME pc'[p] # "notify",
             loc'[p] = NoLocals \/ loc'[p] = [NoLocals EXCEPT !.caller = "commit"]
      PROVE  LocalsMove(p)
  <2>1. loc'[p].read_ts = 0 /\ loc'[p].min_active = 0 /\ loc'[p].superseded = {}
    BY <1>2, <1>3, Zenon
  <2> QED BY <1>1, <1>3, <2>1 DEF LocalsMove
<1>4. ASSUME pc'[p] # "notify", loc'[p].read_ts <= oracle, loc'[p].min_active <= oracle,
             loc'[p].superseded = loc[p].superseded
      PROVE  LocalsMove(p)
  BY <1>4 DEF LocalsMove
<1>5. CASE BeginInsert(p) \/ CommitAbort(p) \/ CommitLost(p) \/ GcReset(p)
  BY <1>1, <1>3, <1>5 DEF BeginInsert, CommitAbort, CommitLost, GcReset
<1>6. CASE CommitCount(p)
  BY <1>1, <1>3, <1>6 DEF CommitCount
<1>7. CASE GcTxns(p)
  BY <1>1, <1>3, <1>4, <1>7 DEF GcTxns
<1>8. CASE \/ CommitValidate(p) \/ CommitMark(p) \/ CommitPublishTs(p)
           \/ CommitNotify(p) \/ RunGc(p) \/ GcRemove(p) \/ GcCommittedTs(p)
  BY <1>1, <1>4, <1>8 DEF CommitValidate, CommitMark, CommitPublishTs, CommitNotify,
                          RunGc, GcRemove, GcCommittedTs
<1>9. CASE \E x \in DOMAIN txns : Abort(p, x) \/ \E k \in Key : RecordWrite(p, x, k)
  <2>1. loc' = loc /\ pc' = pc /\ pc[p] = "idle"
    BY <1>9 DEF Abort, RecordWrite, CanCall
  <2> QED BY <1>1, <1>4, <2>1
<1>10. CASE BeginSnapshot(p)
  <2>1. /\ loc'[p] = [loc[p] EXCEPT !.txn = next_txn_id, !.read_ts = oracle]
        /\ pc'[p] = "insert"
    BY <1>1, <1>10 DEF BeginSnapshot
  <2>2. /\ loc'[p].read_ts = oracle /\ loc'[p].min_active = loc[p].min_active
        /\ loc'[p].superseded = loc[p].superseded
    BY <1>1, <2>1 DEF Locals
  <2> QED BY <1>1, <1>4, <2>1, <2>2
<1>11. CASE \E x \in DOMAIN txns : CommitRead(p, x)
  <2>1. PICK x \in DOMAIN txns : CommitRead(p, x)
    BY <1>11
  <2>2. /\ loc'[p] = [loc[p] EXCEPT !.txn = x, !.read_ts = txns[x].read_ts,
                                    !.write_set = txns[x].write_set]
        /\ pc'[p] = "validate"
    BY <1>1, <2>1 DEF CommitRead
  <2>3. /\ loc'[p].read_ts = txns[x].read_ts /\ loc'[p].min_active = loc[p].min_active
        /\ loc'[p].superseded = loc[p].superseded
    BY <1>1, <2>2 DEF Locals
  <2> QED BY <1>1, <1>4, <2>2, <2>3 DEF Timed
<1>12. CASE CommitAllocate(p)
  <2>1. /\ loc'[p] = [loc[p] EXCEPT !.commit_ts = oracle + 1]
        /\ pc'[p] = "mark"
    BY <1>1, <1>12 DEF CommitAllocate
  <2>2. /\ loc'[p].read_ts = loc[p].read_ts /\ loc'[p].min_active = loc[p].min_active
        /\ loc'[p].superseded = loc[p].superseded
    BY <1>1, <2>1 DEF Locals
  <2> QED BY <1>1, <1>4, <2>1, <2>2
<1>13. CASE CommitPublish(p)
  BY <1>1, <1>13, PublishStep DEF LocalsMove
<1>14. CASE GcMin(p)
  <2>1. /\ loc'[p] = [loc[p] EXCEPT !.min_active = MinActive]
        /\ pc'[p] = "gc_scan"
    BY <1>1, <1>14 DEF GcMin
  <2>2. /\ loc'[p].read_ts = loc[p].read_ts /\ loc'[p].min_active = MinActive
        /\ loc'[p].superseded = loc[p].superseded
    BY <1>1, <2>1 DEF Locals
  <2> QED BY <1>1, <1>4, <2>1, <2>2, MinActiveBound
<1>15. CASE GcScan(p)
  <2>1. /\ \E ks : loc'[p] = [loc[p] EXCEPT !.keys = ks]
        /\ pc'[p] # "notify"
    BY <1>1, <1>15 DEF GcScan
  <2>2. /\ loc'[p].read_ts = loc[p].read_ts /\ loc'[p].min_active = loc[p].min_active
        /\ loc'[p].superseded = loc[p].superseded
    BY <1>1, <2>1 DEF Locals
  <2> QED BY <1>1, <1>4, <2>1, <2>2
<1> QED BY <1>5, <1>6, <1>7, <1>8, <1>9, <1>10, <1>11, <1>12, <1>13, <1>14, <1>15
        DEF Step, Call

\* The timestamp of a commit is the next one.
LEMMA AllocateStep ==
    ASSUME NEW p \in Thread, Types, CommitAllocate(p)
    PROVE  /\ pc[p] = "allocate" /\ pc'[p] = "mark"
           /\ oracle' = oracle + 1
           /\ loc'[p].commit_ts = oracle + 1
           /\ loc'[p].superseded = loc[p].superseded
<1>1. loc \in [Thread -> Locals] /\ loc[p] \in Locals /\ pc \in [Thread -> Labels]
  BY DEF Types
<1>2. /\ loc'[p] = [loc[p] EXCEPT !.commit_ts = oracle + 1]
      /\ pc[p] = "allocate" /\ pc'[p] = "mark" /\ oracle' = oracle + 1
  BY <1>1 DEF CommitAllocate, Goto
<1>3. /\ loc'[p].commit_ts = oracle + 1
      /\ loc'[p].superseded = loc[p].superseded
  BY <1>1, <1>2 DEF Locals
<1> QED BY <1>2, <1>3

\* The collector empties entries, under no lock, and hands them out.
LEMMA RemoveStep ==
    ASSUME NEW p \in Thread, Types, GcRemove(p)
    PROVE  /\ pc[p] = "gc_remove" /\ pc'[p] = "gc_ts" /\ lw_lock = None
           /\ \A k \in Key : k \in loc[p].keys => latest_writes'[k] = 0
           /\ \A k \in Key : k \notin loc[p].keys => latest_writes'[k] = latest_writes[k]
           /\ \A v \in reclaimed' \ reclaimed :
                 v[1] \in loc[p].keys /\ v[2] = latest_writes[v[1]] /\ v[2] # 0
           /\ reclaimed \subseteq reclaimed'
           /\ UNCHANGED <<oracle, txns, history, loc>>
<1> DEFINE gone == {k \in loc[p].keys : latest_writes[k] # NoTs}
<1>1. latest_writes \in [Key -> Nat] /\ pc \in [Thread -> Labels]
  BY DEF Types
<1>2. /\ latest_writes' = [k \in Key |-> IF k \in gone THEN NoTs ELSE latest_writes[k]]
      /\ reclaimed' = IF mode.callback
                      THEN reclaimed \cup {<<k, latest_writes[k]>> : k \in gone}
                      ELSE reclaimed
  BY DEF GcRemove
<1>3. \A v \in {<<k, latest_writes[k]>> : k \in gone} :
         v[1] \in loc[p].keys /\ v[2] = latest_writes[v[1]] /\ v[2] # 0
  BY DEF NoTs
<1>4. /\ pc[p] = "gc_remove" /\ pc'[p] = "gc_ts" /\ lw_lock = None
      /\ UNCHANGED <<oracle, txns, history, loc>>
  BY <1>1 DEF GcRemove, Goto
<1>5. \A v \in reclaimed' \ reclaimed :
         v[1] \in loc[p].keys /\ v[2] = latest_writes[v[1]] /\ v[2] # 0
  BY <1>2, <1>3
<1>6. reclaimed \subseteq reclaimed'
  BY <1>2
<1>7. /\ \A k \in Key : k \in loc[p].keys => latest_writes'[k] = 0
      /\ \A k \in Key : k \notin loc[p].keys => latest_writes'[k] = latest_writes[k]
  BY <1>2 DEF NoTs
<1> QED BY <1>4, <1>5, <1>6, <1>7

\* Timestamps grow.
LEMMA OracleStep ==
    ASSUME NEW p \in Thread, Types, Step(p) \/ Call(p)
    PROVE  oracle \in Nat /\ oracle' \in Nat /\ oracle <= oracle'
<1>1. oracle \in Nat
  BY DEF Types
<1>2. oracle' = oracle \/ oracle' = oracle + 1
  BY DataStep, AllocateStep
<1> QED BY <1>1, <1>2

\* Nothing gets later than the oracle.
LEMMA TimedStep ==
    ASSUME NEW p \in Thread, Types, Identified, Recorded, Timed, TimedCalls, Stamped,
           TableMoves(p), Step(p) \/ Call(p)
    PROVE  Timed'
<1>1. /\ oracle \in Nat /\ oracle' \in Nat /\ oracle <= oracle'
      /\ latest_writes \in [Key -> Nat]
      /\ reclaimed \subseteq Key \X Nat /\ loc[p].superseded \subseteq Key \X Nat
  <2>1. loc[p] \in Locals /\ latest_writes \in [Key -> Nat] /\ reclaimed \subseteq Key \X Nat
    BY DEF Types
  <2> QED BY <2>1, OracleStep DEF Locals
<1>2. \A x \in DOMAIN txns' : txns'[x].read_ts <= oracle
  BY DEF TableMoves, Timed, TimedCalls
<1>3. \A k \in Key : latest_writes'[k] <= oracle
  <2>1. CASE CommitPublish(p)
    BY <1>1, <2>1, PublishStep DEF Timed, Stamped, StampedLabels
  <2>2. CASE GcRemove(p)
    BY <1>1, <2>2, RemoveStep DEF Timed
  <2> QED BY <2>1, <2>2, DataStep DEF Timed
<1>4. \A h \in history' : h.commit_ts <= oracle
  <2>1. CASE CommitMark(p)
    <3>1. loc[p].commit_ts = oracle
      BY <2>1, MarkStep DEF Stamped, StampedLabels
    <3>2. history' = history \cup {Record(p)} /\ Record(p).commit_ts = loc[p].commit_ts
      BY <2>1, MarkStep
    <3> QED BY <1>1, <3>1, <3>2 DEF Timed
  <2> QED BY <2>1, HistoryStep DEF Timed
<1>5. \A v \in reclaimed' : v[2] >= 1 /\ v[2] <= oracle
  <2>1. CASE CommitNotify(p)
    <3>1. reclaimed' \subseteq reclaimed \cup loc[p].superseded
      BY <2>1 DEF CommitNotify
    <3> QED BY <3>1 DEF Timed, TimedCalls
  <2>2. CASE GcRemove(p)
    <3>1. loc[p].keys \subseteq Key
      BY DEF Types, Locals
    <3>2. \A v \in reclaimed' \ reclaimed :
             v[1] \in Key /\ v[2] = latest_writes[v[1]] /\ v[2] # 0
      BY <2>2, <3>1, RemoveStep
    <3> QED BY <1>1, <3>2 DEF Timed
  <2> QED BY <2>1, <2>2, DataStep DEF Timed
<1>6. ASSUME NEW n, n <= oracle, n \in Int PROVE n <= oracle'
  BY <1>1, <1>6
<1>7. /\ \A x \in DOMAIN txns' : txns'[x].read_ts \in Nat
      /\ \A k \in Key : latest_writes'[k] \in Nat
      /\ \A h \in history' : h.commit_ts \in Nat
      /\ \A v \in reclaimed' : v[2] \in Nat
  BY TableTyped, TablesTyped DEF Transaction, Entry
<1> QED BY <1>1, <1>2, <1>3, <1>4, <1>5, <1>7 DEF Timed

\* ... nor does what calls keep.
LEMMA TimedCallsStep ==
    ASSUME NEW p \in Thread, Types, Types', TimedCalls, Stamped,
           Moves(p), LocalsMove(p), Step(p) \/ Call(p)
    PROVE  TimedCalls'
<1>1. /\ oracle \in Nat /\ oracle' \in Nat /\ oracle <= oracle'
      /\ loc' \in [Thread -> Locals]
  <2>1. loc' \in [Thread -> Locals]
    BY DEF Types
  <2> QED BY <2>1, OracleStep
<1>2. ASSUME NEW q \in Thread
      PROVE  /\ loc'[q].read_ts <= oracle
             /\ loc'[q].min_active <= oracle
             /\ \A v \in loc'[q].superseded : v[2] >= 1 /\ v[2] <= oracle
  <2>1. CASE q # p
    BY <2>1 DEF Moves, TimedCalls
  <2>2. CASE q = p /\ ~CommitPublish(p)
    BY <2>2 DEF LocalsMove, TimedCalls
  <2>3. CASE q = p /\ CommitPublish(p)
    BY <1>1, <2>3, PublishStep DEF LocalsMove, Stamped, StampedLabels
  <2> QED BY <2>1, <2>2, <2>3
<1>3. \A q \in Thread : /\ loc'[q].read_ts \in Nat /\ loc'[q].min_active \in Nat
                        /\ \A v \in loc'[q].superseded : v[2] \in Nat
  BY <1>1 DEF Locals
<1> QED BY <1>1, <1>2, <1>3 DEF TimedCalls

\* The timestamp of a commit that holds the lock stays the last one.
LEMMA StampedStep ==
    ASSUME NEW p \in Thread, Types, Types', Scheduled, Identified, Recorded, Timed, TimedCalls,
           Stamped, Moves(p), LocalsMove(p), CallMoves(p), Step(p) \/ Call(p)
    PROVE  Stamped'
<1>1. /\ oracle \in Nat /\ latest_writes \in [Key -> Nat] /\ loc \in [Thread -> Locals]
      /\ reclaimed \subseteq Key \X Nat /\ None \notin Thread
  BY ConcurrentTMAssumption DEF Types
<1>2. SUFFICES ASSUME NEW q \in Thread, pc'[q] \in StampedLabels
               PROVE  /\ loc'[q].commit_ts = oracle'
                      /\ \A k \in Key : latest_writes'[k] < oracle'
                      /\ \A v \in reclaimed' : v[2] < oracle'
                      /\ \A r \in Thread : \A v \in loc'[r].superseded : v[2] < oracle'
  BY DEF Stamped
<1>3. ASSUME pc[q] \in StampedLabels, ~CommitAllocate(p), ~CommitPublish(p), ~GcRemove(p),
             loc'[q].commit_ts = loc[q].commit_ts
      PROVE  /\ loc'[q].commit_ts = oracle'
             /\ \A k \in Key : latest_writes'[k] < oracle'
             /\ \A v \in reclaimed' : v[2] < oracle'
             /\ \A r \in Thread : \A v \in loc'[r].superseded : v[2] < oracle'
  <2>1. /\ loc[q].commit_ts = oracle
        /\ \A k \in Key : latest_writes[k] < oracle
        /\ \A v \in reclaimed : v[2] < oracle
        /\ \A r \in Thread : \A v \in loc[r].superseded : v[2] < oracle
    BY <1>3 DEF Stamped
  <2>2. oracle' = oracle /\ latest_writes' = latest_writes
    BY <1>3, DataStep
  <2>3. \A r \in Thread : loc'[r].superseded \subseteq loc[r].superseded
    BY <1>3 DEF Moves, LocalsMove
  <2>4. reclaimed' \subseteq reclaimed \cup loc[p].superseded
    BY <1>3, DataStep DEF CommitNotify
  <2> QED BY <1>3, <2>1, <2>2, <2>3, <2>4
<1>4. CASE q # p
  <2>1. pc[q] \in StampedLabels /\ loc'[q] = loc[q]
    BY <1>2, <1>4 DEF Moves
  <2>2. lw_lock = q
    BY <2>1 DEF Scheduled, StampedLabels, LockLabels
  <2>3. ~CommitAllocate(p) /\ ~CommitPublish(p) /\ ~GcRemove(p)
    BY <1>1, <1>4, <2>2, AllocateStep, PublishStep, RemoveStep DEF Scheduled, LockLabels
  <2> QED BY <1>3, <2>1, <2>3
<1>5. CASE q = p /\ CommitAllocate(p)
  <2>1. \A r \in Thread : loc'[r].superseded = loc[r].superseded
    BY <1>5, AllocateStep DEF Moves
  <2>2. ~CommitPublish(p) /\ ~GcRemove(p) /\ ~CommitNotify(p)
    BY <1>5, AllocateStep DEF CommitPublish, GcRemove, CommitNotify
  <2>3. /\ oracle' = oracle + 1 /\ loc'[q].commit_ts = oracle'
        /\ latest_writes' = latest_writes /\ reclaimed' = reclaimed
    BY <1>5, <2>2, AllocateStep, DataStep
  <2>4. \A r \in Thread : \A v \in loc[r].superseded : v[2] \in Nat /\ v[2] <= oracle
    BY <1>1 DEF TimedCalls, Locals
  <2>5. \A v \in reclaimed : v[2] \in Nat /\ v[2] <= oracle
    BY <1>1 DEF Timed
  <2> QED BY <1>1, <2>1, <2>3, <2>4, <2>5 DEF Timed
<1>6. CASE q = p /\ CommitMark(p)
  <2>1. pc[p] \in StampedLabels /\ loc' = loc
    BY <1>6, MarkStep DEF StampedLabels
  <2>2. ~CommitAllocate(p) /\ ~CommitPublish(p) /\ ~GcRemove(p)
    BY <1>6, MarkStep, AllocateStep, PublishStep, RemoveStep
  <2> QED BY <1>3, <1>6, <2>1, <2>2
<1>7. CASE q = p /\ ~CommitMark(p) /\ ~CommitAllocate(p)
  <2>1. CommitPublishTs(p)
    BY <1>2, <1>7 DEF CallMoves, StampedLabels
  <2>2. pc[p] \in StampedLabels /\ loc' = loc /\ ~CommitPublish(p) /\ ~GcRemove(p)
    BY <2>1 DEF CommitPublishTs, CommitPublish, GcRemove, StampedLabels
  <2> QED BY <1>3, <1>7, <2>2
<1> QED BY <1>4, <1>5, <1>6, <1>7

\* A commit that validated stays valid: it holds the lock.
LEMMA ValidatedStep ==
    ASSUME NEW p \in Thread, Types, Scheduled, Validated,
           Moves(p), CallMoves(p), Step(p) \/ Call(p)
    PROVE  Validated'
<1>1. SUFFICES ASSUME NEW q \in Thread, pc'[q] \in {"allocate", "mark"},
                      NEW k \in loc'[q].write_set, latest_writes'[k] > loc'[q].read_ts
               PROVE  FALSE
  BY DEF Validated, Conflict
<1>2. CASE q # p
  <2>1. pc[q] \in {"allocate", "mark"} /\ loc'[q] = loc[q]
    BY <1>1, <1>2 DEF Moves
  <2>2. lw_lock = q /\ lw_lock # None /\ pc[p] \notin LockLabels
    BY <1>2, <2>1, ConcurrentTMAssumption DEF Scheduled, LockLabels
  <2>3. latest_writes' = latest_writes
    BY <2>2, DataStep, PublishStep, RemoveStep DEF LockLabels
  <2> QED BY <1>1, <2>1, <2>3 DEF Validated, Conflict
<1>3. CASE q = p /\ CommitValidate(p)
  <2>1. ~Conflict(p) /\ loc' = loc /\ latest_writes' = latest_writes
    BY <1>1, <1>3 DEF CommitValidate, Goto, Types, shared
  <2> QED BY <1>1, <1>3, <2>1 DEF Conflict
<1>4. CASE q = p /\ CommitAllocate(p)
  <2>1. /\ pc[p] = "allocate" /\ latest_writes' = latest_writes
        /\ loc'[p].read_ts = loc[p].read_ts /\ loc'[p].write_set = loc[p].write_set
    BY <1>1, <1>4, AllocateStep DEF CallMoves, CommitLabels, CommitAllocate
  <2> QED BY <1>1, <1>4, <2>1 DEF Validated, Conflict
<1> QED BY <1>1, <1>2, <1>3, <1>4 DEF CallMoves

\* What no snapshot in use needs none will: later ones start at the oracle.
LEMMA UnneededStep ==
    ASSUME NEW p \in Thread, Types, Moves(p), TableMoves(p), CallMoves(p), IdsMove(p),
           Step(p) \/ Call(p), NEW c \in Nat, c <= oracle, Unneeded(c)
    PROVE  Unneeded(c)'
<1>1. ASSUME NEW x \in DOMAIN txns', txns'[x].state = "Active"
      PROVE  c <= txns'[x].read_ts
  BY <1>1 DEF Unneeded, TableMoves
<1>2. ASSUME NEW q \in Thread, pc'[q] = "insert" PROVE c <= loc'[q].read_ts
  <2>1. CASE q = p
    BY <1>2, <2>1 DEF CallMoves, IdsMove
  <2>2. CASE q # p
    BY <1>2, <2>2 DEF Unneeded, Moves
  <2> QED BY <2>1, <2>2
<1> QED BY <1>1, <1>2 DEF Unneeded

\* The collector's bound stays below the snapshots in use: those it did not see
\* in the table are what overtakes it, and later ones start at the oracle.
LEMMA BoundedStep ==
    ASSUME NEW p \in Thread, Types, Types', Timed, TimedCalls, Bounded, ~overtaken',
           Moves(p), TableMoves(p), CallMoves(p), IdsMove(p), Step(p) \/ Call(p)
    PROVE  Bounded'
<1>1. /\ pc \in [Thread -> Labels] /\ pc' \in [Thread -> Labels]
      /\ loc \in [Thread -> Locals] /\ loc[p] \in Locals
      /\ \A q \in Thread : loc[q].min_active \in Nat /\ loc[q].min_active <= oracle
  BY DEF Types, Locals, TimedCalls
<1>2. ASSUME NEW q \in Thread, pc[q] \in BoundLabels,
             loc'[q].min_active = loc[q].min_active
      PROVE  Unneeded(loc[q].min_active)'
  <2> DEFINE c == loc[q].min_active
  <2>1. c \in Nat /\ c <= oracle /\ Unneeded(c)
    BY <1>1, <1>2 DEF Bounded
  <2> HIDE DEF c
  <2>2. \A x \in DOMAIN txns' : txns'[x].state = "Active" => c <= txns'[x].read_ts
    BY <2>1, UnneededStep DEF Unneeded
  <2>3. \A r \in Thread : pc'[r] = "insert" => c <= loc'[r].read_ts
    BY <2>1, UnneededStep DEF Unneeded
  <2> QED BY <1>2, <2>2, <2>3 DEF Unneeded, c
<1>3. CASE GcMin(p)
  <2> DEFINE c == MinActive
  <2>1. /\ loc'[p].min_active = c /\ c \in Nat /\ c <= oracle
        /\ \A x \in DOMAIN txns : txns[x].state = "Active" => c <= txns[x].read_ts
    BY <1>1, <1>3, MinActiveBound DEF GcMin, Locals
  <2>2. ~Overlooks(c)
    BY <1>3, Zenon DEF GcMin
  <2> HIDE DEF c
  <2>3. \A q \in Thread : loc[q].read_ts \in Nat
    BY <1>1 DEF Locals
  <2>4. Unneeded(c)
    BY <2>1, <2>2, <2>3 DEF Unneeded, Overlooks
  <2>5. /\ \A x \in DOMAIN txns' : txns'[x].state = "Active" => c <= txns'[x].read_ts
        /\ \A r \in Thread : pc'[r] = "insert" => c <= loc'[r].read_ts
    BY <2>1, <2>4, UnneededStep DEF Unneeded
  <2> SUFFICES ASSUME NEW q \in Thread, pc'[q] \in BoundLabels
               PROVE  Unneeded(loc[q].min_active)'
    BY DEF Bounded
  <2>6. CASE q = p
    BY <2>1, <2>5, <2>6 DEF Unneeded
  <2>7. CASE q # p
    BY <1>2, <2>7 DEF Moves
  <2> QED BY <2>6, <2>7
<1>4. CASE GcScan(p) \/ GcRemove(p) \/ GcCommittedTs(p)
  <2>1. pc[p] \in BoundLabels /\ loc'[p].min_active = loc[p].min_active
    BY <1>1, <1>4 DEF GcScan, GcRemove, GcCommittedTs, BoundLabels, Locals
  <2> QED BY <1>2, <2>1 DEF Bounded, Moves
<1>5. ASSUME pc'[p] \notin BoundLabels PROVE Bounded'
  BY <1>2, <1>5 DEF Bounded, Moves
<1>6. CASE \/ BeginInsert(p) \/ CommitAbort(p) \/ CommitLost(p) \/ RunGc(p)
           \/ CommitMark(p) \/ CommitNotify(p) \/ BeginSnapshot(p)
  BY <1>1, <1>5, <1>6 DEF BeginInsert, CommitAbort, CommitLost, RunGc, CommitMark,
                          CommitNotify, BeginSnapshot, Goto, Return, BoundLabels
<1>7. CASE \/ CommitValidate(p) \/ CommitAllocate(p) \/ CommitPublishTs(p)
           \/ CommitPublish(p) \/ CommitCount(p)
  BY <1>1, <1>5, <1>7 DEF CommitValidate, CommitAllocate, CommitPublishTs, CommitPublish,
                          CommitCount, Goto, Return, BoundLabels
<1>8. CASE GcTxns(p) \/ GcReset(p)
  BY <1>1, <1>5, <1>8 DEF GcTxns, GcReset, Goto, Return, BoundLabels
<1>9. CASE \E x \in DOMAIN txns : \/ Abort(p, x) \/ CommitRead(p, x)
                                  \/ \E k \in Key : RecordWrite(p, x, k)
  BY <1>1, <1>5, <1>9 DEF Abort, CommitRead, RecordWrite, Goto, BoundLabels, CanCall
<1> QED BY <1>3, <1>4, <1>6, <1>7, <1>8, <1>9 DEF Step, Call

\* latest_writes remembers the committed writers that somebody may conflict
\* with: a mark is followed by its publication, later publications only raise
\* entries, and the collector drops those below every snapshot in use.
LEMMA RememberedStep ==
    ASSUME NEW p \in Thread, Types, Scheduled, Identified, Recorded, Timed, TimedCalls,
           Stamped, Bounded, Remembered, ~overtaken', Moves(p), TableMoves(p), CallMoves(p),
           IdsMove(p), Step(p) \/ Call(p)
    PROVE  Remembered'
<1>1. /\ oracle \in Nat /\ latest_writes \in [Key -> Nat] /\ history \subseteq Entry
      /\ loc \in [Thread -> Locals] /\ loc[p] \in Locals
      /\ txns \in [DOMAIN txns -> Transaction]
  BY DEF Types
<1>2. \A h \in history : h.commit_ts \in Nat /\ h.commit_ts <= oracle /\ h.write_set \subseteq Key
  BY <1>1 DEF Timed, Entry
<1>3. ASSUME NEW c \in Nat, c <= oracle, Unneeded(c) PROVE Unneeded(c)'
  <2>1. /\ \A x \in DOMAIN txns' : txns'[x].state = "Active" => c <= txns'[x].read_ts
        /\ \A q \in Thread : pc'[q] = "insert" => c <= loc'[q].read_ts
    BY <1>3, UnneededStep DEF Unneeded
  <2> QED BY <2>1 DEF Unneeded
<1>4. ASSUME NEW h \in history, Publishing(h), ~CommitPublish(p) PROVE Publishing(h)'
  <2>1. PICK q \in Thread : pc[q] \in {"publish_ts", "publish"} /\ loc[q].txn = h.txn
    BY <1>4 DEF Publishing
  <2>2. CASE q # p
    BY <2>1, <2>2 DEF Publishing, Moves
  <2>3. CASE q = p
    <3>1. CommitPublishTs(p)
      <4>1. pc[p] \in {"publish_ts", "publish"}
        BY <2>1, <2>3
      <4>2. CASE Call(p)
        <5>1. CASE BeginSnapshot(p) \/ RunGc(p)
          BY <4>1, <5>1 DEF BeginSnapshot, RunGc, CanCall
        <5>2. CASE \E x \in DOMAIN txns : \/ Abort(p, x) \/ CommitRead(p, x)
                                          \/ \E k \in Key : RecordWrite(p, x, k)
          BY <4>1, <5>2 DEF RecordWrite, Abort, CommitRead, CanCall
        <5> QED BY <4>2, <5>1, <5>2 DEF Call
      <4>3. CASE Step(p)
        BY <1>4, <4>1, <4>3
           DEF Step, BeginInsert, CommitValidate, CommitAbort, CommitAllocate, CommitLost,
               CommitMark, CommitNotify, CommitCount, GcMin, GcScan, GcRemove,
               GcCommittedTs, GcTxns, GcReset
      <4> QED BY <4>2, <4>3
    <3>2. pc'[p] = "publish" /\ loc' = loc
      BY <3>1 DEF CommitPublishTs, Goto, Types
    <3> QED BY <2>1, <2>3, <3>2 DEF Publishing
  <2> QED BY <2>2, <2>3
<1>5. CASE CommitPublish(p)
  <2>1. /\ history' = history /\ oracle' = oracle
        /\ loc[p].commit_ts = oracle
        /\ \A k \in Key : k \in loc[p].write_set => latest_writes'[k] = oracle
        /\ \A k \in Key : k \notin loc[p].write_set => latest_writes'[k] = latest_writes[k]
    BY <1>5, PublishStep DEF Stamped, StampedLabels
  <2> SUFFICES ASSUME NEW h \in history, NEW k \in h.write_set
               PROVE  \/ latest_writes'[k] >= h.commit_ts
                      \/ Publishing(h)'
                      \/ Unneeded(h.commit_ts)'
    BY <2>1 DEF Remembered
  <2>2. k \in Key
    BY <1>2
  <2>3. CASE k \in loc[p].write_set
    BY <1>1, <1>2, <2>1, <2>2, <2>3
  <2>4. CASE k \notin loc[p].write_set /\ latest_writes[k] >= h.commit_ts
    BY <2>1, <2>2, <2>4
  <2>5. CASE k \notin loc[p].write_set /\ Publishing(h)
    <3>1. PICK q \in Thread : pc[q] \in {"publish_ts", "publish"} /\ loc[q].txn = h.txn
      BY <2>5 DEF Publishing
    <3>2. lw_lock = p /\ lw_lock = q
      BY <1>5, <3>1, PublishStep DEF Scheduled, LockLabels
    <3>3. h.write_set = loc[p].write_set
      BY <3>1, <3>2 DEF Recorded
    <3> QED BY <2>5, <3>3
  <2>6. CASE Unneeded(h.commit_ts)
    BY <1>2, <1>3, <2>6
  <2> QED BY <2>3, <2>4, <2>5, <2>6 DEF Remembered
<1>6. CASE GcRemove(p)
  <2>1. /\ history' = history /\ txns' = txns
        /\ pc[p] = "gc_remove" /\ loc[p].keys \subseteq Key
        /\ \A k \in Key : k \notin loc[p].keys => latest_writes'[k] = latest_writes[k]
    BY <1>1, <1>6, RemoveStep DEF Locals
  <2>2. \A k \in loc[p].keys : latest_writes[k] # 0 => latest_writes[k] < loc[p].min_active
    <3>1. ~ \E k \in {x \in loc[p].keys : latest_writes[x] # NoTs} :
               latest_writes[k] >= loc[p].min_active
      BY <1>6, Zenon DEF GcRemove
    <3>2. loc[p].min_active \in Nat
      BY <1>1 DEF Locals
    <3> QED BY <1>1, <2>1, <3>1, <3>2 DEF NoTs
  <2> SUFFICES ASSUME NEW h \in history, NEW k \in h.write_set
               PROVE  \/ latest_writes'[k] >= h.commit_ts
                      \/ Publishing(h)'
                      \/ Unneeded(h.commit_ts)'
    BY <2>1 DEF Remembered
  <2>3. k \in Key
    BY <1>2
  <2>4. CASE Publishing(h)
    BY <1>4, <1>6, <2>4, <2>1 DEF CommitPublish
  <2>5. CASE Unneeded(h.commit_ts)
    BY <1>2, <1>3, <2>5
  <2>6. CASE latest_writes[k] >= h.commit_ts /\ k \notin loc[p].keys
    BY <2>1, <2>3, <2>6
  <2>7. CASE latest_writes[k] >= h.commit_ts /\ k \in loc[p].keys
    <3>1. /\ loc[p].min_active \in Nat
          /\ latest_writes[k] # 0 => latest_writes[k] < loc[p].min_active
      BY <1>1, <2>1, <2>2, <2>7 DEF Locals
    <3>2. Unneeded(loc[p].min_active)
      BY <2>1 DEF Bounded, BoundLabels
    <3>3. /\ \A x \in DOMAIN txns : txns[x].read_ts \in Nat
          /\ \A q \in Thread : loc[q].read_ts \in Nat
      BY <1>1 DEF Transaction, Locals
    <3>4. h.commit_ts <= loc[p].min_active
      BY <1>1, <1>2, <2>3, <2>7, <3>1
    <3>5. Unneeded(h.commit_ts)
      BY <1>2, <3>1, <3>2, <3>3, <3>4 DEF Unneeded
    <3> QED BY <1>2, <1>3, <3>5
  <2> QED BY <2>4, <2>5, <2>6, <2>7 DEF Remembered
<1>7. CASE ~CommitPublish(p) /\ ~GcRemove(p)
  <2>1. latest_writes' = latest_writes
    BY <1>7, DataStep
  <2>2. ASSUME NEW h \in history, NEW k \in h.write_set
        PROVE  \/ latest_writes'[k] >= h.commit_ts
               \/ Publishing(h)'
               \/ Unneeded(h.commit_ts)'
    BY <1>2, <1>3, <1>4, <1>7, <2>1 DEF Remembered
  <2>3. ASSUME NEW h \in history', h \notin history PROVE Publishing(h)'
    <3>1. CommitMark(p) /\ h.txn = loc[p].txn
      BY <2>3, HistoryStep, MarkStep
    <3> QED BY <3>1, MarkStep DEF Publishing
  <2> QED BY <2>2, <2>3 DEF Remembered
<1> QED BY <1>5, <1>6, <1>7

\* A version is superseded once and handed out once: an entry that is replaced
\* never comes back, because timestamps grow.
LEMMA DisposedStep ==
    ASSUME NEW p \in Thread, Types, Types', Scheduled, Timed, TimedCalls, Stamped, Disposed,
           Moves(p), LocalsMove(p), Step(p) \/ Call(p)
    PROVE  Disposed'
<1>1. /\ oracle \in Nat /\ latest_writes \in [Key -> Nat] /\ reclaimed \subseteq Key \X Nat
      /\ loc \in [Thread -> Locals] /\ pc \in [Thread -> Labels]
  BY DEF Types
<1>2. \A q \in Thread : loc[q].superseded \subseteq Key \X Nat /\ loc[q].keys \subseteq Key
                        /\ loc[q].write_set \subseteq Key
  BY <1>1 DEF Locals
<1>3. CASE CommitPublish(p)
  <2>1. /\ reclaimed' = reclaimed /\ loc[p].commit_ts = oracle
        /\ \A k \in Key : latest_writes[k] < oracle
        /\ \A v \in reclaimed : v[2] < oracle
        /\ \A q \in Thread : \A v \in loc[q].superseded : v[2] < oracle
    BY <1>3, PublishStep DEF Stamped, StampedLabels
  <2>2. /\ \A k \in Key : latest_writes'[k] = oracle \/ latest_writes'[k] = latest_writes[k]
        /\ \A k \in Key : k \in loc[p].write_set => latest_writes'[k] = oracle
        /\ \A v \in loc'[p].superseded : /\ v[1] \in loc[p].write_set
                                         /\ v[2] = latest_writes[v[1]]
    BY <1>3, <2>1, PublishStep
  <2>3. \A v \in reclaimed : latest_writes'[v[1]] # v[2]
    <3> SUFFICES ASSUME NEW v \in reclaimed PROVE latest_writes'[v[1]] # v[2]
      OBVIOUS
    <3>1. v[1] \in Key /\ v[2] \in Nat
      BY <1>1
    <3> QED BY <1>1, <2>1, <2>2, <3>1 DEF Disposed
  <2>4. \A v \in loc'[p].superseded :
           latest_writes'[v[1]] # v[2] /\ v \notin reclaimed
    <3> SUFFICES ASSUME NEW v \in loc'[p].superseded
                 PROVE  latest_writes'[v[1]] # v[2] /\ v \notin reclaimed
      OBVIOUS
    <3>1. v[1] \in loc[p].write_set /\ v[1] \in Key /\ v[2] = latest_writes[v[1]]
      BY <1>2, <2>2
    <3> QED BY <1>1, <2>1, <2>2, <3>1 DEF Disposed
  <2>5. ASSUME NEW q \in Thread, q # p, pc'[q] = "notify"
        PROVE  /\ \A v \in loc'[q].superseded :
                     latest_writes'[v[1]] # v[2] /\ v \notin reclaimed
               /\ loc'[q].superseded \cap loc'[p].superseded = {}
    <3>1. pc[q] = "notify" /\ loc'[q] = loc[q]
      BY <2>5 DEF Moves
    <3>2. ASSUME NEW v \in loc[q].superseded
          PROVE  latest_writes'[v[1]] # v[2] /\ v \notin reclaimed /\ latest_writes[v[1]] # v[2]
      <4>1. v[1] \in Key /\ v[2] \in Nat /\ v[2] < oracle
        BY <1>2, <2>1, <3>2
      <4>2. latest_writes[v[1]] # v[2] /\ v \notin reclaimed
        BY <3>1, <3>2 DEF Disposed
      <4> QED BY <1>1, <2>2, <4>1, <4>2
    <3> QED BY <2>2, <3>1, <3>2
  <2>6. ASSUME NEW q \in Thread, NEW r \in Thread, q # r, pc'[q] = "notify", pc'[r] = "notify"
        PROVE  loc'[q].superseded \cap loc'[r].superseded = {}
    <3>1. CASE q = p
      BY <2>5, <2>6, <3>1
    <3>2. CASE r = p
      BY <2>5, <2>6, <3>2
    <3>3. CASE q # p /\ r # p
      BY <2>6, <3>3 DEF Moves, Disposed
    <3> QED BY <3>1, <3>2, <3>3
  <2> QED BY <2>1, <2>3, <2>4, <2>5, <2>6 DEF Disposed
<1>4. CASE ~CommitPublish(p)
  <2>1. \A q \in Thread : pc'[q] = "notify" => q # p /\ pc[q] = "notify" /\ loc'[q] = loc[q]
    BY <1>4 DEF LocalsMove, Moves
  <2>2. \A q, r \in Thread : q # r /\ pc'[q] = "notify" /\ pc'[r] = "notify"
           => loc'[q].superseded \cap loc'[r].superseded = {}
    BY <2>1 DEF Disposed
  <2>3. CASE CommitNotify(p)
    <3>1. /\ pc[p] = "notify" /\ latest_writes' = latest_writes
          /\ reclaimed' \subseteq reclaimed \cup loc[p].superseded
      BY <2>3 DEF CommitNotify, shared
    <3>2. \A v \in reclaimed' : latest_writes'[v[1]] # v[2]
      BY <3>1 DEF Disposed
    <3>3. ASSUME NEW q \in Thread, pc'[q] = "notify"
          PROVE  \A v \in loc'[q].superseded :
                    latest_writes'[v[1]] # v[2] /\ v \notin reclaimed'
      BY <2>1, <3>1, <3>3 DEF Disposed
    <3> QED BY <2>2, <3>2, <3>3 DEF Disposed
  <2>4. CASE GcRemove(p)
    <3>1. ASSUME NEW q \in Thread, pc'[q] = "notify", NEW v \in loc'[q].superseded
          PROVE  latest_writes'[v[1]] # v[2] /\ v \notin reclaimed'
      <4>1. /\ pc[q] = "notify" /\ v \in loc[q].superseded
            /\ v[1] \in Key /\ v[2] >= 1 /\ v[2] \in Nat
        BY <1>2, <2>1, <3>1 DEF TimedCalls
      <4>2. latest_writes[v[1]] # v[2] /\ v \notin reclaimed
        BY <4>1 DEF Disposed
      <4>3. latest_writes'[v[1]] = 0 \/ latest_writes'[v[1]] = latest_writes[v[1]]
        BY <2>4, <4>1, RemoveStep
      <4>4. v \notin reclaimed' \ reclaimed
        BY <2>4, <4>2, RemoveStep
      <4> QED BY <4>1, <4>2, <4>3, <4>4
    <3>2. ASSUME NEW v \in reclaimed' PROVE latest_writes'[v[1]] # v[2]
      <4>1. CASE v \in reclaimed
        <5>1. v[1] \in Key /\ v[2] >= 1
          BY <1>1, <4>1 DEF Timed
        <5>2. latest_writes'[v[1]] = 0 \/ latest_writes'[v[1]] = latest_writes[v[1]]
          BY <2>4, <5>1, RemoveStep
        <5> QED BY <4>1, <5>1, <5>2 DEF Disposed
      <4>2. CASE v \notin reclaimed
        <5>1. v[1] \in loc[p].keys /\ v[2] # 0
          BY <2>4, <3>2, <4>2, RemoveStep
        <5>2. latest_writes'[v[1]] = 0
          BY <1>2, <2>4, <5>1, RemoveStep
        <5> QED BY <5>1, <5>2
      <4> QED BY <4>1, <4>2
    <3> QED BY <2>2, <3>1, <3>2 DEF Disposed
  <2>5. CASE ~CommitNotify(p) /\ ~GcRemove(p)
    <3>1. latest_writes' = latest_writes /\ reclaimed' = reclaimed
      BY <1>4, <2>5, DataStep
    <3> QED BY <2>1, <2>2, <3>1 DEF Disposed
  <2> QED BY <2>3, <2>4, <2>5
<1> QED BY <1>3, <1>4

\* The first committer wins: at a mark every earlier writer of a common key is
\* in latest_writes, which the commit validated, or older than its snapshot.
LEMMA NoLostUpdateStep ==
    ASSUME NEW p \in Thread, Types, Scheduled, Identified, Recorded, Validated,
           Remembered, NoLostUpdate, Step(p) \/ Call(p)
    PROVE  NoLostUpdate'
<1>1. CASE ~CommitMark(p)
  BY <1>1, HistoryStep DEF NoLostUpdate
<1>2. CASE CommitMark(p)
  <2> DEFINE x == loc[p].txn
  <2>1. /\ history' = history \cup {Record(p)}
        /\ Record(p).txn = x /\ Record(p).read_ts = loc[p].read_ts
        /\ Record(p).write_set = loc[p].write_set
        /\ x \in DOMAIN txns /\ txns[x].state = "Active" /\ txns[x].read_ts = loc[p].read_ts
        /\ pc[p] = "mark"
    BY <1>2, MarkStep
  <2>2. /\ history \subseteq Entry /\ latest_writes \in [Key -> Nat]
        /\ loc[p].read_ts \in Nat /\ loc[p].write_set \subseteq Key
    BY DEF Types, Locals
  <2>3. \A k \in loc[p].write_set : latest_writes[k] <= loc[p].read_ts
    <3>1. \A k \in loc[p].write_set : ~ (latest_writes[k] > loc[p].read_ts)
      BY <2>1 DEF Validated, Conflict
    <3>2. \A k \in loc[p].write_set : latest_writes[k] \in Nat
      BY <2>2
    <3> QED BY <2>2, <3>1, <3>2
  <2>4. \A h \in history : ~Publishing(h)
    BY <2>1 DEF Publishing, Scheduled, LockLabels
  <2>5. ASSUME NEW h \in history, NEW k \in h.write_set \cap loc[p].write_set
        PROVE  h.commit_ts <= loc[p].read_ts
    <3>1. h.commit_ts \in Nat /\ latest_writes[k] \in Nat /\ latest_writes[k] <= loc[p].read_ts
      BY <2>2, <2>3 DEF Entry
    <3>2. latest_writes[k] >= h.commit_ts \/ Unneeded(h.commit_ts)
      BY <2>4 DEF Remembered
    <3>3. Unneeded(h.commit_ts) => h.commit_ts <= loc[p].read_ts
      BY <2>1 DEF Unneeded
    <3> QED BY <2>2, <3>1, <3>2, <3>3
  <2> SUFFICES ASSUME NEW g \in history', NEW h \in history', g.txn # h.txn,
                      NEW k \in g.write_set \cap h.write_set
               PROVE  g.commit_ts <= h.read_ts \/ h.commit_ts <= g.read_ts
    BY DEF NoLostUpdate
  <2>6. CASE g \in history /\ h \in history
    BY <2>6 DEF NoLostUpdate
  <2>7. CASE g \in history /\ h = Record(p)
    BY <2>1, <2>5, <2>7
  <2>8. CASE g = Record(p) /\ h \in history
    BY <2>1, <2>5, <2>8
  <2> QED BY <2>1, <2>6, <2>7, <2>8
<1> QED BY <1>1, <1>2

-----------------------------------------------------------------------------
(* The theorems. *)

\* Every step preserves the inductive invariant.
LEMMA NextIInv == ASSUME IInv, [Next]_vars PROVE IInv'
<1>1. /\ Types /\ Scheduled /\ Identified /\ Recorded /\ Counted /\ Timed /\ TimedCalls
      /\ Stamped /\ Validated /\ Disposed
      /\ ~overtaken => Remembered /\ Bounded /\ NoLostUpdate
  BY Zenon DEF IInv, FirstCommitterWins
<1>2. CASE Next
  <2>1. PICK p \in Thread : Step(p) \/ Call(p)
    BY <1>2 DEF Next
  <2>2. Moves(p) /\ mode' = mode
    BY <1>1, <2>1, Stepping, TablesTyped
  <2>3. Types'
    BY <1>1, <2>1, TypesStep
  <2>4. TableMoves(p) /\ CallMoves(p) /\ IdsMove(p) /\ LocalsMove(p)
    BY <1>1, <2>1, TableStep, CallStep, IdsStep, LocalsStep
  <2>5. Identified' /\ Recorded'
    BY <1>1, <2>1, <2>2, <2>4, IdentifiedStep, RecordedStep
  <2>6. Counted'
    BY <1>1, <2>1, <2>2, <2>3, <2>4, CountedStep
  <2>8. Scheduled'
    BY <1>1, <2>1, <2>2, <2>3, ScheduledStep
  <2>9. Timed' /\ TimedCalls' /\ Stamped'
    BY <1>1, <2>1, <2>2, <2>3, <2>4, TimedStep, TimedCallsStep, StampedStep
  <2>10. Validated'
    BY <1>1, <2>1, <2>2, <2>4, ValidatedStep
  <2>11. ASSUME ~overtaken' PROVE Remembered' /\ Bounded' /\ NoLostUpdate'
    <3>1. ~overtaken
      BY <1>1, <2>1, <2>11, OvertakenStep, Zenon
    <3>2. Remembered /\ Bounded /\ NoLostUpdate
      BY <1>1, <3>1
    <3> QED BY <1>1, <2>1, <2>2, <2>3, <2>4, <2>11, <3>2,
               RememberedStep, BoundedStep, NoLostUpdateStep
  <2>12. Disposed'
    BY <1>1, <2>1, <2>2, <2>3, <2>4, DisposedStep
  <2> QED BY <2>3, <2>5, <2>6, <2>8, <2>9, <2>10, <2>11, <2>12, Zenon
          DEF IInv, FirstCommitterWins
<1>3. CASE UNCHANGED vars
  <2> USE <1>1, <1>3 DEF vars, shared, control, ghosts
  <2>1. Types'
    BY DEF Types
  <2>2. Scheduled'
    BY DEF Scheduled
  <2>3. Identified'
    BY DEF Identified
  <2>4. Recorded'
    BY DEF Recorded
  <2>5. Counted'
    BY DEF Counted, Marked, InFlight
  <2>6. Timed' /\ TimedCalls' /\ Stamped'
    BY DEF Timed, TimedCalls, Stamped
  <2>7. Validated'
    BY DEF Validated, Conflict
  <2>8. Remembered => Remembered'
    BY DEF Remembered, Publishing, Unneeded
  <2>9. (Bounded => Bounded') /\ Disposed' /\ (NoLostUpdate => NoLostUpdate')
    BY DEF Bounded, Unneeded, Disposed, NoLostUpdate
  <2>10. overtaken' = overtaken
    OBVIOUS
  <2>11. ASSUME ~overtaken' PROVE Remembered' /\ Bounded' /\ NoLostUpdate'
    <3>1. ~overtaken
      BY <2>10, <2>11
    <3> QED BY <2>8, <2>9, <3>1
  <2> QED BY <2>1, <2>2, <2>3, <2>4, <2>5, <2>6, <2>7, <2>9, <2>11, Zenon
          DEF IInv, FirstCommitterWins
<1> QED BY <1>2, <1>3

\* In every behaviour of a disciplined manager the inductive invariant holds.
LEMMA Invariance == ASSUME Disciplined PROVE Spec => []IInv
<1>1. Init => IInv
  BY InitIInv
<1>2. IInv /\ [Next]_vars => IInv'
  BY NextIInv
<1> QED BY <1>1, <1>2, PTL DEF Spec

\* Two committed transactions that wrote a common key did not overlap, however
\* the steps of commits, aborts and collections interleave, unless run_gc met a
\* begin that had its snapshot and was not in the table, or a commit that
\* published between its scan and its removal: commit validates and publishes
\* under one write lock of latest_writes.
THEOREM FirstCommitterAlwaysWins ==
    ASSUME Disciplined PROVE Spec => []FirstCommitterWins
<1>1. IInv => FirstCommitterWins
  BY DEF IInv
<1> QED BY <1>1, Invariance, PTL

\* Collections overlap any call: the tables keep their types, no version is
\* handed to the GC callback twice, and unless run_gc met one of its two races
\* it keeps what a running transaction has to conflict with.
THEOREM CollectorIsSafe ==
    ASSUME Disciplined PROVE Spec => []CollectorSafe
<1>1. IInv => TypeOK
  <2> SUFFICES ASSUME IInv PROVE TypeOK
    OBVIOUS
  <2>1. Types /\ CounterBounded
    BY CountedBound DEF IInv
  <2>2. commits_since_gc \in 0..MaxTxn
    BY <2>1, ConcurrentTMAssumption DEF Types, CounterBounded
  <2> QED BY <2>1, <2>2 DEF Types, TypeOK
<1>2. IInv /\ ~overtaken => ConflictsKept
  <2> SUFFICES ASSUME IInv, ~overtaken, NEW x \in DOMAIN txns, Active(x),
                      NEW h \in history, h.commit_ts > txns[x].read_ts,
                      NEW k \in h.write_set, lw_lock = None
               PROVE  latest_writes[k] >= h.commit_ts
    BY DEF ConflictsKept
  <2>1. ~Publishing(h)
    BY ConcurrentTMAssumption DEF IInv, Publishing, Scheduled, LockLabels
  <2>2. h.commit_ts \in Nat /\ txns[x].read_ts \in Nat
    BY DEF IInv, Types, Entry, Transaction
  <2>3. ~Unneeded(h.commit_ts)
    BY <2>2 DEF Unneeded, Active
  <2>4. Remembered
    BY Zenon DEF IInv
  <2> QED BY <2>1, <2>3, <2>4 DEF Remembered
<1>3. IInv => ReclaimedOnce
  BY DEF IInv, Disposed, ReclaimedOnce
<1>4. IInv => CollectorSafe
  BY <1>1, <1>2, <1>3, Zenon DEF CollectorSafe
<1> QED BY <1>4, Invariance, PTL

\* Where no collection overlaps a call the collector works on what it scanned.
Calm ==
    /\ mode.overlap => ~mode.run_gc /\ mode.gc_interval > MaxTxn
    /\ \A p \in Thread : pc[p] \in GcLabels => ~mode.overlap
    /\ \A p \in Thread : pc[p] = "gc_remove" =>
          \A k \in loc[p].keys : latest_writes[k] < loc[p].min_active
    /\ ~overtaken

\* While calls overlap the collector is not due.
LEMMA SerialStep ==
    ASSUME NEW p \in Thread, Types, Types', Calm, Moves(p), mode' = mode,
           CounterBounded', Step(p) \/ Call(p)
    PROVE  \A q \in Thread : pc'[q] \in GcLabels => ~mode.overlap
<1> USE DEF GcLabels, Goto, Return
<1>1. /\ pc \in [Thread -> Labels] /\ pc' \in [Thread -> Labels]
      /\ MaxTxn \in Nat /\ commits_since_gc \in Nat /\ mode.gc_interval \in Nat
  BY ConcurrentTMAssumption DEF Types, ModeType
<1>2. CASE pc[p] \in GcLabels
  BY <1>2 DEF Calm, Moves
<1>3. CASE RunGc(p)
  BY <1>3 DEF Calm, RunGc, Moves
<1>4. CASE CommitCount(p)
  BY <1>1, <1>4 DEF CommitCount, Calm, CounterBounded, Moves
<1>5. CASE pc'[p] \notin GcLabels
  BY <1>5 DEF Calm, Moves
<1>6. CASE \/ BeginInsert(p) \/ CommitValidate(p) \/ CommitAbort(p)
           \/ CommitAllocate(p) \/ CommitLost(p) \/ CommitMark(p)
           \/ CommitPublishTs(p) \/ CommitPublish(p) \/ CommitNotify(p)
           \/ BeginSnapshot(p)
  BY <1>1, <1>5, <1>6 DEF BeginInsert, CommitValidate, CommitAbort, BeginSnapshot,
                          CommitAllocate, CommitLost, CommitMark,
                          CommitPublishTs, CommitPublish, CommitNotify
<1>7. CASE \/ GcMin(p) \/ GcScan(p) \/ GcRemove(p) \/ GcCommittedTs(p)
           \/ GcTxns(p) \/ GcReset(p)
  BY <1>2, <1>7 DEF GcMin, GcScan, GcRemove, GcCommittedTs, GcTxns, GcReset
<1>8. CASE \E x \in DOMAIN txns : \/ Abort(p, x) \/ CommitRead(p, x)
                                  \/ \E k \in Key : RecordWrite(p, x, k)
  BY <1>1, <1>2, <1>5, <1>8 DEF Abort, CommitRead, RecordWrite
<1> QED BY <1>3, <1>4, <1>6, <1>7, <1>8 DEF Step, Call

\* A collection that runs alone meets neither of its races.
LEMMA CalmStep ==
    ASSUME IInv, Types', Calm, NEW p \in Thread, Moves(p), mode' = mode,
           CounterBounded', Step(p) \/ Call(p)
    PROVE  Calm'
<1>1. Types /\ Scheduled
  BY DEF IInv
<1>2. /\ pc \in [Thread -> Labels] /\ loc \in [Thread -> Locals] /\ loc[p] \in Locals
      /\ latest_writes \in [Key -> Nat]
  BY <1>1 DEF Types
<1>3. \A q \in Thread : pc'[q] \in GcLabels => ~mode.overlap
  BY <1>1, SerialStep
<1>4. ASSUME pc[p] \in GcLabels PROVE \A q \in Thread \ {p} : pc[q] = "idle"
  BY <1>1, <1>4, Alone DEF Calm
<1>5. ~overtaken'
  <2>1. CASE GcMin(p)
    <3>1. pc[p] = "gc_min"
      BY <2>1 DEF GcMin
    <3>2. ~Overlooks(MinActive)
      BY <1>4, <3>1 DEF Overlooks, GcLabels
    <3> QED BY <2>1, <3>2, Zenon DEF GcMin, Calm
  <2>2. CASE GcRemove(p)
    <3> DEFINE newer == \E k \in {x \in loc[p].keys : latest_writes[x] # NoTs} :
                           latest_writes[k] >= loc[p].min_active
    <3>1. loc[p].keys \subseteq Key /\ loc[p].min_active \in Nat
      BY <1>2 DEF Locals
    <3>2. pc[p] = "gc_remove"
      BY <2>2 DEF GcRemove
    <3>3. ~newer
      BY <1>2, <3>1, <3>2 DEF Calm
    <3>4. overtaken' = (overtaken \/ newer)
      BY <2>2, Zenon DEF GcRemove
    <3> HIDE DEF newer
    <3> QED BY <3>3, <3>4, Zenon DEF Calm
  <2>3. CASE ~GcMin(p) /\ ~GcRemove(p)
    BY <1>1, <2>3, OvertakenStep, Zenon DEF Calm
  <2> QED BY <2>1, <2>2, <2>3
<1>6. ASSUME NEW q \in Thread, pc'[q] = "gc_remove"
      PROVE  \A k \in loc'[q].keys : latest_writes'[k] < loc'[q].min_active
  <2>1. CASE GcScan(p)
    <3> DEFINE old == {k \in Key : latest_writes[k] \in 1..(loc[p].min_active - 1)}
    <3>1. q = p
      BY <1>4, <1>6, <2>1 DEF GcScan, GcLabels, Moves
    <3>2. loc'[p].keys = old /\ loc'[p].min_active = loc[p].min_active
      BY <1>2, <2>1 DEF GcScan, Locals
    <3>3. latest_writes' = latest_writes
      BY <2>1 DEF GcScan, shared
    <3>4. \A k \in old : latest_writes[k] < loc[p].min_active
      BY <1>2 DEF Locals
    <3> HIDE DEF old
    <3> QED BY <3>1, <3>2, <3>3, <3>4
  <2>2. CASE ~GcScan(p)
    <3>1. pc'[p] # "gc_remove"
      <4>1. CASE \/ BeginInsert(p) \/ CommitValidate(p) \/ CommitAbort(p)
                 \/ CommitAllocate(p) \/ CommitLost(p) \/ CommitMark(p)
                 \/ CommitPublishTs(p) \/ CommitPublish(p) \/ CommitNotify(p)
                 \/ BeginSnapshot(p)
        BY <1>2, <4>1 DEF BeginInsert, CommitValidate, CommitAbort, BeginSnapshot,
                CommitAllocate, CommitLost, CommitMark, Goto, Return,
                CommitPublishTs, CommitPublish, CommitNotify
      <4>2. CASE \/ CommitCount(p) \/ RunGc(p) \/ GcMin(p) \/ GcRemove(p)
                 \/ GcCommittedTs(p) \/ GcTxns(p) \/ GcReset(p)
        BY <1>2, <4>2 DEF CommitCount, RunGc, GcMin, GcRemove, GcCommittedTs, GcTxns,
                GcReset, Goto, Return
      <4>3. CASE \E x \in DOMAIN txns : \/ Abort(p, x) \/ CommitRead(p, x)
                                        \/ \E k \in Key : RecordWrite(p, x, k)
        BY <1>2, <4>3 DEF Abort, CommitRead, RecordWrite, CanCall, Goto
      <4> QED BY <2>2, <4>1, <4>2, <4>3 DEF Step, Call
    <3>2. q # p /\ pc[q] = "gc_remove" /\ loc'[q] = loc[q]
      BY <1>6, <3>1 DEF Moves
    <3>3. ~mode.overlap /\ pc[q] # "idle"
      BY <3>2 DEF Calm, GcLabels
    <3>4. FALSE
      BY <1>1, <3>2, <3>3, Alone
    <3> QED BY <3>4
  <2> QED BY <2>1, <2>2
<1>7. mode'.overlap => ~mode'.run_gc /\ mode'.gc_interval > MaxTxn
  BY DEF Calm
<1> QED BY <1>3, <1>5, <1>6, <1>7 DEF Calm

\* Where no collection overlaps a call nothing of this is conditional: no update
\* is lost, and the collector keeps what a running transaction has to conflict
\* with.
THEOREM SerialCollectionIsSafe ==
    ASSUME Disciplined, Serial PROVE Spec => [](NoLostUpdate /\ ConflictsKept)
<1>1. Init => IInv /\ Calm
  <2>1. Init => Calm
    BY DEF Init, Calm, Serial, GcLabels
  <2> QED BY <2>1, InitIInv
<1>2. IInv /\ Calm /\ [Next]_vars => (IInv /\ Calm)'
  <2> SUFFICES ASSUME IInv, Calm, [Next]_vars PROVE IInv' /\ Calm'
    OBVIOUS
  <2>1. IInv'
    BY NextIInv
  <2>2. CASE Next
    <3>1. PICK p \in Thread : Step(p) \/ Call(p)
      BY <2>2 DEF Next
    <3>2. Types /\ Timed /\ Types'
      BY <2>1 DEF IInv
    <3>3. Moves(p) /\ mode' = mode
      BY <3>1, <3>2, Stepping, TablesTyped
    <3>4. Types' /\ Counted' => CounterBounded'
      BY CountedBound, PTL
    <3>5. CounterBounded'
      BY <2>1, <3>4 DEF IInv
    <3> QED BY <2>1, <3>1, <3>2, <3>3, <3>5, CalmStep
  <2>3. CASE UNCHANGED vars
    <3>1. UNCHANGED <<mode, pc, loc, latest_writes, overtaken>>
      BY <2>3 DEF vars, shared, control, ghosts
    <3> QED BY <2>1, <3>1 DEF Calm
  <2> QED BY <2>2, <2>3
<1>3. Spec => [](IInv /\ Calm)
  BY <1>1, <1>2, PTL DEF Spec
<1>4. Calm /\ FirstCommitterWins /\ CollectorSafe => NoLostUpdate /\ ConflictsKept
  BY Zenon DEF Calm, FirstCommitterWins, CollectorSafe
<1> QED BY <1>3, <1>4, FirstCommitterAlwaysWins, CollectorIsSafe, PTL

\* A committed transaction keeps its state and its timestamp while it is in
\* the table: the conflict path of its commit, an abort by another thread and
\* the collector leave it alone.
THEOREM CommittedStaysFinal ==
    ASSUME Disciplined PROVE Spec => CommittedIsFinal
<1> DEFINE Final == \A x \in DOMAIN txns \cap DOMAIN txns' :
                       txns[x].state = "Committed" => txns'[x] = txns[x]
<1>1. IInv /\ [Next]_vars => [Final]_vars
  <2> SUFFICES ASSUME IInv, Next PROVE Final
    OBVIOUS
  <2>1. PICK p \in Thread : Step(p) \/ Call(p)
    BY DEF Next
  <2>2. TableMoves(p)
    BY <2>1, TableStep DEF IInv
  <2> QED BY <2>2 DEF TableMoves
<1> QED BY <1>1, Invariance, PTL DEF Spec, CommittedIsFinal

-----------------------------------------------------------------------------
(* Refinement of SnapshotIsolation.  In the modes that are mapped nothing  *)
(* is collected and nobody touches another thread's transaction, so a      *)
(* commit finds its transaction active until it marks it, and the          *)
(* timestamps from 2 to the oracle each belong to one transaction.         *)

\* No thread is or was in the collector.
NoCollection == ~overtaken /\ \A p \in Thread : pc[p] \notin GcLabels

\* A commit that has not marked its transaction finds it active.
OwnPending == \A p \in Thread : pc[p] \in PendingLabels =>
    loc[p].txn \in DOMAIN txns /\ txns[loc[p].txn].state = "Active"

\* A committed transaction in the table is the one in the history.
Matched == \A x \in DOMAIN txns : txns[x].state = "Committed" =>
    \E h \in history : /\ h.txn = x
                       /\ h.commit_ts = txns[x].commit_ts
                       /\ h.write_set = txns[x].write_set

\* The two labels at which a call knows what the table does not: a begin that
\* has its snapshot, and a commit that has its timestamp.
InsertsAt(p, x) == pc[p] = "insert" /\ loc[p].txn = x
MarksAt(p, x) == pc[p] = "mark" /\ loc[p].txn = x

\* Transaction x has commit timestamp c, in the table or in its call.
Stamp(x, c) ==
    \/ x \in DOMAIN txns /\ txns[x].state = "Committed" /\ txns[x].commit_ts = c
    \/ \E p \in Thread : MarksAt(p, x) /\ loc[p].commit_ts = c

\* Stamps and timestamps correspond one to one.
Order == /\ \A x \in 1..MaxTxn : \A c : Stamp(x, c) => c \in 2..oracle
         /\ \A c \in 2..oracle : \E x \in 1..MaxTxn : Stamp(x, c)
         /\ \A x, y \in 1..MaxTxn : \A c : Stamp(x, c) /\ Stamp(y, c) => x = y

\* The oracle starts at 1, and no snapshot is older.
Snapshots == /\ \A p \in Thread : pc[p] = "insert" => loc[p].read_ts >= 1
             /\ \A x \in DOMAIN txns : txns[x].read_ts >= 1

\* What the mapped modes add to the inductive invariant.
SIInv == ~Unmapped => NoCollection /\ OwnPending /\ Matched /\ Order /\ Snapshots

-----------------------------------------------------------------------------
(* What a step changes of the transactions.  A step of p changes at most   *)
(* one transaction, p's own, in one of six ways.                           *)

\* Nothing of x changes: neither its entry, nor what a call knows of it before
\* its insertion and between the allocation of its timestamp and its mark.
Same(x) ==
    /\ x \in DOMAIN txns' <=> x \in DOMAIN txns
    /\ x \in DOMAIN txns => txns'[x] = txns[x]
    /\ \A q \in Thread : /\ InsertsAt(q, x)' <=> InsertsAt(q, x)
                         /\ InsertsAt(q, x) => loc'[q].read_ts = loc[q].read_ts
                         /\ MarksAt(q, x)' <=> MarksAt(q, x)
                         /\ MarksAt(q, x) => loc'[q].commit_ts = loc[q].commit_ts

OnlyChanges(p, x) == x \in 1..MaxTxn /\ \A y : y # x => Same(y)

NoCallOn(x) == \A q \in Thread : ~InsertsAt(q, x) /\ ~MarksAt(q, x)

Nothing == oracle' = oracle /\ \A x : Same(x)

Begins(p, x) ==
    /\ OnlyChanges(p, x) /\ oracle' = oracle
    /\ x \notin DOMAIN txns /\ x \notin DOMAIN txns'
    /\ NoCallOn(x)
    /\ InsertsAt(p, x)' /\ loc'[p].read_ts = oracle
    /\ \A q \in Thread : ~MarksAt(q, x)'

Inserts(p, x) ==
    /\ OnlyChanges(p, x) /\ oracle' = oracle
    /\ x \notin DOMAIN txns /\ x \in DOMAIN txns'
    /\ InsertsAt(p, x) /\ \A q \in Thread : ~MarksAt(q, x)
    /\ NoCallOn(x)' /\ pc'[p] = "idle"
    /\ txns'[x].state = "Active" /\ txns'[x].write_set = {}
    /\ txns'[x].read_ts = loc[p].read_ts

\* The entry of x is p's and active, and no call is on it.
Rests(p, x) ==
    /\ OnlyChanges(p, x) /\ oracle' = oracle /\ pc'[p] = "idle"
    /\ x \in DOMAIN txns /\ x \in DOMAIN txns' /\ owner[x] = p
    /\ txns[x].state = "Active"
    /\ NoCallOn(x) /\ NoCallOn(x)'
    /\ txns'[x].read_ts = txns[x].read_ts

Records(p, x, k) == /\ Rests(p, x)
                    /\ txns'[x].state = "Active"
                    /\ txns'[x].write_set = txns[x].write_set \cup {k}

Aborts(p, x) == /\ Rests(p, x)
                /\ txns'[x].state = "Aborted"
                /\ txns'[x].write_set = txns[x].write_set

Allocates(p, x) ==
    /\ OnlyChanges(p, x) /\ oracle' = oracle + 1
    /\ x \in DOMAIN txns /\ x \in DOMAIN txns' /\ txns'[x] = txns[x]
    /\ txns[x].state = "Active"
    /\ NoCallOn(x)
    /\ MarksAt(p, x)' /\ loc'[p].commit_ts = oracle + 1
    /\ \A q \in Thread : ~InsertsAt(q, x)' /\ (q # p => ~MarksAt(q, x)')

Marks(p, x) ==
    /\ OnlyChanges(p, x) /\ oracle' = oracle
    /\ x \in DOMAIN txns /\ x \in DOMAIN txns' /\ owner[x] = p
    /\ MarksAt(p, x) /\ pc'[p] = "publish_ts"
    /\ \A q \in Thread : ~InsertsAt(q, x) /\ (q # p => ~MarksAt(q, x))
    /\ NoCallOn(x)'
    /\ txns[x].state = "Active" /\ txns'[x].state = "Committed"
    /\ txns'[x].commit_ts = loc[p].commit_ts
    /\ txns'[x].read_ts = txns[x].read_ts /\ txns'[x].write_set = txns[x].write_set

Effect(p) == \/ Nothing
             \/ \E x : \/ Begins(p, x)
                       \/ Inserts(p, x)
                       \/ \E k \in Key : Records(p, x, k)
                       \/ Aborts(p, x)
                       \/ Allocates(p, x)
                       \/ Marks(p, x)

LEMMA UntouchedSame ==
    ASSUME NEW p \in Thread, Moves(p), NEW x,
           x \in DOMAIN txns' <=> x \in DOMAIN txns,
           x \in DOMAIN txns => txns'[x] = txns[x],
           ~InsertsAt(p, x), ~MarksAt(p, x), ~InsertsAt(p, x)', ~MarksAt(p, x)'
    PROVE  Same(x)
BY DEF Moves, Same, InsertsAt, MarksAt

\* A call in these labels is on a transaction of its own thread.
LEMMA OneOwner ==
    ASSUME Types, Identified
    PROVE  /\ \A p \in Thread : \A x : InsertsAt(p, x) \/ MarksAt(p, x)
                 => x \in 1..(next_txn_id - 1) /\ x \in 1..MaxTxn /\ owner[x] = p
           /\ \A p \in Thread : \A x : InsertsAt(p, x) => x \notin DOMAIN txns
           /\ \A x \in DOMAIN txns : x \in 1..MaxTxn
<1>1. next_txn_id \in 1..(MaxTxn + 1) /\ MaxTxn \in Nat
  BY ConcurrentTMAssumption DEF Types
<1>2. \A x \in 1..(next_txn_id - 1) : x \in 1..MaxTxn
  BY <1>1
<1> QED BY <1>2 DEF Identified, InsertsAt, MarksAt, CommitLabels, Types

\* The steps that change neither the table nor the oracle, and are not the
\* first of a begin.
Quiet(p) == \/ CommitValidate(p) \/ CommitPublishTs(p) \/ CommitPublish(p)
            \/ CommitNotify(p) \/ CommitCount(p)
            \/ \E x \in DOMAIN txns : CommitRead(p, x)

LEMMA QuietEffect ==
    ASSUME NEW p \in Thread, Types, Moves(p), Quiet(p)
    PROVE  Nothing
<1>1. pc \in [Thread -> Labels]
  BY DEF Types
<1>2. /\ txns' = txns /\ oracle' = oracle
      /\ pc[p] \notin {"insert", "mark"} /\ pc'[p] \notin {"insert", "mark"}
  <2>1. CASE CommitPublish(p)
    BY <2>1, PublishStep
  <2>2. CASE CommitCount(p)
    BY <1>1, <2>2 DEF CommitCount, Goto, Return, shared
  <2>3. CASE CommitValidate(p) \/ CommitPublishTs(p)
    BY <1>1, <2>3 DEF CommitValidate, CommitPublishTs, Goto, shared
  <2>4. CASE CommitNotify(p)
    BY <1>1, <2>4 DEF CommitNotify, Goto, shared
  <2>5. CASE \E x \in DOMAIN txns : CommitRead(p, x)
    BY <1>1, <2>5 DEF CommitRead, CanCall, Goto, shared
  <2> QED BY <2>1, <2>2, <2>3, <2>4, <2>5 DEF Quiet
<1> QED BY <1>2, UntouchedSame DEF Nothing, InsertsAt, MarksAt

LEMMA SnapshotEffect ==
    ASSUME NEW p \in Thread, Types, Identified, Moves(p), IdsMove(p), BeginSnapshot(p)
    PROVE  \E x : Begins(p, x)
<1>1. PICK x \in 1..MaxTxn : x = next_txn_id
  BY ConcurrentTMAssumption DEF Types, BeginSnapshot
<1>2. /\ x \notin DOMAIN txns /\ x \notin 1..(next_txn_id - 1)
      /\ txns' = txns /\ oracle' = oracle
      /\ pc[p] = "idle" /\ pc'[p] = "insert"
      /\ loc'[p].txn = x /\ loc'[p].read_ts = oracle
  BY <1>1 DEF Types, BeginSnapshot, CanCall, IdsMove
<1>3. NoCallOn(x)
  BY <1>2, OneOwner DEF NoCallOn
<1>4. \A q \in Thread : ~MarksAt(q, x)'
  BY <1>2, <1>3 DEF Moves, MarksAt, NoCallOn
<1>5. InsertsAt(p, x)'
  BY <1>2 DEF InsertsAt
<1>6. \A y : y # x => Same(y)
  BY <1>2, UntouchedSame DEF InsertsAt, MarksAt
<1> QED BY <1>1, <1>2, <1>3, <1>4, <1>5, <1>6 DEF Begins, OnlyChanges

LEMMA InsertEffect ==
    ASSUME NEW p \in Thread, Types, Identified, Moves(p), BeginInsert(p)
    PROVE  \E x : Inserts(p, x)
<1>1. PICK x : x = loc[p].txn
  OBVIOUS
<1>2. /\ pc[p] = "insert" /\ pc'[p] = "idle" /\ oracle' = oracle
      /\ txns' = [y \in DOMAIN txns \cup {x} |->
                    IF y = x THEN [read_ts |-> loc[p].read_ts, commit_ts |-> NoTs,
                                   state |-> "Active", write_set |-> {}]
                    ELSE txns[y]]
  BY <1>1 DEF BeginInsert, Return, Goto, Types
<1>3. InsertsAt(p, x)
  BY <1>1, <1>2 DEF InsertsAt
<1>4. /\ x \in 1..MaxTxn /\ owner[x] = p /\ x \notin DOMAIN txns
      /\ \A q \in Thread : ~MarksAt(q, x)
      /\ \A q \in Thread \ {p} : ~InsertsAt(q, x)
  BY <1>2, <1>3, OneOwner DEF MarksAt
<1>5. /\ x \in DOMAIN txns' /\ DOMAIN txns' = DOMAIN txns \cup {x}
      /\ txns'[x].state = "Active" /\ txns'[x].write_set = {}
      /\ txns'[x].read_ts = loc[p].read_ts
      /\ \A y : y # x /\ y \in DOMAIN txns => txns'[y] = txns[y]
  BY <1>2
<1>6. NoCallOn(x)'
  BY <1>2, <1>4 DEF NoCallOn, Moves, InsertsAt, MarksAt
<1>7. \A y : y # x => Same(y)
  BY <1>1, <1>2, <1>5, UntouchedSame DEF InsertsAt, MarksAt
<1> QED BY <1>2, <1>3, <1>4, <1>5, <1>6, <1>7 DEF Inserts, OnlyChanges

\* An entry of p that is not being marked: p's call on it, if there is one, is
\* the call that ends.
LEMMA RestsEffect ==
    ASSUME NEW p \in Thread, Types, Identified, Moves(p), NEW x \in DOMAIN txns,
           owner[x] = p, txns[x].state = "Active",
           pc[p] \notin {"insert", "mark"}, pc'[p] = "idle", oracle' = oracle,
           DOMAIN txns' = DOMAIN txns, txns'[x].read_ts = txns[x].read_ts,
           \A y \in DOMAIN txns : y # x => txns'[y] = txns[y]
    PROVE  Rests(p, x)
<1>1. NoCallOn(x)
  BY OneOwner DEF NoCallOn, InsertsAt, MarksAt
<1>2. NoCallOn(x)'
  BY <1>1 DEF NoCallOn, Moves, InsertsAt, MarksAt
<1>3. \A y : y # x => Same(y)
  BY UntouchedSame DEF InsertsAt, MarksAt
<1>4. x \in 1..MaxTxn
  BY OneOwner
<1> QED BY <1>1, <1>2, <1>3, <1>4 DEF Rests, OnlyChanges

LEMMA RecordEffect ==
    ASSUME NEW p \in Thread, Types, Identified, Moves(p), ~Unmapped,
           NEW x \in DOMAIN txns, NEW k \in Key, RecordWrite(p, x, k)
    PROVE  Records(p, x, k)
<1>1. txns[x] \in Transaction /\ txns \in [DOMAIN txns -> Transaction]
  BY DEF Types
<1>2. /\ owner[x] = p /\ txns[x].state = "Active" /\ oracle' = oracle
      /\ pc[p] = "idle" /\ pc'[p] = "idle"
      /\ txns' = [txns EXCEPT ![x].write_set = @ \cup {k}]
  BY DEF RecordWrite, MayUse, Active, CanCall, Unmapped
<1>3. /\ DOMAIN txns' = DOMAIN txns
      /\ \A y \in DOMAIN txns : y # x => txns'[y] = txns[y]
      /\ txns'[x].read_ts = txns[x].read_ts
      /\ txns'[x].state = txns[x].state
      /\ txns'[x].write_set = txns[x].write_set \cup {k}
  BY <1>1, <1>2 DEF Transaction
<1> QED BY <1>2, <1>3, RestsEffect DEF Records

LEMMA AbortEffect ==
    ASSUME NEW p \in Thread, Types, Identified, Moves(p), ~Unmapped, OwnPending,
           NEW x \in DOMAIN txns, Abort(p, x) \/ (CommitAbort(p) /\ x = loc[p].txn)
    PROVE  Aborts(p, x)
<1>1. /\ txns[x] \in Transaction /\ txns \in [DOMAIN txns -> Transaction]
      /\ pc \in [Thread -> Labels]
  BY DEF Types
<1>2. /\ owner[x] = p /\ txns[x].state = "Active" /\ oracle' = oracle
      /\ pc[p] \notin {"insert", "mark"} /\ pc'[p] = "idle"
      /\ txns' = [txns EXCEPT ![x].state = "Aborted"]
  <2>1. CASE Abort(p, x)
    BY <2>1 DEF Abort, MayAbort, MayUse, Active, CanCall, Unmapped
  <2>2. CASE CommitAbort(p) /\ x = loc[p].txn
    BY <1>1, <2>2 DEF CommitAbort, OwnPending, PendingLabels, Identified, CommitLabels,
                      Return, Goto
  <2> QED BY <2>1, <2>2
<1>3. /\ DOMAIN txns' = DOMAIN txns
      /\ \A y \in DOMAIN txns : y # x => txns'[y] = txns[y]
      /\ txns'[x].read_ts = txns[x].read_ts
      /\ txns'[x].state = "Aborted"
      /\ txns'[x].write_set = txns[x].write_set
  BY <1>1, <1>2 DEF Transaction
<1> QED BY <1>2, <1>3, RestsEffect DEF Aborts

LEMMA AllocateEffect ==
    ASSUME NEW p \in Thread, Types, Identified, Moves(p), CallMoves(p), OwnPending,
           CommitAllocate(p)
    PROVE  \E x : Allocates(p, x)
<1>1. PICK x : x = loc[p].txn
  OBVIOUS
<1>2. /\ pc[p] = "allocate" /\ pc'[p] = "mark" /\ oracle' = oracle + 1
      /\ loc'[p].commit_ts = oracle + 1 /\ txns' = txns
  BY AllocateStep DEF CommitAllocate
<1>3. loc'[p].txn = x
  BY <1>1, <1>2 DEF CallMoves, CommitLabels
<1>4. x \in DOMAIN txns /\ txns[x].state = "Active" /\ owner[x] = p /\ x \in 1..MaxTxn
  BY <1>1, <1>2, OneOwner DEF OwnPending, PendingLabels, Identified, CommitLabels
<1>5. NoCallOn(x)
  BY <1>2, <1>4, OneOwner DEF NoCallOn, InsertsAt, MarksAt
<1>6. MarksAt(p, x)' /\ \A q \in Thread : ~InsertsAt(q, x)' /\ (q # p => ~MarksAt(q, x)')
  BY <1>2, <1>3, <1>5 DEF NoCallOn, Moves, InsertsAt, MarksAt
<1>7. \A y : y # x => Same(y)
  BY <1>1, <1>2, <1>3, UntouchedSame DEF InsertsAt, MarksAt
<1> QED BY <1>2, <1>4, <1>5, <1>6, <1>7 DEF Allocates, OnlyChanges

LEMMA MarkEffect ==
    ASSUME NEW p \in Thread, Types, Identified, Recorded, Moves(p), CommitMark(p)
    PROVE  \E x : Marks(p, x)
<1>1. PICK x : x = loc[p].txn
  OBVIOUS
<1>2. /\ x \in DOMAIN txns /\ txns[x].state = "Active"
      /\ pc[p] = "mark" /\ pc'[p] = "publish_ts" /\ oracle' = oracle
  BY <1>1, MarkStep
<1>3. txns[x] \in Transaction /\ txns \in [DOMAIN txns -> Transaction]
  BY <1>2 DEF Types
<1>4. /\ DOMAIN txns' = DOMAIN txns
      /\ \A y \in DOMAIN txns : y # x => txns'[y] = txns[y]
      /\ txns'[x].state = "Committed" /\ txns'[x].commit_ts = loc[p].commit_ts
      /\ txns'[x].read_ts = txns[x].read_ts /\ txns'[x].write_set = txns[x].write_set
  <2>1. PICK old \in Transaction : old = txns[x]
    BY <1>3
  <2> DEFINE new == [old EXCEPT !.state = "Committed", !.commit_ts = loc[p].commit_ts]
  <2>2. /\ new.state = "Committed" /\ new.commit_ts = loc[p].commit_ts
        /\ new.read_ts = old.read_ts /\ new.write_set = old.write_set
    BY DEF Transaction
  <2>3. txns' = [txns EXCEPT ![x] = new]
    BY <1>1, <2>1 DEF CommitMark
  <2> HIDE DEF new
  <2>4. /\ DOMAIN txns' = DOMAIN txns /\ txns'[x] = new
        /\ \A y \in DOMAIN txns : y # x => txns'[y] = txns[y]
    BY <1>2, <2>3
  <2> QED BY <2>1, <2>2, <2>4
<1>5. MarksAt(p, x)
  BY <1>1, <1>2 DEF MarksAt
<1>6. /\ x \in 1..MaxTxn /\ owner[x] = p
      /\ \A q \in Thread : ~InsertsAt(q, x) /\ (q # p => ~MarksAt(q, x))
  BY <1>2, <1>5, OneOwner DEF InsertsAt
<1>7. NoCallOn(x)'
  BY <1>2, <1>6 DEF NoCallOn, Moves, InsertsAt, MarksAt
<1>8. \A y : y # x => Same(y)
  BY <1>1, <1>2, <1>4, UntouchedSame DEF InsertsAt, MarksAt
<1> QED BY <1>2, <1>4, <1>5, <1>6, <1>7, <1>8 DEF Marks, OnlyChanges

\* Where nothing is collected and no commit is lost these are all steps.
LEMMA EffectOfStep ==
    ASSUME NEW p \in Thread, Types, Scheduled, Identified, Recorded, ~Unmapped,
           NoCollection, OwnPending,
           Moves(p), CallMoves(p), IdsMove(p), Step(p) \/ Call(p)
    PROVE  Effect(p)
<1>1. CASE Quiet(p)
  BY <1>1, QuietEffect DEF Effect
<1>2. CASE BeginSnapshot(p)
  BY <1>2, SnapshotEffect DEF Effect
<1>3. CASE BeginInsert(p)
  BY <1>3, InsertEffect DEF Effect
<1>4. CASE \E x \in DOMAIN txns, k \in Key : RecordWrite(p, x, k)
  BY <1>4, RecordEffect DEF Effect
<1>5. CASE \E x \in DOMAIN txns : Abort(p, x)
  BY <1>5, AbortEffect DEF Effect
<1>6. CASE CommitAbort(p)
  <2>1. loc[p].txn \in DOMAIN txns
    BY <1>6 DEF CommitAbort, OwnPending, PendingLabels
  <2> QED BY <1>6, <2>1, AbortEffect DEF Effect
<1>7. CASE CommitAllocate(p)
  BY <1>7, AllocateEffect DEF Effect
<1>8. CASE CommitMark(p)
  BY <1>8, MarkEffect DEF Effect
<1>9. ~CommitLost(p)
  BY DEF CommitLost, OwnPending, PendingLabels
<1>10. ~RunGc(p)
  BY DEF RunGc, Unmapped
<1>11. /\ ~GcMin(p) /\ ~GcScan(p) /\ ~GcRemove(p)
       /\ ~GcCommittedTs(p) /\ ~GcTxns(p) /\ ~GcReset(p)
  BY DEF NoCollection, GcLabels, GcMin, GcScan, GcRemove, GcCommittedTs, GcTxns, GcReset
<1> QED BY <1>1, <1>2, <1>3, <1>4, <1>5, <1>6, <1>7, <1>8, <1>9, <1>10, <1>11
        DEF Step, Call, Quiet

-----------------------------------------------------------------------------
(* The invariant of the mapped modes. *)

LEMMA SameStamp ==
    ASSUME NEW x, Same(x) PROVE \A c : Stamp(x, c)' <=> Stamp(x, c)
BY DEF Same, Stamp

\* Only an allocation stamps a transaction; its mark moves the stamp from the
\* call to the table.
StampsKept == oracle' = oracle /\ \A x, c : Stamp(x, c)' <=> Stamp(x, c)

LEMMA StampStep ==
    ASSUME NEW p \in Thread, Effect(p)
    PROVE  \/ StampsKept
           \/ \E x : /\ Allocates(p, x)
                     /\ \A y, c : Stamp(y, c)' <=> Stamp(y, c) \/ (y = x /\ c = oracle + 1)
<1>1. CASE Nothing
  BY <1>1, SameStamp DEF Nothing, StampsKept
<1>2. ASSUME NEW x, OnlyChanges(p, x), oracle' = oracle, \A c : Stamp(x, c)' <=> Stamp(x, c)
      PROVE  StampsKept
  <2>1. \A y, c : y # x => (Stamp(y, c)' <=> Stamp(y, c))
    BY <1>2, SameStamp DEF OnlyChanges
  <2> QED BY <1>2, <2>1 DEF StampsKept
<1>3. ASSUME NEW x, Begins(p, x) PROVE StampsKept
  <2>1. \A c : ~Stamp(x, c)
    BY <1>3 DEF Begins, Stamp, NoCallOn
  <2>2. \A c : ~Stamp(x, c)'
    BY <1>3 DEF Begins, Stamp
  <2> QED BY <1>2, <1>3, <2>1, <2>2 DEF Begins
<1>4. ASSUME NEW x, Inserts(p, x) PROVE StampsKept
  <2>1. \A c : ~Stamp(x, c)
    BY <1>4 DEF Inserts, Stamp
  <2>2. \A c : ~Stamp(x, c)'
    BY <1>4 DEF Inserts, Stamp, NoCallOn
  <2> QED BY <1>2, <1>4, <2>1, <2>2 DEF Inserts
<1>5. ASSUME NEW x, Rests(p, x), txns'[x].state # "Committed" PROVE StampsKept
  <2>1. \A c : ~Stamp(x, c)
    BY <1>5 DEF Rests, Stamp, NoCallOn
  <2>2. \A c : ~Stamp(x, c)'
    BY <1>5 DEF Rests, Stamp, NoCallOn
  <2> QED BY <1>2, <1>5, <2>1, <2>2 DEF Rests
<1>6. ASSUME NEW x, Marks(p, x) PROVE StampsKept
  <2>1. \A c : Stamp(x, c) <=> c = loc[p].commit_ts
    BY <1>6 DEF Marks, Stamp
  <2>2. \A c : Stamp(x, c)' <=> c = loc[p].commit_ts
    BY <1>6 DEF Marks, Stamp, NoCallOn
  <2> QED BY <1>2, <1>6, <2>1, <2>2 DEF Marks
<1>7. ASSUME NEW x, Allocates(p, x)
      PROVE  \A y, c : Stamp(y, c)' <=> Stamp(y, c) \/ (y = x /\ c = oracle + 1)
  <2>1. \A c : ~Stamp(x, c)
    BY <1>7 DEF Allocates, Stamp, NoCallOn
  <2>2. \A c : Stamp(x, c)' <=> c = oracle + 1
    BY <1>7 DEF Allocates, Stamp
  <2>3. \A y, c : y # x => (Stamp(y, c)' <=> Stamp(y, c))
    BY <1>7, SameStamp DEF Allocates, OnlyChanges
  <2> QED BY <2>1, <2>2, <2>3
<1>8. \A x : \A k \in Key : Records(p, x, k) => StampsKept
  BY <1>5 DEF Records
<1>9. \A x : Aborts(p, x) => StampsKept
  BY <1>5 DEF Aborts
<1> QED BY <1>1, <1>3, <1>4, <1>6, <1>7, <1>8, <1>9 DEF Effect

LEMMA OrderStep ==
    ASSUME NEW p \in Thread, Types, Order, Effect(p) PROVE Order'
<1>1. oracle \in Nat \ {0}
  BY DEF Types
<1>2. /\ \A x \in 1..MaxTxn : \A c : Stamp(x, c) => c \in 2..oracle
      /\ \A c \in 2..oracle : \E x \in 1..MaxTxn : Stamp(x, c)
      /\ \A x, y \in 1..MaxTxn : \A c : Stamp(x, c) /\ Stamp(y, c) => x = y
  BY DEF Order
<1>3. CASE StampsKept
  BY <1>2, <1>3 DEF StampsKept, Order
<1>4. ASSUME NEW x, Allocates(p, x),
             \A y, c : Stamp(y, c)' <=> Stamp(y, c) \/ (y = x /\ c = oracle + 1)
      PROVE  Order'
  <2>1. x \in 1..MaxTxn /\ oracle' = oracle + 1
    BY <1>4 DEF Allocates, OnlyChanges
  <2>2. ASSUME NEW y \in 1..MaxTxn, NEW c, Stamp(y, c)' PROVE c \in 2..oracle'
    BY <1>1, <1>2, <1>4, <2>1, <2>2
  <2>3. ASSUME NEW c \in 2..oracle' PROVE \E y \in 1..MaxTxn : Stamp(y, c)'
    <3>1. CASE c \in 2..oracle
      BY <1>2, <1>4, <3>1
    <3>2. CASE c \notin 2..oracle
      BY <1>1, <1>4, <2>1, <3>2
    <3> QED BY <3>1, <3>2
  <2>4. ASSUME NEW y \in 1..MaxTxn, NEW z \in 1..MaxTxn, NEW c, Stamp(y, c)', Stamp(z, c)'
        PROVE  y = z
    <3>1. oracle + 1 \notin 2..oracle
      BY <1>1
    <3>2. \A w \in 1..MaxTxn : ~Stamp(w, oracle + 1)
      BY <1>2, <3>1
    <3>3. CASE c = oracle + 1
      BY <1>4, <2>4, <3>2, <3>3
    <3>4. CASE c # oracle + 1
      <4>1. Stamp(y, c) /\ Stamp(z, c)
        BY <1>4, <2>4, <3>4
      <4> QED BY <1>2, <4>1
    <3> QED BY <3>3, <3>4
  <2> QED BY <2>2, <2>3, <2>4 DEF Order
<1> QED BY <1>3, <1>4, StampStep

\* Where the collector is not due a call never reaches it.
LEMMA NoCollectionStep ==
    ASSUME NEW p \in Thread, Types, Types', ~Unmapped, NoCollection, Moves(p), mode' = mode,
           CounterBounded', Step(p) \/ Call(p)
    PROVE  NoCollection'
<1> USE DEF GcLabels, Goto, Return
<1>1. /\ pc \in [Thread -> Labels] /\ pc' \in [Thread -> Labels]
      /\ MaxTxn \in Nat /\ commits_since_gc \in Nat
      /\ mode.gc_interval \in Nat /\ mode.gc_interval > MaxTxn /\ ~mode.run_gc
  BY ConcurrentTMAssumption DEF Types, ModeType, Unmapped
<1>2. pc'[p] \notin GcLabels
  <2>1. CASE CommitCount(p)
    BY <1>1, <2>1 DEF CommitCount, CounterBounded
  <2>2. CASE \/ BeginInsert(p) \/ CommitValidate(p) \/ CommitAbort(p)
             \/ CommitAllocate(p) \/ CommitLost(p) \/ CommitMark(p)
             \/ CommitPublishTs(p) \/ CommitPublish(p) \/ CommitNotify(p)
             \/ BeginSnapshot(p)
    BY <1>1, <2>2 DEF BeginInsert, CommitValidate, CommitAbort, BeginSnapshot,
                      CommitAllocate, CommitLost, CommitMark,
                      CommitPublishTs, CommitPublish, CommitNotify
  <2>3. /\ ~RunGc(p) /\ ~GcMin(p) /\ ~GcScan(p) /\ ~GcRemove(p)
        /\ ~GcCommittedTs(p) /\ ~GcTxns(p) /\ ~GcReset(p)
    BY <1>1 DEF NoCollection, RunGc, GcMin, GcScan, GcRemove, GcCommittedTs, GcTxns, GcReset
  <2>4. CASE \E x \in DOMAIN txns : \/ Abort(p, x) \/ CommitRead(p, x)
                                    \/ \E k \in Key : RecordWrite(p, x, k)
    BY <1>1, <2>4 DEF Abort, CommitRead, RecordWrite, CanCall
  <2> QED BY <2>1, <2>2, <2>3, <2>4 DEF Step, Call
<1>3. ~overtaken'
  <2>1. ~GcMin(p) /\ ~GcRemove(p)
    BY DEF NoCollection, GcMin, GcRemove
  <2> QED BY <2>1, OvertakenStep, Zenon DEF NoCollection
<1> QED BY <1>2, <1>3 DEF NoCollection, Moves

\* A commit under way keeps its transaction active: it is its thread's own.
LEMMA OwnPendingStep ==
    ASSUME NEW p \in Thread, Types, Scheduled, Identified, OwnPending,
           Moves(p), CallMoves(p), Effect(p)
    PROVE  OwnPending'
<1> USE DEF PendingLabels, CommitLabels
<1>1. \A x : \/ Same(x)
             \/ /\ pc'[p] \notin PendingLabels
                /\ x \in DOMAIN txns => owner[x] = p
             \/ x \in DOMAIN txns /\ x \in DOMAIN txns' /\ txns'[x] = txns[x]
  <2>1. ASSUME NEW y, NEW x, x = y \/ Same(y),
               \/ Begins(p, x) \/ Inserts(p, x) \/ Aborts(p, x) \/ Allocates(p, x) \/ Marks(p, x)
               \/ \E k \in Key : Records(p, x, k)
        PROVE  \/ Same(y)
               \/ /\ pc'[p] \notin PendingLabels
                  /\ y \in DOMAIN txns => owner[y] = p
               \/ y \in DOMAIN txns /\ y \in DOMAIN txns' /\ txns'[y] = txns[y]
    BY <2>1 DEF Begins, Inserts, Records, Aborts, Rests, Allocates, Marks, InsertsAt
  <2>2. \A x : \/ Begins(p, x) \/ Inserts(p, x) \/ Aborts(p, x) \/ Allocates(p, x) \/ Marks(p, x)
               \/ \E k \in Key : Records(p, x, k)
               => \A y : y = x \/ Same(y)
    BY DEF Begins, Inserts, Records, Aborts, Rests, Allocates, Marks, OnlyChanges
  <2>3. Nothing => \A y : Same(y)
    BY DEF Nothing
  <2> QED BY <2>1, <2>2, <2>3 DEF Effect
<1> SUFFICES ASSUME NEW q \in Thread, pc'[q] \in PendingLabels
             PROVE  loc'[q].txn \in DOMAIN txns' /\ txns'[loc'[q].txn].state = "Active"
  BY DEF OwnPending
<1>2. ASSUME pc[q] \in PendingLabels, loc'[q].txn = loc[q].txn
      PROVE  loc'[q].txn \in DOMAIN txns' /\ txns'[loc'[q].txn].state = "Active"
  <2> DEFINE x == loc[q].txn
  <2>1. x \in DOMAIN txns /\ txns[x].state = "Active" /\ owner[x] = q
    BY <1>2 DEF OwnPending, Identified
  <2>2. q # p \/ pc'[p] \in PendingLabels
    OBVIOUS
  <2> HIDE DEF x
  <2>3. x \in DOMAIN txns' /\ txns'[x] = txns[x]
    BY <1>1, <2>1, <2>2 DEF Same
  <2> QED BY <1>2, <2>1, <2>3 DEF x
<1>3. CASE q # p
  BY <1>2, <1>3 DEF Moves
<1>4. CASE q = p /\ pc'[p] # "validate"
  BY <1>2, <1>4 DEF CallMoves
<1>5. CASE q = p /\ pc'[p] = "validate"
  <2>1. PICK x \in DOMAIN txns : CommitRead(p, x)
    BY <1>5 DEF CallMoves
  <2> QED BY <1>5, <2>1, ReadStep
<1> QED BY <1>3, <1>4, <1>5

\* A mark puts into the history what it puts into the table.
LEMMA MatchedStep ==
    ASSUME NEW p \in Thread, Types, Identified, Recorded, Matched, Moves(p), TableMoves(p),
           Step(p) \/ Call(p)
    PROVE  Matched'
<1> SUFFICES ASSUME NEW x \in DOMAIN txns', txns'[x].state = "Committed"
             PROVE  \E h \in history' : /\ h.txn = x
                                        /\ h.commit_ts = txns'[x].commit_ts
                                        /\ h.write_set = txns'[x].write_set
  BY DEF Matched
<1>1. x \in DOMAIN txns
  BY DEF TableMoves
<1>2. history \subseteq history'
  BY MarkStep, HistoryStep
<1>3. CASE txns[x].state = "Committed"
  <2>1. txns'[x] = txns[x]
    BY <1>1, <1>3 DEF TableMoves
  <2> QED BY <1>1, <1>2, <1>3, <2>1 DEF Matched
<1>4. CASE txns[x].state # "Committed"
  <2>1. CommitMark(p) /\ x = loc[p].txn
    BY <1>1, <1>4 DEF TableMoves
  <2>2. PICK y : Marks(p, y)
    BY <2>1, MarkEffect
  <2>3. y = x
    BY <2>1, <2>2 DEF Marks, MarksAt
  <2>4. /\ Record(p) \in history' /\ Record(p).txn = x
        /\ Record(p).commit_ts = loc[p].commit_ts /\ Record(p).write_set = loc[p].write_set
        /\ pc[p] = "mark"
    BY <2>1, MarkStep
  <2>5. txns'[x].commit_ts = loc[p].commit_ts /\ txns'[x].write_set = txns[x].write_set
    BY <2>2, <2>3 DEF Marks
  <2>6. txns[x].write_set = loc[p].write_set
    BY <1>1, <2>1, <2>4 DEF Identified, PendingLabels
  <2> QED BY <2>4, <2>5, <2>6
<1> QED BY <1>3, <1>4

LEMMA SnapshotsStep ==
    ASSUME NEW p \in Thread, Types, Snapshots, Moves(p), CallMoves(p), IdsMove(p), TableMoves(p)
    PROVE  Snapshots'
<1>1. ASSUME NEW q \in Thread, pc'[q] = "insert" PROVE loc'[q].read_ts >= 1
  <2>1. CASE q = p
    BY <1>1, <2>1 DEF CallMoves, IdsMove, Types
  <2>2. CASE q # p
    BY <1>1, <2>2 DEF Moves, Snapshots
  <2> QED BY <2>1, <2>2
<1>2. ASSUME NEW x \in DOMAIN txns' PROVE txns'[x].read_ts >= 1
  BY <1>2 DEF TableMoves, Snapshots
<1> QED BY <1>1, <1>2 DEF Snapshots

LEMMA InitSIInv == ASSUME Init PROVE SIInv
<1>1. /\ overtaken = FALSE /\ oracle = 1 /\ DOMAIN txns = {} /\ \A p \in Thread : pc[p] = "idle"
  BY DEF Init
<1>2. \A x, c : ~Stamp(x, c)
  BY <1>1 DEF Stamp, MarksAt
<1>3. Order
  BY <1>1, <1>2 DEF Order
<1> QED BY <1>1, <1>3 DEF SIInv, NoCollection, OwnPending, Matched, Snapshots,
                          GcLabels, PendingLabels

LEMMA NextSIInv == ASSUME IInv, IInv', SIInv, [Next]_vars PROVE SIInv'
<1>1. Types /\ Types' /\ Scheduled /\ Identified /\ Recorded /\ Timed /\ TimedCalls
  BY DEF IInv
<1>2. CASE Next
  <2>1. PICK p \in Thread : Step(p) \/ Call(p)
    BY <1>2 DEF Next
  <2>2. Moves(p) /\ mode' = mode
    BY <1>1, <2>1, Stepping, TablesTyped
  <2>3. TableMoves(p) /\ CallMoves(p) /\ IdsMove(p)
    BY <1>1, <2>1, TableStep, CallStep, IdsStep
  <2>4. Types' /\ Counted' => CounterBounded'
    BY CountedBound, PTL
  <2>5. CounterBounded'
    BY <2>4 DEF IInv
  <2>6. Unmapped' <=> Unmapped
    BY <2>2 DEF Unmapped
  <2>7. ASSUME ~Unmapped
        PROVE  NoCollection' /\ OwnPending' /\ Matched' /\ Order' /\ Snapshots'
    <3>1. NoCollection /\ OwnPending /\ Matched /\ Order /\ Snapshots
      BY <2>7 DEF SIInv
    <3>2. Effect(p)
      BY <1>1, <2>1, <2>2, <2>3, <2>7, <3>1, EffectOfStep
    <3> QED BY <1>1, <2>1, <2>2, <2>3, <2>5, <2>7, <3>1, <3>2, NoCollectionStep,
               OwnPendingStep, MatchedStep, OrderStep, SnapshotsStep
  <2> QED BY <2>6, <2>7 DEF SIInv
<1>3. CASE UNCHANGED vars
  <2> USE <1>3 DEF vars, shared, control, ghosts
  <2>1. (Unmapped' <=> Unmapped) /\ (NoCollection' <=> NoCollection)
        /\ (OwnPending' <=> OwnPending) /\ (Matched' <=> Matched) /\ (Snapshots' <=> Snapshots)
    BY DEF Unmapped, NoCollection, OwnPending, Matched, Snapshots
  <2>2. \A x, c : Stamp(x, c)' <=> Stamp(x, c)
    BY DEF Stamp, MarksAt
  <2>3. Order => Order'
    BY <2>2 DEF Order
  <2> QED BY <2>1, <2>3 DEF SIInv
<1> QED BY <1>2, <1>3

LEMMA MappedInvariance == ASSUME Disciplined PROVE Spec => [](IInv /\ SIInv)
<1>1. Init => IInv /\ SIInv
  BY InitIInv, InitSIInv
<1>2. IInv /\ SIInv /\ [Next]_vars => (IInv /\ SIInv)'
  BY NextIInv, NextSIInv
<1> QED BY <1>1, <1>2, PTL DEF Spec

-----------------------------------------------------------------------------
(* What the mapping makes of the transactions. *)

Mapped ==
    /\ Status = [x \in 1..MaxTxn |-> Status[x]]
    /\ Start = [x \in 1..MaxTxn |-> Start[x]]
    /\ Writes = [x \in 1..MaxTxn |-> Writes[x]]
    /\ \A x \in 1..MaxTxn :
          /\ x \in DOMAIN txns =>
                /\ Start[x] = txns[x].read_ts - 1
                /\ Writes[x] = txns[x].write_set
                /\ Status[x] = IF txns[x].state = "Committed" \/ \E q \in Thread : MarksAt(q, x)
                               THEN "committed"
                               ELSE IF txns[x].state = "Aborted" THEN "aborted" ELSE "active"
          /\ x \notin DOMAIN txns => Writes[x] = {}
          /\ \A q \in Thread : InsertsAt(q, x) =>
                Status[x] = "active" /\ Start[x] = loc[q].read_ts - 1
          /\ x \notin DOMAIN txns /\ (\A q \in Thread : ~InsertsAt(q, x)) =>
                Status[x] = "none" /\ Start[x] = 0

\* CommitOrder lists the transactions by their stamps.
OrderListed ==
    /\ CommitOrder = [i \in 1..(oracle - 1) |-> CommitOrder[i]]
    /\ \A i \in 1..(oracle - 1) :
          CommitOrder[i] \in 1..MaxTxn /\ Stamp(CommitOrder[i], i + 1)

\* Reading the three mapped functions.
LEMMA MappingReads ==
    ASSUME Types, Identified, ~Unmapped PROVE Mapped
<1>1. \A x : /\ Snapshotting(x) = {q \in Thread : InsertsAt(q, x)}
             /\ Marking(x) = {q \in Thread : MarksAt(q, x)}
  BY DEF Snapshotting, Marking, InsertsAt, MarksAt
<1>2. /\ Status = [x \in 1..MaxTxn |-> StatusOf(x)]
      /\ Start = [x \in 1..MaxTxn |-> StartOf(x)]
      /\ Writes = [x \in 1..MaxTxn |-> IF StatusOf(x) = "none" \/ x \notin DOMAIN txns THEN {}
                                       ELSE txns[x].write_set]
  BY DEF Status, Start, Writes
<1>3. ASSUME NEW x \in 1..MaxTxn, x \in DOMAIN txns
      PROVE  /\ StartOf(x) = txns[x].read_ts - 1
             /\ StatusOf(x) = IF txns[x].state = "Committed" \/ \E q \in Thread : MarksAt(q, x)
                              THEN "committed"
                              ELSE IF txns[x].state = "Aborted" THEN "aborted" ELSE "active"
             /\ StatusOf(x) # "none"
  <2>1. Begun(x) /\ (Marking(x) # {} <=> \E q \in Thread : MarksAt(q, x))
    BY <1>1, <1>3 DEF Begun
  <2> QED BY <1>3, <2>1 DEF StartOf, StatusOf
<1>4. ASSUME NEW x \in 1..MaxTxn, NEW q \in Thread, InsertsAt(q, x)
      PROVE  StatusOf(x) = "active" /\ StartOf(x) = loc[q].read_ts - 1
  <2>1. x \notin DOMAIN txns /\ \A r \in Thread : InsertsAt(r, x) => r = q
    BY <1>4, OneOwner
  <2>2. Snapshotting(x) = {q}
    BY <1>1, <1>4, <2>1
  <2>3. (CHOOSE r \in Snapshotting(x) : TRUE) = q
    BY <2>2
  <2>4. Begun(x)
    BY <2>2 DEF Begun
  <2> QED BY <2>1, <2>3, <2>4 DEF StartOf, StatusOf
<1>5. ASSUME NEW x \in 1..MaxTxn, x \notin DOMAIN txns, \A q \in Thread : ~InsertsAt(q, x)
      PROVE  StatusOf(x) = "none" /\ StartOf(x) = 0
  BY <1>1, <1>5 DEF Begun, StartOf, StatusOf
<1> QED BY <1>2, <1>3, <1>4, <1>5 DEF Mapped

\* In the table or in the call, CommitTs reads a stamp of a committed
\* transaction.
LEMMA CommitTsReads ==
    ASSUME Types, Identified, OwnPending, ~Unmapped
    PROVE  \A x \in 1..MaxTxn : \A c :
              Stamp(x, c) <=> x \in DOMAIN txns /\ StatusOf(x) = "committed" /\ CommitTs(x) = c
<1> SUFFICES ASSUME NEW x \in 1..MaxTxn, NEW c
             PROVE  Stamp(x, c) <=>
                       x \in DOMAIN txns /\ StatusOf(x) = "committed" /\ CommitTs(x) = c
  OBVIOUS
<1>1. Marking(x) = {q \in Thread : MarksAt(q, x)}
  BY DEF Marking, MarksAt
<1>2. CASE \E q \in Thread : MarksAt(q, x)
  <2>1. PICK q \in Thread : MarksAt(q, x)
    BY <1>2
  <2>2. \A r \in Thread : MarksAt(r, x) => r = q
    BY <2>1, OneOwner
  <2>3. Marking(x) = {q} /\ Marking(x) # {}
    BY <1>1, <2>1, <2>2
  <2>4. (CHOOSE r \in Marking(x) : TRUE) = q
    BY <2>3
  <2>5. CommitTs(x) = loc[q].commit_ts
    BY <2>3, <2>4 DEF CommitTs
  <2>6. x \in DOMAIN txns /\ txns[x].state = "Active"
    BY <2>1 DEF OwnPending, MarksAt, PendingLabels
  <2>7. StatusOf(x) = "committed"
    BY <2>3, <2>6 DEF StatusOf, Begun
  <2>8. Stamp(x, c) <=> loc[q].commit_ts = c
    BY <2>1, <2>2, <2>6 DEF Stamp
  <2> QED BY <2>5, <2>6, <2>7, <2>8
<1>3. CASE \A q \in Thread : ~MarksAt(q, x)
  <2>1. Marking(x) = {}
    BY <1>1, <1>3
  <2>2. CommitTs(x) = txns[x].commit_ts
    BY <2>1 DEF CommitTs
  <2>3. x \in DOMAIN txns => (StatusOf(x) = "committed" <=> txns[x].state = "Committed")
    BY <2>1 DEF StatusOf, Begun
  <2>4. Stamp(x, c) <=> x \in DOMAIN txns /\ txns[x].state = "Committed" /\ txns[x].commit_ts = c
    BY <1>3 DEF Stamp
  <2> QED BY <2>2, <2>3, <2>4
<1> QED BY <1>2, <1>3

LEMMA CommitOrderLists ==
    ASSUME Types, Identified, OwnPending, Order, ~Unmapped PROVE OrderListed
<1>1. oracle \in Nat \ {0}
  BY DEF Types
<1>2. CommitOrder = [i \in 1..(oracle - 1) |->
                       CHOOSE x \in DOMAIN txns : StatusOf(x) = "committed" /\ CommitTs(x) = i + 1]
  BY DEF CommitOrder
<1>3. ASSUME NEW i \in 1..(oracle - 1)
      PROVE  CommitOrder[i] \in 1..MaxTxn /\ Stamp(CommitOrder[i], i + 1)
  <2>1. i + 1 \in 2..oracle
    BY <1>1
  <2>2. PICK x \in 1..MaxTxn : Stamp(x, i + 1)
    BY <2>1 DEF Order
  <2>3. x \in DOMAIN txns /\ StatusOf(x) = "committed" /\ CommitTs(x) = i + 1
    BY <2>2, CommitTsReads
  <2> DEFINE P(y) == StatusOf(y) = "committed" /\ CommitTs(y) = i + 1
             y == CHOOSE z \in DOMAIN txns : P(z)
  <2>4. \E z \in DOMAIN txns : P(z)
    BY <2>3
  <2> HIDE DEF P
  <2>5. y \in DOMAIN txns /\ P(y)
    BY <2>4
  <2> USE DEF P
  <2>6. y \in 1..MaxTxn
    BY <2>5, OneOwner
  <2>7. Stamp(y, i + 1)
    BY <2>5, <2>6, CommitTsReads
  <2>8. CommitOrder[i] = y
    BY <1>2
  <2> QED BY <2>6, <2>7, <2>8
<1> QED BY <1>2, <1>3 DEF OrderListed

\* The mapped modes' view of a state.
View == ~Unmapped => Mapped /\ OrderListed

LEMMA Views == IInv /\ SIInv => View
BY MappingReads, CommitOrderLists DEF IInv, SIInv, View

LEMMA CommitOrderLen ==
    ASSUME oracle \in Nat \ {0}, OrderListed
    PROVE  Len(CommitOrder) = oracle - 1 /\ CommitOrder \in Seq(1..MaxTxn)
<1> DEFINE n == oracle - 1
           T == 1..MaxTxn
<1>1. n \in Nat
  OBVIOUS
<1>2. CommitOrder \in [1..n -> T]
  BY DEF OrderListed
<1> HIDE DEF n, T
<1>3. CommitOrder \in Seq(T) /\ Len(CommitOrder) = n
  BY <1>1, <1>2
<1> QED BY <1>3 DEF n, T

-----------------------------------------------------------------------------
(* Each effect is a step of SnapshotIsolation, or a stutter. *)

\* What a step leaves of a transaction, the mapping leaves too.
LEMMA SameMapped ==
    ASSUME Mapped, Mapped', NEW x \in 1..MaxTxn, Same(x)
    PROVE  Status'[x] = Status[x] /\ Start'[x] = Start[x] /\ Writes'[x] = Writes[x]
<1>1. CASE x \in DOMAIN txns
  <2>1. x \in DOMAIN txns' /\ txns'[x] = txns[x]
        /\ \A q \in Thread : MarksAt(q, x)' <=> MarksAt(q, x)
    BY <1>1 DEF Same
  <2>2. Start'[x] = txns[x].read_ts - 1 /\ Writes'[x] = txns[x].write_set
    BY <2>1 DEF Mapped
  <2>3. Status'[x] = IF txns[x].state = "Committed" \/ \E q \in Thread : MarksAt(q, x)
                     THEN "committed"
                     ELSE IF txns[x].state = "Aborted" THEN "aborted" ELSE "active"
    BY <2>1 DEF Mapped
  <2> QED BY <1>1, <2>2, <2>3 DEF Mapped
<1>2. ASSUME NEW q \in Thread, InsertsAt(q, x), x \notin DOMAIN txns
      PROVE  Status'[x] = Status[x] /\ Start'[x] = Start[x] /\ Writes'[x] = Writes[x]
  <2>1. x \notin DOMAIN txns' /\ InsertsAt(q, x)' /\ loc'[q].read_ts = loc[q].read_ts
    BY <1>2 DEF Same
  <2>2. Status'[x] = "active" /\ Start'[x] = loc[q].read_ts - 1 /\ Writes'[x] = {}
    BY <2>1 DEF Mapped
  <2> QED BY <1>2, <2>2 DEF Mapped
<1>3. CASE x \notin DOMAIN txns /\ \A q \in Thread : ~InsertsAt(q, x)
  <2>1. x \notin DOMAIN txns' /\ \A q \in Thread : ~InsertsAt(q, x)'
    BY <1>3 DEF Same
  <2>2. Status'[x] = "none" /\ Start'[x] = 0 /\ Writes'[x] = {}
    BY <2>1 DEF Mapped
  <2> QED BY <1>3, <2>2 DEF Mapped
<1> QED BY <1>1, <1>2, <1>3

\* A function that agrees everywhere but at one argument.
LEMMA OneChange ==
    ASSUME NEW S, NEW f, NEW g, f = [x \in S |-> f[x]], g = [x \in S |-> g[x]],
           NEW d \in S, NEW e, g[d] = e,
           \A x \in S : x # d => g[x] = f[x]
    PROVE  g = [f EXCEPT ![d] = e]
OBVIOUS

LEMMA NoChange ==
    ASSUME NEW S, NEW f, NEW g, f = [x \in S |-> f[x]], g = [x \in S |-> g[x]],
           \A x \in S : g[x] = f[x]
    PROVE  g = f
OBVIOUS

LEMMA SameOrder ==
    ASSUME OrderListed, OrderListed', Order', StampsKept PROVE CommitOrder' = CommitOrder
<1>1. oracle' = oracle
  BY DEF StampsKept
<1>2. ASSUME NEW i \in 1..(oracle - 1) PROVE CommitOrder'[i] = CommitOrder[i]
  <2>1. CommitOrder[i] \in 1..MaxTxn /\ Stamp(CommitOrder[i], i + 1)
    BY DEF OrderListed
  <2>2. PICK x \in 1..MaxTxn : x = CommitOrder[i] /\ Stamp(x, i + 1)
    BY <2>1
  <2>3. PICK y \in 1..MaxTxn : y = CommitOrder'[i] /\ Stamp(y, i + 1)'
    BY <1>1 DEF OrderListed
  <2>4. Stamp(x, i + 1)'
    BY <2>2 DEF StampsKept
  <2>5. x = y
    BY <2>3, <2>4 DEF Order
  <2> QED BY <2>2, <2>3, <2>5
<1> QED BY <1>1, <1>2 DEF OrderListed

\* A snapshot at the oracle is the whole commit order.
LEMMA BeginMaps ==
    ASSUME Types, Mapped, Mapped', OrderListed, OrderListed', Order', StampsKept,
           NEW p \in Thread, NEW x, Begins(p, x)
    PROVE  SI!Begin(x) /\ x \in 1..MaxTxn
<1>1. /\ x \in 1..MaxTxn /\ oracle \in Nat \ {0}
      /\ \A y \in 1..MaxTxn : y # x => Same(y)
      /\ x \notin DOMAIN txns /\ x \notin DOMAIN txns' /\ NoCallOn(x)
      /\ InsertsAt(p, x)' /\ loc'[p].read_ts = oracle
  BY DEF Begins, OnlyChanges, Types
<1>2. Status[x] = "none" /\ Writes[x] = {}
  BY <1>1 DEF Mapped, NoCallOn
<1>3. Status'[x] = "active" /\ Start'[x] = oracle - 1 /\ Writes'[x] = {}
  BY <1>1 DEF Mapped
<1>4. \A y \in 1..MaxTxn : y # x =>
         Status'[y] = Status[y] /\ Start'[y] = Start[y] /\ Writes'[y] = Writes[y]
  BY <1>1, SameMapped
<1>5. Status' = [Status EXCEPT ![x] = "active"]
  BY <1>1, <1>3, <1>4, OneChange DEF Mapped
<1>6. Start' = [Start EXCEPT ![x] = Len(CommitOrder)]
  BY <1>1, <1>3, <1>4, OneChange, CommitOrderLen DEF Mapped
<1>7. Writes' = Writes
  <2>1. \A y \in 1..MaxTxn : Writes'[y] = Writes[y]
    BY <1>2, <1>3, <1>4
  <2> QED BY <2>1, NoChange DEF Mapped
<1>8. CommitOrder' = CommitOrder
  BY SameOrder
<1> QED BY <1>1, <1>2, <1>5, <1>6, <1>7, <1>8 DEF SI!Begin

\* The insertion into the table and the mark show what is already so.
LEMMA StutterMaps ==
    ASSUME Types, Snapshots, Mapped, Mapped', OrderListed, OrderListed', Order', StampsKept,
           Nothing \/ \E p \in Thread : \E x : Inserts(p, x) \/ Marks(p, x)
    PROVE  UNCHANGED SI!vars
<1>1. CommitOrder' = CommitOrder
  BY SameOrder
<1>2. ASSUME NEW y \in 1..MaxTxn
      PROVE  Status'[y] = Status[y] /\ Start'[y] = Start[y] /\ Writes'[y] = Writes[y]
  <2>1. CASE Same(y)
    BY <2>1, SameMapped
  <2>2. ASSUME NEW p \in Thread, Inserts(p, y)
        PROVE  Status'[y] = Status[y] /\ Start'[y] = Start[y] /\ Writes'[y] = Writes[y]
    <3>1. /\ y \in DOMAIN txns' /\ txns'[y].state = "Active" /\ txns'[y].write_set = {}
          /\ txns'[y].read_ts = loc[p].read_ts /\ \A q \in Thread : ~MarksAt(q, y)'
          /\ y \notin DOMAIN txns /\ InsertsAt(p, y)
      BY <2>2 DEF Inserts, NoCallOn
    <3>2. Status[y] = "active" /\ Start[y] = loc[p].read_ts - 1 /\ Writes[y] = {}
      BY <3>1 DEF Mapped
    <3>3. Status'[y] = "active" /\ Start'[y] = loc[p].read_ts - 1 /\ Writes'[y] = {}
      BY <3>1 DEF Mapped
    <3> QED BY <3>2, <3>3
  <2>3. ASSUME NEW p \in Thread, Marks(p, y)
        PROVE  Status'[y] = Status[y] /\ Start'[y] = Start[y] /\ Writes'[y] = Writes[y]
    <3>1. /\ y \in DOMAIN txns /\ y \in DOMAIN txns' /\ MarksAt(p, y)
          /\ txns'[y].state = "Committed" /\ txns'[y].read_ts = txns[y].read_ts
          /\ txns'[y].write_set = txns[y].write_set
      BY <2>3 DEF Marks
    <3>2. Status[y] = "committed" /\ Start[y] = txns[y].read_ts - 1
          /\ Writes[y] = txns[y].write_set
      BY <3>1 DEF Mapped
    <3>3. Status'[y] = "committed" /\ Start'[y] = txns[y].read_ts - 1
          /\ Writes'[y] = txns[y].write_set
      BY <3>1 DEF Mapped
    <3> QED BY <3>2, <3>3
  <2>4. Same(y) \/ \E p \in Thread : Inserts(p, y) \/ Marks(p, y)
    BY DEF Nothing, Inserts, Marks, OnlyChanges
  <2> QED BY <2>1, <2>2, <2>3, <2>4
<1>3. Status' = Status
  BY <1>2, NoChange DEF Mapped
<1>4. Start' = Start
  BY <1>2, NoChange DEF Mapped
<1>5. Writes' = Writes
  BY <1>2, NoChange DEF Mapped
<1> QED BY <1>1, <1>3, <1>4, <1>5 DEF SI!vars

\* record_write maps to Write, abort and the conflict of a commit to Abort.
LEMMA RestsMaps ==
    ASSUME Types, Mapped, Mapped', OrderListed, OrderListed', Order', StampsKept,
           NEW p \in Thread, NEW x
    PROVE  /\ \A k \in Key : Records(p, x, k) => SI!Write(x, k) /\ x \in 1..MaxTxn
           /\ Aborts(p, x) => SI!Abort(x) /\ x \in 1..MaxTxn
<1>1. CommitOrder' = CommitOrder
  BY SameOrder
<1>2. ASSUME Rests(p, x)
      PROVE  /\ x \in 1..MaxTxn /\ x \in DOMAIN txns /\ x \in DOMAIN txns'
             /\ \A q \in Thread : ~MarksAt(q, x) /\ ~MarksAt(q, x)'
             /\ Status[x] = "active" /\ Writes[x] = txns[x].write_set
             /\ Start' = Start
             /\ \A y \in 1..MaxTxn : y # x => Status'[y] = Status[y] /\ Writes'[y] = Writes[y]
  <2>1. /\ x \in 1..MaxTxn /\ x \in DOMAIN txns /\ x \in DOMAIN txns'
        /\ \A q \in Thread : ~MarksAt(q, x) /\ ~MarksAt(q, x)'
        /\ \A y \in 1..MaxTxn : y # x => Same(y)
        /\ txns'[x].read_ts = txns[x].read_ts /\ txns[x].state = "Active"
    BY <1>2 DEF Rests, OnlyChanges, NoCallOn
  <2>2. Status[x] = "active" /\ Writes[x] = txns[x].write_set /\ Start'[x] = Start[x]
    BY <2>1 DEF Mapped
  <2>3. \A y \in 1..MaxTxn : y # x =>
           Status'[y] = Status[y] /\ Start'[y] = Start[y] /\ Writes'[y] = Writes[y]
    BY <2>1, SameMapped
  <2>4. Start' = Start
    BY <2>2, <2>3, NoChange DEF Mapped
  <2> QED BY <2>1, <2>2, <2>3, <2>4
<1>3. ASSUME NEW k \in Key, Records(p, x, k) PROVE SI!Write(x, k) /\ x \in 1..MaxTxn
  <2>1. Rests(p, x) /\ txns'[x].state = "Active"
        /\ txns'[x].write_set = txns[x].write_set \cup {k}
    BY <1>3 DEF Records
  <2>2. Status'[x] = "active" /\ Writes'[x] = Writes[x] \cup {k}
    BY <1>2, <2>1 DEF Mapped
  <2>3. Status' = Status
    BY <1>2, <2>1, <2>2, NoChange DEF Mapped
  <2>4. Writes' = [Writes EXCEPT ![x] = Writes[x] \cup {k}]
    BY <1>2, <2>1, <2>2, OneChange DEF Mapped
  <2> QED BY <1>1, <1>2, <2>1, <2>3, <2>4 DEF SI!Write
<1>4. ASSUME Aborts(p, x) PROVE SI!Abort(x) /\ x \in 1..MaxTxn
  <2>1. Rests(p, x) /\ txns'[x].state = "Aborted" /\ txns'[x].write_set = txns[x].write_set
    BY <1>4 DEF Aborts
  <2>2. Status'[x] = "aborted" /\ Writes'[x] = Writes[x]
    BY <1>2, <2>1 DEF Mapped
  <2>3. Writes' = Writes
    BY <1>2, <2>1, <2>2, NoChange DEF Mapped
  <2>4. Status' = [Status EXCEPT ![x] = "aborted"]
    BY <1>2, <2>1, <2>2, OneChange DEF Mapped
  <2> QED BY <1>1, <1>2, <2>1, <2>3, <2>4 DEF SI!Abort
<1> QED BY <1>3, <1>4

\* The new timestamp puts the transaction behind all that have committed; the
\* ones after its snapshot are in latest_writes, which the call has validated
\* and still holds locked.
LEMMA CommitMaps ==
    ASSUME IInv, NoCollection, Matched, Snapshots, Mapped, Mapped', OrderListed, OrderListed',
           Order, Order', NEW p \in Thread, NEW x, Allocates(p, x),
           pc[p] = "allocate", loc[p].txn = x,
           \A y, c : Stamp(y, c)' <=> Stamp(y, c) \/ (y = x /\ c = oracle + 1)
    PROVE  SI!Commit(x) /\ x \in 1..MaxTxn
<1>1. /\ x \in 1..MaxTxn /\ oracle \in Nat \ {0} /\ oracle' = oracle + 1
      /\ \A y \in 1..MaxTxn : y # x => Same(y)
      /\ x \in DOMAIN txns /\ x \in DOMAIN txns' /\ txns'[x] = txns[x]
      /\ txns[x].state = "Active" /\ NoCallOn(x) /\ MarksAt(p, x)'
  BY DEF Allocates, OnlyChanges, IInv, Types
<1>2. Status[x] = "active" /\ Start[x] = txns[x].read_ts - 1 /\ Writes[x] = txns[x].write_set
  BY <1>1 DEF Mapped, NoCallOn
<1>3. Status'[x] = "committed" /\ Start'[x] = Start[x] /\ Writes'[x] = Writes[x]
  <2>1. /\ Status'[x] = "committed" /\ Start'[x] = txns[x].read_ts - 1
        /\ Writes'[x] = txns[x].write_set
    BY <1>1 DEF Mapped
  <2> QED BY <1>2, <2>1
<1>4. \A y \in 1..MaxTxn : y # x =>
         Status'[y] = Status[y] /\ Start'[y] = Start[y] /\ Writes'[y] = Writes[y]
  BY <1>1, SameMapped
<1>5. Status' = [Status EXCEPT ![x] = "committed"]
  BY <1>1, <1>3, <1>4, OneChange DEF Mapped
<1>6. Start' = Start /\ Writes' = Writes
  <2>1. \A y \in 1..MaxTxn : Start'[y] = Start[y] /\ Writes'[y] = Writes[y]
    BY <1>3, <1>4
  <2>2. Start' = Start
    BY <2>1, NoChange DEF Mapped
  <2>3. Writes' = Writes
    BY <2>1, NoChange DEF Mapped
  <2> QED BY <2>2, <2>3
<1>7. Len(CommitOrder) = oracle - 1 /\ CommitOrder \in Seq(1..MaxTxn)
  BY <1>1, CommitOrderLen
<1>8. CommitOrder' = Append(CommitOrder, x)
  <2>1. ASSUME NEW i \in 1..(oracle - 1) PROVE CommitOrder'[i] = CommitOrder[i]
    <3>1. PICK y \in 1..MaxTxn : y = CommitOrder[i] /\ Stamp(y, i + 1)
      BY DEF OrderListed
    <3>2. i \in 1..(oracle' - 1)
      BY <1>1
    <3>3. PICK z \in 1..MaxTxn : z = CommitOrder'[i] /\ Stamp(z, i + 1)'
      BY <3>2 DEF OrderListed
    <3>4. Stamp(y, i + 1)'
      BY <3>1
    <3>5. y = z
      BY <3>3, <3>4 DEF Order
    <3> QED BY <3>1, <3>3, <3>5
  <2>2. CommitOrder'[oracle] = x
    <3>1. PICK d \in 1..(oracle' - 1) : d = oracle
      BY <1>1
    <3>2. PICK z \in 1..MaxTxn : z = CommitOrder'[d] /\ Stamp(z, d + 1)'
      BY <3>1 DEF OrderListed
    <3>3. Stamp(x, d + 1)'
      BY <3>1
    <3>4. z = x
      BY <1>1, <3>2, <3>3 DEF Order
    <3> QED BY <3>1, <3>2, <3>4
  <2> DEFINE n == oracle - 1
             T == 1..MaxTxn
             a == Append(CommitOrder, x)
  <2>3. n \in Nat /\ oracle = n + 1
    BY <1>1
  <2>4. CommitOrder' = [i \in 1..(n + 1) |-> CommitOrder'[i]]
    BY <1>1, <2>3 DEF OrderListed
  <2>5. /\ \A i \in 1..n : CommitOrder'[i] = CommitOrder[i]
        /\ CommitOrder'[n + 1] = x
    BY <2>1, <2>2, <2>3
  <2>6. CommitOrder \in Seq(T) /\ Len(CommitOrder) = n /\ x \in T
    BY <1>1, <1>7
  <2> HIDE DEF n, T
  <2>7. /\ a \in Seq(T) /\ Len(a) = n + 1
        /\ \A i \in 1..n : a[i] = CommitOrder[i]
        /\ a[n + 1] = x
    BY <2>3, <2>6, AppendProperties
  <2> HIDE DEF a
  <2>8. a = [i \in 1..(n + 1) |-> a[i]]
    BY <2>7
  <2>9. \A i \in 1..(n + 1) : CommitOrder'[i] = a[i]
    BY <2>3, <2>5, <2>7
  <2>10. CommitOrder' = a
    BY <2>4, <2>8, <2>9
  <2> QED BY <2>10 DEF a
<1>9. ASSUME NEW u \in SI!CommittedSince(x) PROVE Writes[u] \cap Writes[x] = {}
  <2>1. PICK i \in (Start[x] + 1)..(oracle - 1) : u = CommitOrder[i]
    BY <1>7 DEF SI!CommittedSince
  <2>2. txns[x].read_ts \in Nat /\ txns[x].read_ts >= 1
    BY <1>1 DEF Snapshots, IInv, Types, Transaction
  <2>3. i \in 1..(oracle - 1) /\ i + 1 > txns[x].read_ts
    BY <1>1, <1>2, <2>1, <2>2
  <2>4. u \in 1..MaxTxn /\ Stamp(u, i + 1)
    BY <2>1, <2>3 DEF OrderListed
  <2>5. lw_lock = p /\ \A q \in Thread : pc[q] \notin {"mark", "publish_ts", "publish"}
    BY DEF IInv, Scheduled, LockLabels
  <2>6. u \in DOMAIN txns /\ txns[u].state = "Committed" /\ txns[u].commit_ts = i + 1
    BY <2>4, <2>5 DEF Stamp, MarksAt
  <2>7. PICK h \in history : h.txn = u /\ h.commit_ts = i + 1 /\ h.write_set = txns[u].write_set
    BY <2>6 DEF Matched
  <2>8. Writes[u] = h.write_set
    BY <2>4, <2>6, <2>7 DEF Mapped
  <2>9. loc[p].write_set = txns[x].write_set /\ loc[p].read_ts = txns[x].read_ts
    BY <1>1 DEF IInv, Identified, PendingLabels
  <2>10. ASSUME NEW k \in h.write_set, k \in txns[x].write_set PROVE FALSE
    <3>1. ~Publishing(h)
      BY <2>5 DEF Publishing
    <3>2. ~Unneeded(h.commit_ts)
      BY <1>1, <2>2, <2>3, <2>7 DEF Unneeded
    <3>3. latest_writes[k] >= i + 1
      <4>1. Remembered
        BY Zenon DEF IInv, NoCollection
      <4> QED BY <2>7, <3>1, <3>2, <4>1 DEF Remembered
    <3>4. ~(latest_writes[k] > txns[x].read_ts)
      BY <2>9, <2>10 DEF IInv, Validated, Conflict
    <3>5. k \in Key
      BY DEF IInv, Types, Entry
    <3>6. latest_writes[k] \in Nat
      BY <3>5 DEF IInv, Types
    <3> QED BY <2>2, <2>3, <3>3, <3>4, <3>6
  <2> QED BY <1>2, <2>8, <2>10
<1> QED BY <1>1, <1>2, <1>5, <1>6, <1>8, <1>9 DEF SI!Commit

\* The initial state maps to the initial state of SnapshotIsolation.
LEMMA InitMaps == ASSUME Init PROVE SI!Init
<1>1. oracle = 1 /\ DOMAIN txns = {} /\ \A p \in Thread : pc[p] = "idle"
  BY DEF Init
<1>2. \A x : Snapshotting(x) = {}
  BY <1>1 DEF Snapshotting
<1>3. \A x : ~Begun(x) /\ StatusOf(x) = "none" /\ StartOf(x) = 0
  BY <1>1, <1>2 DEF Begun, StatusOf, StartOf
<1>4. CommitOrder = << >>
  BY <1>1 DEF CommitOrder
<1> QED BY <1>3, <1>4 DEF SI!Init, Status, Start, Writes

\* In the modes that are not mapped there are no transactions.
LEMMA UnmappedStutters ==
    ASSUME Unmapped, Unmapped' PROVE UNCHANGED SI!vars
<1>1. \A x : StatusOf(x) = "none" /\ StartOf(x) = 0
  BY DEF StatusOf, StartOf
<1>2. \A x : StatusOf(x)' = "none" /\ StartOf(x)' = 0
  BY DEF StatusOf, StartOf
<1>3. /\ Status = [x \in 1..MaxTxn |-> "none"] /\ Status' = [x \in 1..MaxTxn |-> "none"]
      /\ Start = [x \in 1..MaxTxn |-> 0] /\ Start' = [x \in 1..MaxTxn |-> 0]
      /\ Writes = [x \in 1..MaxTxn |-> {}] /\ Writes' = [x \in 1..MaxTxn |-> {}]
  BY <1>1, <1>2 DEF Status, Start, Writes
<1>4. CommitOrder = << >> /\ CommitOrder' = << >>
  BY DEF CommitOrder
<1> QED BY <1>3, <1>4 DEF SI!vars

\* Every step of the manager is a step of SnapshotIsolation, or a stutter.
LEMMA StepMaps ==
    ASSUME IInv, IInv', SIInv, SIInv', Next PROVE SI!Next \/ UNCHANGED SI!vars
<1>1. PICK p \in Thread : Step(p) \/ Call(p)
  BY DEF Next
<1>2. Types /\ Types' /\ Scheduled /\ Identified /\ Recorded /\ Timed
  BY DEF IInv
<1>3. Moves(p) /\ mode' = mode
  BY <1>1, <1>2, Stepping, TablesTyped
<1>4. TableMoves(p) /\ CallMoves(p) /\ IdsMove(p)
  BY <1>1, <1>2, TableStep, CallStep, IdsStep
<1>5. Unmapped' <=> Unmapped
  BY <1>3 DEF Unmapped
<1>6. CASE Unmapped
  BY <1>5, <1>6, UnmappedStutters
<1>7. CASE ~Unmapped
  <2>1. NoCollection /\ OwnPending /\ Matched /\ Order /\ Snapshots
    BY <1>7 DEF SIInv
  <2>2. Order'
    BY <1>5, <1>7 DEF SIInv
  <2>3. View /\ View'
    BY Views, PTL
  <2>4. Mapped /\ OrderListed /\ Mapped' /\ OrderListed'
    BY <1>5, <1>7, <2>3 DEF View
  <2>5. Effect(p)
    BY <1>1, <1>2, <1>3, <1>4, <1>7, <2>1, EffectOfStep
  <2>6. CASE StampsKept
    <3>1. ASSUME NEW x, Begins(p, x) PROVE SI!Next
      BY <1>2, <2>2, <2>4, <2>6, <3>1, BeginMaps DEF SI!Next
    <3>2. ASSUME NEW x, Aborts(p, x) \/ \E k \in Key : Records(p, x, k) PROVE SI!Next
      BY <1>2, <2>2, <2>4, <2>6, <3>2, RestsMaps DEF SI!Next
    <3>3. \A x : ~Allocates(p, x)
      BY <1>2, <2>6 DEF Allocates, StampsKept, Types
    <3> QED BY <1>2, <2>1, <2>2, <2>4, <2>5, <2>6, <3>1, <3>2, <3>3, StutterMaps DEF Effect
  <2>7. ASSUME NEW x, Allocates(p, x),
               \A y, c : Stamp(y, c)' <=> Stamp(y, c) \/ (y = x /\ c = oracle + 1)
        PROVE  SI!Next
    <3>1. pc'[p] = "mark" /\ loc'[p].txn = x
      BY <2>7 DEF Allocates, MarksAt
    <3>2. CommitAllocate(p)
      BY <1>4, <3>1 DEF CallMoves
    <3>3. pc[p] = "allocate" /\ loc[p].txn = x
      BY <1>4, <3>1, <3>2 DEF CallMoves, CommitAllocate, CommitLabels
    <3> QED BY <2>1, <2>2, <2>4, <2>7, <3>3, CommitMaps DEF SI!Next
  <2> QED BY <2>5, <2>6, <2>7, StampStep
<1> QED BY <1>6, <1>7

\* With the collector out of reach and every thread on its own transactions,
\* the manager implements SnapshotIsolation, although begin and commit take
\* several steps: begin is one at its load of the oracle, commit one at the
\* allocation of its timestamp.
THEOREM ConcurrentRefinement == ASSUME Disciplined PROVE Spec => ImplementsSI
<1>1. Init => SI!Init
  BY InitMaps
<1>2. (IInv /\ SIInv) /\ (IInv /\ SIInv)' /\ [Next]_vars => [SI!Next]_(SI!vars)
  <2> SUFFICES ASSUME IInv, SIInv, IInv', SIInv', [Next]_vars
               PROVE  SI!Next \/ UNCHANGED SI!vars
    OBVIOUS
  <2>1. CASE Next
    BY <2>1, StepMaps
  <2>2. CASE UNCHANGED vars
    <3>1. UNCHANGED <<oracle, txns, pc, loc, mode>>
      BY <2>2 DEF vars, shared, control
    <3>2. Nothing
      BY <3>1 DEF Nothing, Same, InsertsAt, MarksAt
    <3>3. StampsKept
      BY <3>2, SameStamp DEF Nothing, StampsKept
    <3>4. Unmapped' <=> Unmapped
      BY <3>1 DEF Unmapped
    <3>5. CASE Unmapped
      BY <3>4, <3>5, UnmappedStutters
    <3>6. CASE ~Unmapped
      <4>1. View /\ View'
        BY Views, PTL
      <4>2. Mapped /\ OrderListed /\ Mapped' /\ OrderListed'
        BY <3>4, <3>6, <4>1 DEF View
      <4>3. Snapshots /\ Order'
        BY <3>4, <3>6 DEF SIInv
      <4> QED BY <3>2, <3>3, <4>2, <4>3, StutterMaps DEF IInv
    <3> QED BY <3>5, <3>6
  <2> QED BY <2>1, <2>2
<1> QED BY <1>1, <1>2, MappedInvariance, PTL DEF Spec, ImplementsSI, SI!Spec
=============================================================================
