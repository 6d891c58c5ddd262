----------------------------- MODULE ConcurrentTM -----------------------------
(***************************************************************************)
(* ConcurrentTransactionManager of cendb-tx/src/concurrent_tm.rs: the same *)
(* optimistic protocol as TransactionManager behind interior mutability.   *)
(* Threads run begin, commit and run_gc in steps, one per lock section;    *)
(* record_write and abort hold the lock of txns for their whole body and   *)
(* are one step each.                                                      *)
(*                                                                         *)
(* Only the lock of latest_writes is held from one step to a later one (by *)
(* commit, from validation to publication).  The locks of txns,            *)
(* committed_ts, gc and gc_callback are taken and released inside a step;  *)
(* they nest below latest_writes and never the other way round.  An atomic *)
(* that nobody else can observe between two steps is folded into the next. *)
(*                                                                         *)
(* history, reclaimed and overtaken are not in the code: they record what  *)
(* committed, what the GC callback was told to remove, and that run_gc met *)
(* one of the two races its lock sections leave open.                      *)
(***************************************************************************)
EXTENDS Integers, FiniteSets, FiniteSetsExt

CONSTANTS Thread,      \* threads that share the manager
          Key,         \* keys transactions write
          MaxTxn,      \* bound: transactions begun in one behaviour
          Mode,        \* how the manager is set up and used, see ModeType
          None         \* no thread

\* gc_interval is the argument of with_gc_interval.  The rest says what the
\* clients do: overlap: calls of different threads overlap; run_gc: clients
\* call run_gc themselves; callback: a GC callback is registered; shared: what
\* a thread may do with a transaction that another thread began.
ModeType == [gc_interval : Nat \ {0}, overlap : BOOLEAN, run_gc : BOOLEAN,
             callback : BOOLEAN, shared : {"nothing", "abort", "all"}]

ASSUME ConcurrentTMAssumption ==
    /\ MaxTxn \in Nat
    /\ Mode \subseteq ModeType
    /\ None \notin Thread

VARIABLES mode,             \* the mode of this behaviour, fixed
          oracle,           \* last timestamp handed out
          next_txn_id,      \* id of the next transaction
          txns,             \* id -> Transaction, for the ids in the table
          committed_ts,     \* timestamps is_committed answers for
          latest_writes,    \* key -> commit_ts of its latest writer, or NoTs
          commits_since_gc, \* commits since the collector ran
          lw_lock,          \* thread holding the write lock of latest_writes
          pc,               \* the next step of each thread
          loc,              \* the local variables of each thread
          owner,            \* thread that began each transaction
          history,          \* the transactions that committed
          reclaimed,        \* versions handed to the GC callback
          overtaken         \* the collector met a race it does not see

shared == <<oracle, next_txn_id, txns, committed_ts, latest_writes>>
control == <<mode, commits_since_gc, lw_lock>>
ghosts == <<owner, history, reclaimed, overtaken>>
vars == <<shared, control, pc, loc, ghosts>>

NoTs == 0

Labels == {"idle", "insert", "validate", "abort", "allocate", "mark",
           "publish_ts", "publish", "notify", "count",
           "gc_min", "gc_scan", "gc_remove", "gc_ts", "gc_txns", "gc_reset"}

Transaction == [read_ts : Nat, commit_ts : Nat,
                state : {"Active", "Committed", "Aborted"},
                write_set : SUBSET Key]

\* What a call keeps between two of its steps.
NoLocals == [txn |-> 0, read_ts |-> NoTs, write_set |-> {}, commit_ts |-> NoTs,
             superseded |-> {}, min_active |-> NoTs, keys |-> {},
             caller |-> "client"]

Locals == [txn : 0..MaxTxn, read_ts : Nat, write_set : SUBSET Key,
           commit_ts : Nat, superseded : SUBSET (Key \X Nat),
           min_active : Nat, keys : SUBSET Key, caller : {"client", "commit"}]

TypeOK == /\ mode \in Mode
          /\ oracle \in Nat \ {0}
          /\ next_txn_id \in 1..(MaxTxn + 1)
          /\ DOMAIN txns \subseteq 1..(next_txn_id - 1)
          /\ \A x \in DOMAIN txns : txns[x] \in Transaction
          /\ committed_ts \subseteq Nat
          /\ latest_writes \in [Key -> Nat]
          /\ commits_since_gc \in 0..MaxTxn
          /\ lw_lock \in Thread \cup {None}
          /\ pc \in [Thread -> Labels]
          /\ loc \in [Thread -> Locals]
          /\ overtaken \in BOOLEAN

Active(x) == x \in DOMAIN txns /\ txns[x].state = "Active"

\* A thread makes a call when it is in none, and alone unless calls overlap.
CanCall(p) == pc[p] = "idle" /\ (mode.overlap \/ \A q \in Thread : pc[q] = "idle")

\* A transaction is used by the thread that began it, unless it is shared.  A
\* begin that has not inserted yet has not returned its id.
MayUse(p, x) == x \in DOMAIN txns /\ (mode.shared = "all" \/ owner[x] = p)
MayAbort(p, x) == MayUse(p, x) \/ (mode.shared = "abort" /\ x \in DOMAIN txns)

-----------------------------------------------------------------------------
Init == /\ mode \in Mode
        /\ oracle = 1
        /\ next_txn_id = 1
        /\ txns = [x \in {} |-> {}]
        /\ committed_ts = {}
        /\ latest_writes = [k \in Key |-> NoTs]
        /\ commits_since_gc = 0
        /\ lw_lock = None
        /\ pc = [p \in Thread |-> "idle"]
        /\ loc = [p \in Thread |-> NoLocals]
        /\ owner = [x \in 1..MaxTxn |-> None]
        /\ history = {}
        /\ reclaimed = {}
        /\ overtaken = FALSE

Goto(p, l) == pc' = [pc EXCEPT ![p] = l]

\* The call returns: its locals are gone.
Return(p) == /\ Goto(p, "idle")
             /\ loc' = [loc EXCEPT ![p] = NoLocals]

\* begin: fetch_add of the id and the load of the oracle.  No lock is held, so
\* the snapshot is taken before the transaction is in the table.
BeginSnapshot(p) ==
    /\ CanCall(p)
    /\ next_txn_id <= MaxTxn
    /\ next_txn_id' = next_txn_id + 1
    /\ loc' = [loc EXCEPT ![p] = [@ EXCEPT !.txn = next_txn_id, !.read_ts = oracle]]
    /\ owner' = [owner EXCEPT ![next_txn_id] = p]
    /\ Goto(p, "insert")
    /\ UNCHANGED <<oracle, txns, committed_ts, latest_writes, control,
                   history, reclaimed, overtaken>>

BeginInsert(p) ==
    /\ pc[p] = "insert"
    /\ txns' = [x \in DOMAIN txns \cup {loc[p].txn} |->
                  IF x = loc[p].txn
                  THEN [read_ts |-> loc[p].read_ts, commit_ts |-> NoTs,
                        state |-> "Active", write_set |-> {}]
                  ELSE txns[x]]
    /\ Return(p)
    /\ UNCHANGED <<oracle, next_txn_id, committed_ts, latest_writes, control,
                   ghosts>>

RecordWrite(p, x, k) ==
    /\ CanCall(p)
    /\ MayUse(p, x)
    /\ Active(x)
    /\ txns' = [txns EXCEPT ![x].write_set = @ \cup {k}]
    /\ UNCHANGED <<oracle, next_txn_id, committed_ts, latest_writes, control,
                   pc, loc, ghosts>>

\* Fault: abort does not look at the state.
Abort_NoCheck(p, x) ==
    /\ CanCall(p)
    /\ MayAbort(p, x)
    /\ txns' = [txns EXCEPT ![x].state = "Aborted"]
    /\ UNCHANGED <<oracle, next_txn_id, committed_ts, latest_writes, control,
                   pc, loc, ghosts>>

Abort(p, x) ==
    /\ CanCall(p)
    /\ MayAbort(p, x)
    /\ Active(x)
    /\ txns' = [txns EXCEPT ![x].state = "Aborted"]
    /\ UNCHANGED <<oracle, next_txn_id, committed_ts, latest_writes, control,
                   pc, loc, ghosts>>

-----------------------------------------------------------------------------
(* commit *)

\* Phase 1: copy read_ts and the write set under the read lock of txns.  A
\* transaction that is not active ends the call with an error.
CommitRead(p, x) ==
    /\ CanCall(p)
    /\ MayUse(p, x)
    /\ Active(x)
    /\ loc' = [loc EXCEPT ![p] = [@ EXCEPT !.txn = x,
                                           !.read_ts = txns[x].read_ts,
                                           !.write_set = txns[x].write_set]]
    /\ Goto(p, "validate")
    /\ UNCHANGED <<shared, control, ghosts>>

Conflict(p) == \E k \in loc[p].write_set : latest_writes[k] > loc[p].read_ts

\* Fault: validation under a read lock that is dropped before publication (the
\* time-of-check race the comment on commit describes).
CommitValidate_ReadLock(p) ==
    /\ pc[p] = "validate"
    /\ lw_lock = None
    /\ Goto(p, IF Conflict(p) THEN "abort" ELSE "allocate")
    /\ UNCHANGED <<shared, mode, commits_since_gc, loc, ghosts, lw_lock>>

\* Phase 2: take the write lock of latest_writes and validate.  A conflict
\* drops the lock before the transaction table is touched.
CommitValidate(p) ==
    /\ pc[p] = "validate"
    /\ lw_lock = None
    /\ IF Conflict(p) THEN /\ Goto(p, "abort")
                           /\ UNCHANGED lw_lock
                      ELSE /\ Goto(p, "allocate")
                           /\ lw_lock' = p
    /\ UNCHANGED <<shared, mode, commits_since_gc, loc, ghosts>>

\* The conflict path sets the state whatever it is by then.
CommitAbort(p) ==
    /\ pc[p] = "abort"
    /\ txns' = IF loc[p].txn \in DOMAIN txns
               THEN [txns EXCEPT ![loc[p].txn].state = "Aborted"]
               ELSE txns
    /\ Return(p)
    /\ UNCHANGED <<oracle, next_txn_id, committed_ts, latest_writes, control,
                   ghosts>>

\* Fault: current() in place of next().
CommitAllocate_Reuse(p) ==
    /\ pc[p] = "allocate"
    /\ loc' = [loc EXCEPT ![p].commit_ts = oracle]
    /\ Goto(p, "mark")
    /\ UNCHANGED <<shared, control, ghosts>>

CommitAllocate(p) ==
    /\ pc[p] = "allocate"
    /\ oracle' = oracle + 1
    /\ loc' = [loc EXCEPT ![p].commit_ts = oracle + 1]
    /\ Goto(p, "mark")
    /\ UNCHANGED <<next_txn_id, txns, committed_ts, latest_writes, control,
                   ghosts>>

\* The transaction is gone from the table, or was aborted meanwhile: the lock
\* is dropped, the timestamp stays allocated.
CommitLost(p) ==
    /\ pc[p] = "mark"
    /\ loc[p].txn \in DOMAIN txns => txns[loc[p].txn].state = "Aborted"
    /\ lw_lock' = None
    /\ Return(p)
    /\ UNCHANGED <<shared, mode, commits_since_gc, ghosts>>

CommitMark(p) ==
    LET x == loc[p].txn IN
    /\ pc[p] = "mark"
    /\ x \in DOMAIN txns
    /\ txns[x].state # "Aborted"
    /\ txns' = [txns EXCEPT ![x] = [@ EXCEPT !.state = "Committed",
                                             !.commit_ts = loc[p].commit_ts]]
    /\ history' = history \cup {[txn |-> x, read_ts |-> loc[p].read_ts,
                                 commit_ts |-> loc[p].commit_ts,
                                 write_set |-> txns[x].write_set]}
    /\ Goto(p, "publish_ts")
    /\ UNCHANGED <<oracle, next_txn_id, committed_ts, latest_writes, control,
                   loc, owner, reclaimed, overtaken>>

CommitPublishTs(p) ==
    /\ pc[p] = "publish_ts"
    /\ committed_ts' = committed_ts \cup {loc[p].commit_ts}
    /\ Goto(p, "publish")
    /\ UNCHANGED <<oracle, next_txn_id, txns, latest_writes, control, loc,
                   ghosts>>

\* Fault: the guard of latest_writes is not dropped here, so it is still held
\* when run_gc of the same thread asks for the lock.
CommitPublish_KeepsLock(p) ==
    /\ pc[p] = "publish"
    /\ latest_writes' = [k \in Key |-> IF k \in loc[p].write_set
                                       THEN loc[p].commit_ts
                                       ELSE latest_writes[k]]
    /\ Goto(p, "count")
    /\ UNCHANGED <<oracle, next_txn_id, txns, committed_ts, control, loc,
                   ghosts>>

\* latest_writes is updated, the superseded entries are remembered and the
\* lock is dropped.
CommitPublish(p) ==
    LET old == {<<k, latest_writes[k]>> :
                   k \in {w \in loc[p].write_set :
                            latest_writes[w] \in 1..(loc[p].commit_ts - 1)}}
    IN /\ pc[p] = "publish"
       /\ latest_writes' = [k \in Key |-> IF k \in loc[p].write_set
                                          THEN loc[p].commit_ts
                                          ELSE latest_writes[k]]
       /\ loc' = [loc EXCEPT ![p].superseded = old]
       /\ lw_lock' = None
       /\ Goto(p, IF mode.callback /\ old # {} THEN "notify" ELSE "count")
       /\ UNCHANGED <<oracle, next_txn_id, txns, committed_ts,
                      commits_since_gc, mode, ghosts>>

\* The least read_ts in the table, or the oracle when nobody is active.
MinActive == LET reads == {txns[x].read_ts : x \in {y \in DOMAIN txns : Active(y)}}
             IN IF reads = {} THEN oracle ELSE Min(reads)

\* The callback is called with the begin timestamp of the old version.
CommitNotify(p) ==
    /\ pc[p] = "notify"
    /\ reclaimed' = reclaimed \cup {v \in loc[p].superseded : v[2] < MinActive}
    /\ Goto(p, "count")
    /\ UNCHANGED <<shared, control, loc, owner, history, overtaken>>

\* Phase 4: count the commit; every gc_interval-th one runs the collector.
CommitCount(p) ==
    /\ pc[p] = "count"
    /\ commits_since_gc' = commits_since_gc + 1
    /\ IF commits_since_gc + 1 >= mode.gc_interval
       THEN /\ Goto(p, "gc_min")
            /\ loc' = [loc EXCEPT ![p] = [NoLocals EXCEPT !.caller = "commit"]]
       ELSE Return(p)
    /\ UNCHANGED <<shared, mode, lw_lock, ghosts>>

-----------------------------------------------------------------------------
(* run_gc.  gc.min_active_ts and the counter of collected versions are     *)
(* statistics that nothing in the manager reads back.                      *)

RunGc(p) ==
    /\ mode.run_gc
    /\ CanCall(p)
    /\ Goto(p, "gc_min")
    /\ UNCHANGED <<shared, control, loc, ghosts>>

\* The first race: a begin has loaded an older snapshot than the bound and is
\* not in the table yet.
Overlooks(bound) == \E q \in Thread : pc[q] = "insert" /\ loc[q].read_ts < bound

\* Fault: the bound is the oracle, as in MvccGarbageCollector::update_min_active_ts.
GcMin_Current(p) ==
    /\ pc[p] = "gc_min"
    /\ loc' = [loc EXCEPT ![p].min_active = oracle]
    /\ overtaken' = (overtaken \/ Overlooks(oracle))
    /\ Goto(p, "gc_scan")
    /\ UNCHANGED <<shared, control, owner, history, reclaimed>>

GcMin(p) ==
    /\ pc[p] = "gc_min"
    /\ loc' = [loc EXCEPT ![p].min_active = MinActive]
    /\ overtaken' = (overtaken \/ Overlooks(MinActive))
    /\ Goto(p, "gc_scan")
    /\ UNCHANGED <<shared, control, owner, history, reclaimed>>

\* The keys to remove are collected under the read lock of latest_writes ...
GcScan(p) ==
    LET old == {k \in Key : latest_writes[k] \in 1..(loc[p].min_active - 1)}
    IN /\ pc[p] = "gc_scan"
       /\ lw_lock = None
       /\ loc' = [loc EXCEPT ![p].keys = old]
       /\ Goto(p, IF old = {} THEN "gc_ts" ELSE "gc_remove")
       /\ UNCHANGED <<shared, control, ghosts>>

\* Fault: the callback is called and the entries stay.
GcRemove_Keeps(p) ==
    /\ pc[p] = "gc_remove"
    /\ lw_lock = None
    /\ reclaimed' = IF mode.callback
                    THEN reclaimed \cup {<<k, latest_writes[k]>> : k \in loc[p].keys}
                    ELSE reclaimed
    /\ Goto(p, "gc_ts")
    /\ UNCHANGED <<shared, control, loc, owner, history, overtaken>>

\* ... and removed under the write lock, whatever their entry is by then.  The
\* second race: a commit published in between, and its entry goes.
GcRemove(p) ==
    LET gone == {k \in loc[p].keys : latest_writes[k] # NoTs}
    IN /\ pc[p] = "gc_remove"
       /\ lw_lock = None
       /\ latest_writes' = [k \in Key |-> IF k \in gone THEN NoTs
                                                       ELSE latest_writes[k]]
       /\ reclaimed' = IF mode.callback
                       THEN reclaimed \cup {<<k, latest_writes[k]>> : k \in gone}
                       ELSE reclaimed
       /\ overtaken' = (overtaken \/ \E k \in gone : latest_writes[k] >= loc[p].min_active)
       /\ Goto(p, "gc_ts")
       /\ UNCHANGED <<oracle, next_txn_id, txns, committed_ts, control, loc,
                      owner, history>>

GcCommittedTs(p) ==
    /\ pc[p] = "gc_ts"
    /\ committed_ts' = {c \in committed_ts : c >= loc[p].min_active}
    /\ Goto(p, "gc_txns")
    /\ UNCHANGED <<oracle, next_txn_id, txns, latest_writes, control, loc,
                   ghosts>>

\* Finished transactions with an old snapshot leave the table.
GcTxns(p) ==
    LET kept == {x \in DOMAIN txns : Active(x) \/ txns[x].read_ts >= loc[p].min_active}
    IN /\ pc[p] = "gc_txns"
       /\ txns' = [x \in kept |-> txns[x]]
       /\ IF loc[p].caller = "commit" THEN Goto(p, "gc_reset") /\ UNCHANGED loc
                              ELSE Return(p)
       /\ UNCHANGED <<oracle, next_txn_id, committed_ts, latest_writes, control,
                      ghosts>>

\* The commit that ran the collector stores 0, dropping the commits counted
\* by other threads meanwhile.
GcReset(p) ==
    /\ pc[p] = "gc_reset"
    /\ commits_since_gc' = 0
    /\ Return(p)
    /\ UNCHANGED <<shared, mode, lw_lock, ghosts>>

-----------------------------------------------------------------------------
\* The steps of a call that has been made.
Step(p) == \/ BeginInsert(p)
           \/ CommitValidate(p)
           \/ CommitAbort(p)
           \/ CommitAllocate(p)
           \/ CommitLost(p)
           \/ CommitMark(p)
           \/ CommitPublishTs(p)
           \/ CommitPublish(p)
           \/ CommitNotify(p)
           \/ CommitCount(p)
           \/ GcMin(p)
           \/ GcScan(p)
           \/ GcRemove(p)
           \/ GcCommittedTs(p)
           \/ GcTxns(p)
           \/ GcReset(p)

\* The calls a thread may make.
Call(p) == \/ BeginSnapshot(p)
           \/ RunGc(p)
           \/ \E x \in DOMAIN txns : \/ \E k \in Key : RecordWrite(p, x, k)
                                     \/ Abort(p, x)
                                     \/ CommitRead(p, x)

Next == \E p \in Thread : Step(p) \/ Call(p)

\* A thread inside a call is scheduled; nothing forces a client to call.
Spec == /\ Init
        /\ [][Next]_vars
        /\ \A p \in Thread : WF_vars(Step(p))
-----------------------------------------------------------------------------
(* Properties. *)

\* Two committed transactions that wrote a common key did not overlap: commit
\* validates and publishes under one write lock of latest_writes.  The
\* collector can break it: see overtaken.
NoLostUpdate ==
    \A g, h \in history :
        g.txn # h.txn /\ g.write_set \cap h.write_set # {}
        => g.commit_ts <= h.read_ts \/ h.commit_ts <= g.read_ts

\* The two races of run_gc are its only ones: whatever else overlaps a
\* collection, both writers of a key commit only if they did not overlap.
FirstCommitterWins == ~overtaken => NoLostUpdate

\* A transaction that committed keeps its state and its timestamp for as long
\* as it is in the table: no call on it succeeds afterwards.
CommittedIsFinal ==
    [][\A x \in DOMAIN txns \cap DOMAIN txns' :
          txns[x].state = "Committed" => txns'[x] = txns[x]]_vars

\* Every call returns: no lock is lost and no two threads wait for each other.
CallsReturn == \A p \in Thread : pc[p] # "idle" ~> pc[p] = "idle"

\* The collector has not dropped the entry that a transaction in the table
\* would conflict with at its commit.
ConflictsKept ==
    \A x \in DOMAIN txns : Active(x) =>
        \A h \in history : h.commit_ts > txns[x].read_ts =>
            \A k \in h.write_set :
                latest_writes[k] >= h.commit_ts \/ lw_lock # None

\* A version handed to the GC callback is out of latest_writes and in no other
\* call's list of superseded versions: it is never handed out twice.
ReclaimedOnce ==
    \A v \in reclaimed :
        /\ latest_writes[v[1]] # v[2]
        /\ \A p \in Thread : pc[p] = "notify" => v \notin loc[p].superseded
-----------------------------------------------------------------------------
(* As long as the collector is not due and threads keep to their own       *)
(* transactions the manager implements SnapshotIsolation.  A transaction   *)
(* begins when it loads the oracle and commits when it allocates its       *)
(* timestamp, which is before either shows in the table.  Behaviours in    *)
(* other modes are mapped to no transactions at all.                       *)

Unmapped == mode.run_gc \/ mode.gc_interval <= MaxTxn \/ mode.shared # "nothing"

Snapshotting(x) == {p \in Thread : pc[p] = "insert" /\ loc[p].txn = x}
Marking(x) == {p \in Thread : pc[p] = "mark" /\ loc[p].txn = x}
Begun(x) == x \in DOMAIN txns \/ Snapshotting(x) # {}
CommitTs(x) == IF Marking(x) # {} THEN loc[CHOOSE p \in Marking(x) : TRUE].commit_ts
                                  ELSE txns[x].commit_ts

StatusOf(x) == IF Unmapped \/ ~Begun(x) THEN "none"
               ELSE IF x \notin DOMAIN txns THEN "active"
               ELSE IF Marking(x) # {} \/ txns[x].state = "Committed" THEN "committed"
               ELSE IF txns[x].state = "Aborted" THEN "aborted" ELSE "active"

StartOf(x) == IF Unmapped \/ ~Begun(x) THEN 0
              ELSE IF x \in DOMAIN txns THEN txns[x].read_ts - 1
              ELSE loc[CHOOSE p \in Snapshotting(x) : TRUE].read_ts - 1

Status == [x \in 1..MaxTxn |-> StatusOf(x)]
Start == [x \in 1..MaxTxn |-> StartOf(x)]
Writes == [x \in 1..MaxTxn |-> IF StatusOf(x) = "none" \/ x \notin DOMAIN txns THEN {}
                               ELSE txns[x].write_set]
CommitOrder == [i \in 1..(IF Unmapped THEN 0 ELSE oracle - 1) |->
                  CHOOSE x \in DOMAIN txns : StatusOf(x) = "committed" /\ CommitTs(x) = i + 1]

SI == INSTANCE SnapshotIsolation WITH
        Txn <- 1..MaxTxn,
        status <- Status,
        start <- Start,
        writes <- Writes,
        history <- CommitOrder

\* Every behaviour of the manager is one of SnapshotIsolation.
ImplementsSI == SI!Spec
-----------------------------------------------------------------------------
(* The modes the runs use. *)

\* Overlapping calls, the default interval of 100, which is out of reach.
NotCollecting == [gc_interval |-> 100, overlap |-> TRUE, run_gc |-> FALSE,
                  callback |-> TRUE, shared |-> "nothing"]
\* Calls one at a time, collecting at every second commit and on demand.
SerialCollecting == [gc_interval |-> 2, overlap |-> FALSE, run_gc |-> TRUE,
                     callback |-> TRUE, shared |-> "nothing"]
\* Overlapping calls, collecting at every commit.
OverlapCollecting == [gc_interval |-> 1, overlap |-> TRUE, run_gc |-> FALSE,
                      callback |-> TRUE, shared |-> "nothing"]

\* Overlapping calls, and a thread may abort what another one is committing.
ForeignAborts == [gc_interval |-> 100, overlap |-> TRUE, run_gc |-> FALSE,
                  callback |-> FALSE, shared |-> "abort"]

AllModes == {NotCollecting, SerialCollecting, ForeignAborts, OverlapCollecting}
OverlapCollectingOnly == {OverlapCollecting}

\* Whatever overlaps it, the collector hands no version to the callback twice
\* and the tables keep their types; and unless one of its two races occurred it
\* keeps what a running transaction has to conflict with.
CollectorSafe == /\ TypeOK
                 /\ ~overtaken => ConflictsKept
                 /\ ReclaimedOnce
=============================================================================
