------------------------- MODULE WriteAheadLogProofs -------------------------
(***************************************************************************)
(* Proofs about the write-ahead log, its recovery and the chaos harness:   *)
(* what a crash, a torn record, a failed write, fsync or rename may not    *)
(* take from the log (WriteAheadLog), what analysis, redo and undo make of *)
(* any log, what the faulty file system may spoil and what the crash tests *)
(* accept (Chaos), for any transactions, configurations and bounds.        *)
(*                                                                         *)
(* The lemmas come first on what the readers of the log compute from its   *)
(* records; the invariants then speak of positions in the file only.       *)
(***************************************************************************)
EXTENDS MCReplication, SequenceTheorems, FiniteSetTheorems, WellFoundedInduction, TLAPS

-----------------------------------------------------------------------------
(* Natural numbers. *)

\* A nonempty set of natural numbers has a least element.
LEMMA LeastNat ==
    ASSUME NEW T \in SUBSET Nat, T # {}
    PROVE  \E x \in T : \A y \in T : x <= y
<1> DEFINE R == {ss \in Nat \X Nat : ss[1] < ss[2]}
<1>1. IsWellFoundedOn(R, Nat)
  BY NatLessThanWellFounded DEF OpToRel
<1>2. \A x, y \in Nat : x < y => <<x, y>> \in R
  OBVIOUS
<1> HIDE DEF R
<1>3. PICK x \in T : \A y \in T : ~ (<<y, x>> \in R)
  BY <1>1, WFMin, Zenon
<1>4. \A y \in T : x \in Nat /\ y \in Nat /\ ~ (y < x)
  BY <1>2, <1>3
<1>5. \A y \in T : x <= y
  BY <1>4
<1> QED BY <1>5

\* Min of a nonempty set of natural numbers is the least of them.
LEMMA MinIsLeast ==
    ASSUME NEW T \in SUBSET Nat, T # {}
    PROVE  /\ Min(T) \in T
           /\ \A y \in T : Min(T) <= y
<1>1. \E x \in T : \A y \in T : x <= y
  BY LeastNat
<1> QED BY <1>1 DEF Min

\* Max of a nonempty set of natural numbers that are at most n.
LEMMA MaxIsGreatest ==
    ASSUME NEW T \in SUBSET Nat, T # {}, NEW n \in Nat, \A y \in T : y <= n
    PROVE  /\ Max(T) \in T
           /\ \A y \in T : Max(T) >= y
<1> DEFINE U == {m \in Nat : \E y \in T : m = n - y}
<1>1. U \in SUBSET Nat /\ U # {}
  <2>1. PICK y \in T : TRUE
    OBVIOUS
  <2>2. n - y \in U
    BY <2>1
  <2> QED BY <2>2
<1>2. PICK m \in U : \A k \in U : m <= k
  <2> HIDE DEF U
  <2> QED BY <1>1, LeastNat
<1>3. PICK x \in T : m = n - x
  BY <1>2
<1>4. \A y \in T : n - y \in U
  OBVIOUS
<1>5. \A y \in T : x >= y
  BY <1>2, <1>3, <1>4
<1>6. \E z \in T : \A y \in T : z >= y
  BY <1>5
<1> QED BY <1>6 DEF Max

-----------------------------------------------------------------------------
(* Reading the log. *)

Item == LogRecord \cup {Torn}

\* A reader gets as far as item i.
Readable(f, i) == i \in 1..Len(f) /\ \A j \in 1..i : f[j] # Torn

\* A record that can be parsed is not Torn.
LEMMA RecordIsNotTorn == Torn \notin LogRecord
BY DEF Torn, LogRecord

\* read_all returns the readable items, and nothing but those.
LEMMA ReadAllReadable ==
    ASSUME NEW f \in Seq(Item)
    PROVE  /\ ReadAll(f) \in Seq(LogRecord)
           /\ Len(ReadAll(f)) <= Len(f)
           /\ \A i \in 1..Len(ReadAll(f)) : ReadAll(f)[i] = f[i]
           /\ \A i \in 1..Len(f) : Readable(f, i) <=> i <= Len(ReadAll(f))
<1> DEFINE torn == {i \in 1..Len(f) : f[i] = Torn}
<1>1. /\ Len(f) \in Nat
      /\ \A i \in 1..Len(f) : f[i] \in Item
  BY LenProperties, ElementOfSeq
<1>2. CASE torn = {}
  <2>1. ReadAll(f) = f
    BY <1>2 DEF ReadAll
  <2>2. \A i \in 1..Len(f) : f[i] # Torn
    BY <1>2
  <2>3. \A i \in 1..Len(f) : f[i] \in LogRecord
    BY <2>2, <1>1 DEF Item
  <2>4. f \in [1..Len(f) -> Item]
    BY LenProperties
  <2>5. f \in [1..Len(f) -> LogRecord]
    BY <2>3, <2>4
  <2>6. f \in Seq(LogRecord)
    BY <2>5, <1>1, SeqDef
  <2> QED BY <2>1, <2>2, <2>6, <1>1 DEF Readable
<1>3. CASE torn # {}
  <2>1. torn \in SUBSET Nat
    BY <1>1
  <2>2. /\ Min(torn) \in torn
        /\ \A i \in torn : Min(torn) <= i
    <3> HIDE DEF torn
    <3> QED BY <2>1, <1>3, MinIsLeast
  <2> DEFINE n == Min(torn) - 1
  <2>3. n \in Nat /\ n < Len(f)
    BY <2>2, <1>1
  <2>4. ReadAll(f) = SubSeq(f, 1, n)
    BY <1>3 DEF ReadAll
  <2>5. \A i \in 1..n : i \in 1..Len(f) /\ f[i] # Torn
    BY <2>2, <2>3, <1>1
  <2>6. f[n + 1] = Torn /\ n + 1 \in 1..Len(f)
    BY <2>2, <2>3, <1>1
  <2> HIDE DEF n
  <2>7. \A i \in 1..n : f[i] \in LogRecord
    BY <2>5, <1>1 DEF Item
  <2>8. /\ SubSeq(f, 1, n) \in Seq(LogRecord)
        /\ Len(SubSeq(f, 1, n)) = n
        /\ \A i \in 1..n : SubSeq(f, 1, n)[i] = f[i]
    BY <2>3, <2>7, SubSeqProperties
  <2>9. \A i \in 1..Len(f) : Readable(f, i) <=> i <= n
    BY <2>3, <2>5, <2>6, <1>1 DEF Readable
  <2> QED BY <2>3, <2>4, <2>8, <2>9
<1> QED BY <1>2, <1>3

\* A log whose reading is the whole file has no damage in it.
LEMMA UndamagedReadable ==
    ASSUME NEW f \in Seq(Item), ReadAll(f) = f
    PROVE  \A i \in 1..Len(f) : Readable(f, i)
<1>1. \A i \in 1..Len(f) : Readable(f, i) <=> i <= Len(ReadAll(f))
  BY ReadAllReadable
<1>2. Len(f) \in Nat
  BY LenProperties
<1> QED BY <1>1, <1>2

\* The highest LSN of the records bounds them all.
LEMMA MaxLsnBounds ==
    ASSUME NEW records \in Seq(LogRecord), MaxLsn \in Nat
    PROVE  /\ MaxLsnOf(records) \in 0..MaxLsn
           /\ \A i \in 1..Len(records) : records[i].lsn <= MaxLsnOf(records)
<1> DEFINE T == {0} \cup {records[i].lsn : i \in 1..Len(records)}
<1>1. \A i \in 1..Len(records) : records[i].lsn \in 1..MaxLsn
  <2>1. \A i \in 1..Len(records) : records[i] \in LogRecord
    BY ElementOfSeq
  <2> QED BY <2>1 DEF LogRecord
<1>2. T \in SUBSET Nat /\ T # {} /\ \A y \in T : y <= MaxLsn
  BY <1>1
<1>3. Max(T) \in T /\ \A y \in T : Max(T) >= y
  <2> HIDE DEF T
  <2> QED BY <1>2, MaxIsGreatest
<1>4. Max(T) \in 0..MaxLsn
  BY <1>2, <1>3
<1>5. \A i \in 1..Len(records) : records[i].lsn \in T
  OBVIOUS
<1>6. \A i \in 1..Len(records) : records[i].lsn <= Max(T)
  BY <1>1, <1>3, <1>4, <1>5
<1> QED BY <1>4, <1>6 DEF MaxLsnOf

\* The last checkpoint, when there is one, is a checkpoint record.
LEMMA LastCheckpointIsOne ==
    ASSUME NEW records \in Seq(LogRecord)
    PROVE  LastCheckpoint(records) \in 0..Len(records)
<1> DEFINE T == {i \in 1..Len(records) : records[i].type = "Checkpoint"} \cup {0}
<1>1. Len(records) \in Nat
  BY LenProperties
<1>2. T \in SUBSET Nat /\ T # {} /\ \A y \in T : y <= Len(records)
  BY <1>1
<1>3. Max(T) \in T
  <2> HIDE DEF T
  <2> QED BY <1>1, <1>2, MaxIsGreatest
<1> QED BY <1>1, <1>3 DEF LastCheckpoint
-----------------------------------------------------------------------------
(* The analysis pass. *)

\* Records with LSNs in L and transactions in T: those of the log, and those
\* of the crash tests.
RecordOf(L, T) == [lsn : L, txn : T, type : {"Data", "Commit", "Abort", "Checkpoint"}]

Analysis(T) == [committed : SUBSET T, aborted : SUBSET T, active : SUBSET T]

\* acc is the pass over the first m records.
IsPass(acc, records, m) ==
    acc = [i \in 0..m |-> IF i = 0 THEN Nothing ELSE AnalyzeRecord(acc[i - 1], records[i])]

Pass(records) == CHOOSE acc : IsPass(acc, records, Len(records))

\* The pass exists over any prefix: each step needs only the one before it.
LEMMA PassExists ==
    ASSUME NEW records, NEW n \in Nat
    PROVE  \E acc : IsPass(acc, records, n)
<1> DEFINE T == {m \in Nat : ~ \E acc : IsPass(acc, records, m)}
<1>1. SUFFICES T = {}
  OBVIOUS
<1>2. SUFFICES ASSUME T # {} PROVE FALSE
  OBVIOUS
<1>3. PICK m \in T : \A k \in T : m <= k
  <2>1. T \in SUBSET Nat
    OBVIOUS
  <2> HIDE DEF T
  <2> QED BY <1>2, <2>1, LeastNat
<1>4. CASE m = 0
  <2> DEFINE g == [i \in 0..0 |-> Nothing]
  <2>1. g = [i \in 0..0 |-> IF i = 0 THEN Nothing ELSE AnalyzeRecord(g[i - 1], records[i])]
    OBVIOUS
  <2>2. IsPass(g, records, 0)
    BY <2>1 DEF IsPass
  <2> QED BY <1>4, <2>2
<1>5. CASE m # 0
  <2>1. m - 1 \in Nat /\ m \in Nat
    BY <1>5
  <2>2. m - 1 \notin T
    BY <1>3, <2>1
  <2>3. PICK g : IsPass(g, records, m - 1)
    BY <2>1, <2>2
  <2>4. g = [i \in 0..(m - 1) |->
               IF i = 0 THEN Nothing ELSE AnalyzeRecord(g[i - 1], records[i])]
    BY <2>3 DEF IsPass
  <2> DEFINE h == [i \in 0..m |-> IF i = m THEN AnalyzeRecord(g[m - 1], records[m])
                                           ELSE g[i]]
             step(k, i) == IF i = 0 THEN Nothing ELSE AnalyzeRecord(k[i - 1], records[i])
  <2>5. \A i \in 0..(m - 1) : g[i] = step(g, i)
    BY <2>4
  <2>6. \A i \in 0..(m - 1) : h[i] = g[i]
    BY <2>1
  <2>7. \A i \in 0..m : h[i] = step(h, i)
    <3> SUFFICES ASSUME NEW i \in 0..m PROVE h[i] = step(h, i)
      OBVIOUS
    <3>1. CASE i = m
      <4>1. h[m] = AnalyzeRecord(g[m - 1], records[m]) /\ h[m - 1] = g[m - 1]
        BY <2>1, <2>6
      <4> HIDE DEF h
      <4> QED BY <3>1, <4>1, <1>5
    <3>2. CASE i = 0
      <4>1. h[0] = g[0] /\ g[0] = Nothing
        BY <2>1, <2>5, <2>6
      <4> HIDE DEF h
      <4> QED BY <3>2, <4>1
    <3>3. CASE i # m /\ i # 0
      <4>1. i \in 0..(m - 1) /\ i - 1 \in 0..(m - 1)
        BY <2>1, <3>3
      <4>2. h[i] = g[i] /\ h[i - 1] = g[i - 1] /\ g[i] = step(g, i)
        BY <2>5, <2>6, <4>1
      <4> HIDE DEF h
      <4> QED BY <4>2, <3>3
    <3> QED BY <3>1, <3>2, <3>3
  <2>8. h = [i \in 0..m |-> h[i]]
    OBVIOUS
  <2>9. [i \in 0..m |-> h[i]] = [i \in 0..m |-> step(h, i)]
    <3> HIDE DEF h, step
    <3> QED BY <2>7
  <2>10. IsPass(h, records, m)
    <3>1. h = [i \in 0..m |-> step(h, i)]
      <4> HIDE DEF h, step
      <4> QED BY <2>8, <2>9
    <3> HIDE DEF h
    <3> QED BY <3>1 DEF IsPass
  <2> QED BY <2>10
<1> QED BY <1>4, <1>5

\* What Analyze returns, step by step.
LEMMA AnalyzeIsPass ==
    ASSUME NEW records, Len(records) \in Nat
    PROVE  /\ Analyze(records).committed_txns = Pass(records)[Len(records)].committed
           /\ Analyze(records).loser_txns = Pass(records)[Len(records)].active
           /\ Pass(records)[0] = Nothing
           /\ \A i \in 1..Len(records) :
                 Pass(records)[i] = AnalyzeRecord(Pass(records)[i - 1], records[i])
<1>1. IsPass(Pass(records), records, Len(records))
  BY PassExists DEF Pass
<1>2. Pass(records) = [i \in 0..Len(records) |->
          IF i = 0 THEN Nothing ELSE AnalyzeRecord(Pass(records)[i - 1], records[i])]
  BY <1>1 DEF IsPass
<1>3. Analyze(records) = [committed_txns |-> Pass(records)[Len(records)].committed,
                          loser_txns |-> Pass(records)[Len(records)].active]
  BY DEF Analyze, Pass, IsPass
<1>4. \A i \in 0..Len(records) : Pass(records)[i] =
          IF i = 0 THEN Nothing ELSE AnalyzeRecord(Pass(records)[i - 1], records[i])
  <2> DEFINE p == Pass(records)
  <2>1. p = [i \in 0..Len(records) |->
               IF i = 0 THEN Nothing ELSE AnalyzeRecord(p[i - 1], records[i])]
    BY <1>2
  <2> HIDE DEF p
  <2>2. \A i \in 0..Len(records) : p[i] =
               IF i = 0 THEN Nothing ELSE AnalyzeRecord(p[i - 1], records[i])
    BY <2>1
  <2> QED BY <2>2 DEF p
<1> QED BY <1>3, <1>4

\* What one record of the pass does.
RecordEffect(T, acc, rec) ==
    /\ AnalyzeRecord(acc, rec) \in Analysis(T)
    /\ AnalyzeRecord(acc, rec).committed =
          IF rec.type = "Commit" THEN acc.committed \cup {rec.txn} ELSE acc.committed
    /\ AnalyzeRecord(acc, rec).active =
          CASE rec.type = "Data" -> acc.active \cup {rec.txn}
            [] rec.type \in {"Commit", "Abort"} -> acc.active \ {rec.txn}
            [] rec.type = "Checkpoint" -> acc.active

LEMMA AnalyzeRecordEffect ==
    ASSUME NEW L, NEW T, NEW acc \in Analysis(T), NEW rec \in RecordOf(L, T)
    PROVE  RecordEffect(T, acc, rec)
<1> USE DEF RecordEffect
<1>1. /\ rec.type \in {"Data", "Commit", "Abort", "Checkpoint"}
      /\ rec.txn \in T
  BY DEF RecordOf
<1>2. CASE rec.type = "Data"
  <2>1. AnalyzeRecord(acc, rec) = [acc EXCEPT !.active = @ \cup {rec.txn}]
    BY <1>2 DEF AnalyzeRecord
  <2> QED BY <1>1, <1>2, <2>1 DEF Analysis
<1>3. CASE rec.type = "Commit"
  <2>1. AnalyzeRecord(acc, rec) = [acc EXCEPT !.committed = @ \cup {rec.txn},
                                              !.active = @ \ {rec.txn}]
    BY <1>3 DEF AnalyzeRecord
  <2>2. acc = [committed |-> acc.committed, aborted |-> acc.aborted, active |-> acc.active]
    BY DEF Analysis
  <2>3. AnalyzeRecord(acc, rec) = [committed |-> acc.committed \cup {rec.txn},
                                   aborted |-> acc.aborted,
                                   active |-> acc.active \ {rec.txn}]
    BY <2>1, <2>2
  <2>4. /\ acc.committed \subseteq T
        /\ acc.aborted \subseteq T
        /\ acc.active \subseteq T
    BY DEF Analysis
  <2>5. AnalyzeRecord(acc, rec) \in Analysis(T)
    BY <1>1, <2>3, <2>4 DEF Analysis
  <2>6. /\ AnalyzeRecord(acc, rec).committed = acc.committed \cup {rec.txn}
        /\ AnalyzeRecord(acc, rec).active = acc.active \ {rec.txn}
    BY <2>3
  <2> HIDE DEF AnalyzeRecord
  <2> QED BY <1>3, <2>5, <2>6
<1>4. CASE rec.type = "Abort"
  <2>1. AnalyzeRecord(acc, rec) = [acc EXCEPT !.aborted = @ \cup {rec.txn},
                                              !.active = @ \ {rec.txn}]
    BY <1>4 DEF AnalyzeRecord
  <2>2. acc = [committed |-> acc.committed, aborted |-> acc.aborted, active |-> acc.active]
    BY DEF Analysis
  <2>3. AnalyzeRecord(acc, rec) = [committed |-> acc.committed,
                                   aborted |-> acc.aborted \cup {rec.txn},
                                   active |-> acc.active \ {rec.txn}]
    BY <2>1, <2>2
  <2>4. /\ acc.committed \subseteq T
        /\ acc.aborted \subseteq T
        /\ acc.active \subseteq T
    BY DEF Analysis
  <2>5. AnalyzeRecord(acc, rec) \in Analysis(T)
    BY <1>1, <2>3, <2>4 DEF Analysis
  <2>6. /\ AnalyzeRecord(acc, rec).committed = acc.committed
        /\ AnalyzeRecord(acc, rec).active = acc.active \ {rec.txn}
    BY <2>3
  <2> HIDE DEF AnalyzeRecord
  <2> QED BY <1>4, <2>5, <2>6
<1>5. CASE rec.type = "Checkpoint"
  <2>1. AnalyzeRecord(acc, rec) = acc
    BY <1>5 DEF AnalyzeRecord
  <2> QED BY <1>1, <1>5, <2>1 DEF Analysis
<1> QED BY <1>1, <1>2, <1>3, <1>4, <1>5

Ends(rec, t) == rec.txn = t /\ rec.type \in {"Commit", "Abort"}

\* After i records: who has a commit record among them ...
WonBy(records, i, t) == \E j \in 1..i : records[j].txn = t /\ records[j].type = "Commit"

\* ... and who has a data record that no later record of theirs ends.
OpenAt(records, i, t) ==
    \E j \in 1..i : /\ records[j].txn = t
                    /\ records[j].type = "Data"
                    /\ \A k \in 1..i : j < k => ~Ends(records[k], t)

PassGathers(T, records, i) ==
    /\ Pass(records)[i] \in Analysis(T)
    /\ \A t : t \in Pass(records)[i].committed <=> WonBy(records, i, t)
    /\ \A t : t \in Pass(records)[i].active <=> OpenAt(records, i, t)

\* One more record.
LEMMA PassStep ==
    ASSUME NEW L, NEW T, NEW records \in Seq(RecordOf(L, T)), NEW i \in 1..Len(records),
           PassGathers(T, records, i - 1)
    PROVE  PassGathers(T, records, i)
<1> DEFINE old == Pass(records)[i - 1]
           rec == records[i]
<1>1. /\ Len(records) \in Nat
      /\ rec \in RecordOf(L, T)
  BY LenProperties, ElementOfSeq
<1>2. Pass(records)[i] = AnalyzeRecord(old, rec)
  BY <1>1, AnalyzeIsPass
<1>3. /\ old \in Analysis(T)
      /\ \A t : t \in old.committed <=> WonBy(records, i - 1, t)
      /\ \A t : t \in old.active <=> OpenAt(records, i - 1, t)
  BY DEF PassGathers
<1>4. rec.type \in {"Data", "Commit", "Abort", "Checkpoint"}
  BY <1>1 DEF RecordOf
<1>5. \A j \in 1..i : j \in 1..(i - 1) \/ j = i
  BY <1>1
<1>6. 1..(i - 1) \subseteq 1..i /\ i \in 1..i /\ \A j \in 1..(i - 1) : j < i
  BY <1>1
<1>7. \A t : WonBy(records, i, t) <=>
                WonBy(records, i - 1, t) \/ (rec.type = "Commit" /\ rec.txn = t)
  BY <1>5, <1>6 DEF WonBy
<1>8. \A t : OpenAt(records, i, t) <=>
                \/ OpenAt(records, i - 1, t) /\ ~Ends(rec, t)
                \/ rec.type = "Data" /\ rec.txn = t
  <2> SUFFICES ASSUME NEW t
               PROVE  OpenAt(records, i, t) <=>
                         \/ OpenAt(records, i - 1, t) /\ ~Ends(rec, t)
                         \/ rec.type = "Data" /\ rec.txn = t
    OBVIOUS
  <2>1. ASSUME OpenAt(records, i, t), ~(rec.type = "Data" /\ rec.txn = t)
        PROVE  OpenAt(records, i - 1, t) /\ ~Ends(rec, t)
    <3>1. PICK j \in 1..i : /\ records[j].txn = t
                            /\ records[j].type = "Data"
                            /\ \A k \in 1..i : j < k => ~Ends(records[k], t)
      BY <2>1 DEF OpenAt
    <3>2. j \in 1..(i - 1)
      BY <1>5, <2>1, <3>1
    <3> QED BY <1>6, <3>1, <3>2 DEF OpenAt
  <2>2. ASSUME OpenAt(records, i - 1, t), ~Ends(rec, t)
        PROVE  OpenAt(records, i, t)
    <3>1. PICK j \in 1..(i - 1) : /\ records[j].txn = t
                                  /\ records[j].type = "Data"
                                  /\ \A k \in 1..(i - 1) : j < k => ~Ends(records[k], t)
      BY <2>2 DEF OpenAt
    <3>2. \A k \in 1..i : j < k => ~Ends(records[k], t)
      BY <1>5, <2>2, <3>1
    <3> QED BY <1>6, <3>1, <3>2 DEF OpenAt
  <2>3. ASSUME rec.type = "Data", rec.txn = t
        PROVE  OpenAt(records, i, t)
    <3>1. \A k \in 1..i : ~(i < k)
      BY <1>1
    <3> QED BY <1>6, <2>3, <3>1 DEF OpenAt
  <2> QED BY <2>1, <2>2, <2>3
<1> DEFINE new == AnalyzeRecord(old, rec)
<1>9. /\ new \in Analysis(T)
      /\ new.committed = IF rec.type = "Commit" THEN old.committed \cup {rec.txn}
                                                ELSE old.committed
      /\ new.active = CASE rec.type = "Data" -> old.active \cup {rec.txn}
                        [] rec.type \in {"Commit", "Abort"} -> old.active \ {rec.txn}
                        [] rec.type = "Checkpoint" -> old.active
  <2> HIDE DEF old, rec
  <2>1. old \in Analysis(T) /\ rec \in RecordOf(L, T)
    BY <1>1, <1>3
  <2>2. RecordEffect(T, old, rec)
    BY <2>1, AnalyzeRecordEffect, Zenon
  <2> QED BY <2>2, Zenon DEF RecordEffect
<1> HIDE DEF old, rec, new
<1>10. \A t : t \in new.committed <=> WonBy(records, i, t)
  BY <1>3, <1>7, <1>9
<1>11. \A t : t \in new.active <=> OpenAt(records, i, t)
  BY <1>3, <1>4, <1>8, <1>9 DEF Ends
<1> QED BY <1>2, <1>9, <1>10, <1>11 DEF PassGathers, new

\* The pass over the whole log.
LEMMA PassIsExact ==
    ASSUME NEW L, NEW T, NEW records \in Seq(RecordOf(L, T))
    PROVE  PassGathers(T, records, Len(records))
<1>1. Len(records) \in Nat
  BY LenProperties
<1>2. PassGathers(T, records, 0)
  <2>1. Pass(records)[0] = Nothing
    BY <1>1, AnalyzeIsPass
  <2>2. Nothing \in Analysis(T) /\ Nothing.committed = {} /\ Nothing.active = {}
    BY DEF Nothing, Analysis
  <2>3. \A t : ~WonBy(records, 0, t) /\ ~OpenAt(records, 0, t)
    BY DEF WonBy, OpenAt
  <2> QED BY <2>1, <2>2, <2>3 DEF PassGathers
<1> DEFINE B == {i \in 0..Len(records) : ~PassGathers(T, records, i)}
<1>3. B = {}
  <2> SUFFICES ASSUME B # {} PROVE FALSE
    OBVIOUS
  <2>1. B \in SUBSET Nat
    BY <1>1
  <2>2. PICK i \in B : \A k \in B : i <= k
    <3> HIDE DEF B
    <3> QED BY <2>1, LeastNat
  <2>3. i \in 1..Len(records) /\ i - 1 \in 0..Len(records)
    BY <1>1, <1>2, <2>2
  <2>4. PassGathers(T, records, i - 1)
    BY <2>1, <2>2, <2>3
  <2> QED BY <2>2, <2>3, <2>4, PassStep
<1> QED BY <1>1, <1>3

\* Winners and losers, by positions in the log.
LEMMA AnalyzeIsExact ==
    ASSUME NEW L, NEW T, NEW records \in Seq(RecordOf(L, T))
    PROVE  /\ \A t : t \in Analyze(records).committed_txns
                        <=> WonBy(records, Len(records), t)
           /\ \A t : t \in Analyze(records).loser_txns
                        <=> OpenAt(records, Len(records), t)
<1>1. Len(records) \in Nat
  BY LenProperties
<1> QED BY <1>1, AnalyzeIsPass, PassIsExact DEF PassGathers

\* The same of the records of the log.
LEMMA AnalyzeLogIsExact ==
    ASSUME NEW records \in Seq(LogRecord)
    PROVE  /\ \A t : t \in Analyze(records).committed_txns
                        <=> WonBy(records, Len(records), t)
           /\ \A t : t \in Analyze(records).loser_txns
                        <=> OpenAt(records, Len(records), t)
<1>1. LogRecord = RecordOf(1..MaxLsn, Txn \cup {NoTxn})
  BY DEF LogRecord, RecordOf
<1>2. records \in Seq(RecordOf(1..MaxLsn, Txn \cup {NoTxn}))
  BY <1>1
<1> QED BY <1>2, AnalyzeIsExact

-----------------------------------------------------------------------------
(* The inductive invariant. *)

Ended == {"Commit", "Abort"}

\* The counter that makes a checkpoint due never passes the LSNs assigned.
CountsLsns == since_checkpoint < next_lsn

\* Data, commit and abort records have a transaction, the others have none.
Owned == \A i \in 1..Len(file) :
             file[i].txn = NoTxn <=> file[i].type \in {"Checkpoint", "Torn"}

\* A transaction waits in the call only between its commit record and the
\* answer; an append calls checkpoint only while one is due; a crash ends the
\* call.
CallOwned == /\ ~up => call = Idle
             /\ call.op \in {"idle", "checkpoint", "truncate", "rename"} => call.txn = NoTxn
             /\ call.op = "recurse" => AutoCheckpointDue
             /\ call.op = "commit" => call.txn \in Txn

\* The commit record of the waiting transaction is in the file, unless the
\* handle is on the dummy file.
CommitWritten ==
    call.op = "commit" =>
        \/ detached
        \/ \E i \in 1..Len(file) : file[i].txn = call.txn /\ file[i].type = "Commit"

\* A rename replaces the file by something that starts with a checkpoint.
RenameSafe == call.op = "rename" => LastCheckpoint(ReadAll(file)) > 1

\* An acknowledged commit is archived, or it is readable and durable.
AckedDurable ==
    config.sync_on_commit =>
        \A t \in Txn \ exposed : client[t] = "acked" =>
            \/ t \in archived
            \/ \E i \in 1..synced : /\ file[i].txn = t
                                    /\ file[i].type = "Commit"
                                    /\ Readable(file, i)

slack == IF config.sync_on_every_record THEN 1 ELSE 0

\* LsnOrder, by positions in the file.
Ordered == \A i, j \in 1..Len(file) :
               i < j /\ Readable(file, j) => file[i].lsn < file[j].lsn + slack

Ahead == up => \A i \in 1..Len(file) : Readable(file, i) => file[i].lsn < next_lsn + slack

\* What the client of a transaction knows, against the records the transaction
\* has in the file, readable or not.
Known ==
    \A i \in 1..Len(file) :
        /\ file[i].type = "Data" => client[file[i].txn] # "new"
        /\ file[i].type \in Ended =>
              \/ client[file[i].txn] \in {"acked", "aborted", "lost"}
              \/ client[file[i].txn] = "running" /\ call.txn = file[i].txn

\* Nothing of a transaction follows the record that ends it.
EndIsLast ==
    \A i, j \in 1..Len(file) :
        i < j /\ file[i].type \in Ended =>
            ~(file[j].type \in {"Data", "Commit", "Abort"} /\ file[j].txn = file[i].txn)

IInv == /\ TypeOK
        /\ CountsLsns
        /\ Owned
        /\ CallOwned
        /\ CommitWritten
        /\ RenameSafe
        /\ AckedDurable
        /\ Ordered
        /\ Ahead
        /\ Known
        /\ EndIsLast

-----------------------------------------------------------------------------
(* How a step changes the file. *)

\* Items that stay where they are stay as readable as they were.
LEMMA KeptReadable ==
    ASSUME NEW f \in Seq(Item), NEW g \in Seq(Item), NEW n \in Nat,
           n <= Len(f), n <= Len(g), \A i \in 1..n : g[i] = f[i]
    PROVE  \A i \in 1..n : Readable(g, i) <=> Readable(f, i)
<1>1. Len(f) \in Nat /\ Len(g) \in Nat
  BY LenProperties
<1>2. \A i \in 1..n : i \in 1..Len(f) /\ i \in 1..Len(g) /\ 1..i \subseteq 1..n
  BY <1>1
<1> QED BY <1>2 DEF Readable

\* The file keeps its first n items.
Keeps(n) == /\ n \in Nat /\ n <= Len(file) /\ n <= Len(file')
            /\ \A i \in 1..n : file'[i] = file[i]
            /\ \A i \in 1..n : Readable(file', i) <=> Readable(file, i)

LEMMA KeptIsKept ==
    ASSUME file \in Seq(Item), file' \in Seq(Item), NEW n \in Nat,
           n <= Len(file), n <= Len(file'), \A i \in 1..n : file'[i] = file[i]
    PROVE  Keeps(n)
<1>1. \A f, g \in Seq(Item) : n <= Len(f) /\ n <= Len(g) /\ (\A i \in 1..n : g[i] = f[i])
         => \A i \in 1..n : Readable(g, i) <=> Readable(f, i)
  BY KeptReadable
<1>2. \A i \in 1..n : Readable(file', i) <=> Readable(file, i)
  BY <1>1
<1> QED BY <1>2 DEF Keeps

\* The item that comes after them, if there is one, is a record.
Adds(n) == /\ file'[n + 1].lsn = next_lsn
           /\ up /\ up'
           /\ n = Len(file)
           /\ file'[n + 1].type \in {"Data", "Commit", "Abort", "Checkpoint"}
           /\ file'[n + 1].txn = NoTxn <=> file'[n + 1].type = "Checkpoint"
           /\ \/ next_lsn' = next_lsn + 1
              \/ config.sync_on_every_record /\ next_lsn' = next_lsn
           /\ file'[n + 1].type = "Data" =>
                 /\ call = Idle
                 /\ client[file'[n + 1].txn] \in {"new", "running"}
                 /\ client'[file'[n + 1].txn] = "running"
           /\ file'[n + 1].type \in Ended =>
                 /\ call = Idle
                 /\ client[file'[n + 1].txn] = "running"
                 /\ \/ client'[file'[n + 1].txn] \in {"aborted", "lost"}
                    \/ /\ client'[file'[n + 1].txn] = "running"
                       /\ call'.txn = file'[n + 1].txn

\* Unless a truncation replaces it, the file keeps its durable items, and gets
\* at most one more.
Grows(n) == /\ Keeps(n)
            /\ synced <= n
            /\ \/ Len(file') = n
               \/ Len(file') = n + 1 /\ file'[n + 1].type = "Torn"
               \/ Len(file') = n + 1 /\ Adds(n)

CallType == [op : {"idle", "commit", "checkpoint", "recurse", "truncate", "rename"},
             txn : Txn \cup {NoTxn}]

\* append, on the log file or on the dummy file.
LEMMA WriteRecordMoves ==
    ASSUME TypeOK, CountsLsns, WriteAheadLogAssumption,
           NEW t \in Txn \cup {NoTxn},
           NEW type \in {"Data", "Commit", "Abort", "Checkpoint"},
           NEW next_call \in CallType,
           WriteRecord(t, type, next_call)
    PROVE  /\ file' \in Seq(Item)
           /\ synced' \in 0..Len(file') /\ synced <= synced'
           /\ next_lsn' = next_lsn + 1 /\ next_lsn' \in 1..(MaxLsn + 1)
           /\ last_record_lsn' \in 0..MaxLsn
           /\ since_checkpoint' \in 0..MaxLsn /\ since_checkpoint' < next_lsn'
           /\ since_checkpoint' = since_checkpoint + 1
           /\ since_truncate' \in Nat
           /\ call' \in CallType
           /\ call'.txn = next_call.txn
           /\ IF AutoCheckpointDue THEN call'.op = "recurse" ELSE call' = next_call
           /\ Keeps(Len(file))
           /\ IF detached THEN file' = file
              ELSE /\ Len(file') = Len(file) + 1
                   /\ file'[Len(file) + 1] = [lsn |-> next_lsn, txn |-> t, type |-> type]
<1> DEFINE rec == [lsn |-> next_lsn, txn |-> t, type |-> type]
<1>1. /\ file \in Seq(Item) /\ synced \in 0..Len(file)
      /\ next_lsn \in 1..(MaxLsn + 1) /\ next_lsn <= MaxLsn /\ MaxLsn \in Nat
      /\ since_checkpoint \in 0..MaxLsn /\ since_truncate \in Nat
      /\ since_checkpoint < next_lsn
  BY DEF TypeOK, CountsLsns, WriteAheadLogAssumption, WriteRecord, Item
<1>2. rec \in Item
  BY <1>1 DEF Item, LogRecord
<1>3. /\ file' = IF detached THEN file ELSE Append(file, rec)
      /\ synced' = IF config.sync_on_every_record /\ ~detached THEN Len(file') ELSE synced
      /\ next_lsn' = next_lsn + 1
      /\ last_record_lsn' = next_lsn
      /\ since_checkpoint' = since_checkpoint + 1
      /\ since_truncate' = since_truncate + 1
      /\ call' = IF AutoCheckpointDue THEN [op |-> "recurse", txn |-> next_call.txn]
                                      ELSE next_call
  BY DEF WriteRecord, Written
<1> HIDE DEF rec
<1>4. Len(file) \in Nat
  BY <1>1, LenProperties
<1>5. CASE detached
  <2>1. file' = file /\ synced' = synced
    BY <1>3, <1>5
  <2> QED BY <1>1, <1>3, <1>4, <1>5, <2>1 DEF CallType, Keeps
<1>6. CASE ~detached
  <2>1. /\ file' \in Seq(Item)
        /\ Len(file') = Len(file) + 1
        /\ \A i \in 1..Len(file) : file'[i] = file[i]
        /\ file'[Len(file) + 1] = rec
    BY <1>1, <1>2, <1>3, <1>6, AppendProperties
  <2>2. Keeps(Len(file))
    <3>1. Len(file) <= Len(file')
      BY <1>4, <2>1
    <3> QED BY <1>1, <1>4, <2>1, <3>1, KeptIsKept
  <2>3. synced' \in 0..Len(file') /\ synced <= synced'
    <3>1. synced \in 0..Len(file)
      BY <1>1
    <3>2. synced' = Len(file') \/ synced' = synced
      BY <1>3
    <3> QED BY <1>4, <2>1, <3>1, <3>2
  <2> QED BY <1>1, <1>3, <1>6, <2>1, <2>2, <2>3 DEF CallType, rec
<1> QED BY <1>5, <1>6

\* The part of a write error or a crash that hits the file: one Torn item.
LEMMA TornMoves ==
    ASSUME file \in Seq(Item), NEW n \in Nat, n <= Len(file),
           file' = Append(SubSeq(file, 1, n), Torn)
    PROVE  /\ file' \in Seq(Item) /\ Len(file') = n + 1
           /\ file'[n + 1].type = "Torn"
           /\ Keeps(n)
<1>1. /\ Len(file) \in Nat
      /\ \A i \in 1..Len(file) : file[i] \in Item
  BY LenProperties, ElementOfSeq
<1>2. \A i \in 1..n : file[i] \in Item
  BY <1>1
<1> DEFINE s == SubSeq(file, 1, n)
<1>3. /\ s \in Seq(Item)
      /\ Len(s) = n
      /\ \A i \in 1..n : s[i] = file[i]
  BY <1>2, SubSeqProperties
<1>4. Torn \in Item /\ Torn.type = "Torn"
  BY DEF Item, Torn
<1>5. file' = Append(s, Torn)
  OBVIOUS
<1> HIDE DEF s
<1>6. /\ file' \in Seq(Item)
      /\ Len(file') = n + 1
      /\ \A i \in 1..n : file'[i] = s[i]
      /\ file'[n + 1] = Torn
  BY <1>3, <1>4, <1>5, AppendProperties
<1>7. n <= Len(file')
  BY <1>6
<1>8. \A i \in 1..n : file'[i] = file[i]
  BY <1>3, <1>6
<1>9. Keeps(n)
  BY <1>6, <1>7, <1>8, KeptIsKept
<1> QED BY <1>4, <1>6, <1>9

LEMMA CutMoves ==
    ASSUME file \in Seq(Item), NEW n \in Nat, n <= Len(file), file' = SubSeq(file, 1, n)
    PROVE  /\ file' \in Seq(Item) /\ Len(file') = n
           /\ Keeps(n)
<1>1. /\ Len(file) \in Nat
      /\ \A i \in 1..Len(file) : file[i] \in Item
  BY LenProperties, ElementOfSeq
<1>2. \A i \in 1..n : file[i] \in Item
  BY <1>1
<1>3. /\ file' \in Seq(Item)
      /\ Len(file') = n
      /\ \A i \in 1..n : file'[i] = file[i]
  BY <1>2, SubSeqProperties
<1>4. n <= Len(file')
  BY <1>3
<1>5. Keeps(n)
  BY <1>3, <1>4, KeptIsKept
<1> QED BY <1>3, <1>5

\* A crash leaves a prefix that has the durable items.
LEMMA CrashMoves ==
    ASSUME file \in Seq(Item), synced \in 0..Len(file), Crash
    PROVE  /\ file' \in Seq(Item)
           /\ \E n \in synced..Len(file) : /\ Keeps(n)
                                           /\ \/ Len(file') = n
                                              \/ Len(file') = n + 1 /\ file'[n + 1].type = "Torn"
<1>1. Len(file) \in Nat
  BY LenProperties
<1>2. PICK n \in synced..Len(file) :
         \/ file' = SubSeq(file, 1, n)
         \/ file' = Append(SubSeq(file, 1, n), Torn)
  BY DEF Crash
<1>3. n \in Nat /\ n <= Len(file)
  BY <1>1
<1>4. CASE file' = SubSeq(file, 1, n)
  BY <1>3, <1>4, CutMoves
<1>5. CASE file' = Append(SubSeq(file, 1, n), Torn)
  BY <1>3, <1>5, TornMoves
<1> QED BY <1>2, <1>4, <1>5

\* A failed write leaves one Torn item at the end.
LEMMA AppendFailsMoves ==
    ASSUME file \in Seq(Item), AppendFails
    PROVE  /\ file' \in Seq(Item) /\ Len(file') = Len(file) + 1
           /\ file'[Len(file) + 1].type = "Torn"
           /\ Keeps(Len(file))
<1>1. Len(file) \in Nat
  BY LenProperties
<1>2. SubSeq(file, 1, Len(file)) = file
  BY SubSeqFull
<1>3. file' = Append(SubSeq(file, 1, Len(file)), Torn)
  BY <1>2 DEF AppendFails
<1> QED BY <1>1, <1>3, TornMoves

\* The survivors of a truncation are the readable records from the last
\* checkpoint on.
LEMMA RenameMoves ==
    ASSUME file \in Seq(Item), RenameSafe, TruncateRename
    PROVE  /\ file' \in Seq(Item)
           /\ \E d \in Nat :
                 /\ d = LastCheckpoint(ReadAll(file)) - 1
                 /\ Len(ReadAll(file)) = d + Len(file')
                 /\ \A i \in 1..Len(file') : /\ d + i \in 1..Len(file)
                                             /\ Readable(file, d + i)
                                             /\ file'[i] = file[d + i]
                                             /\ Readable(file', i)
<1> DEFINE records == ReadAll(file)
           c == LastCheckpoint(records)
<1>1. /\ records \in Seq(LogRecord)
      /\ Len(records) <= Len(file)
      /\ \A i \in 1..Len(records) : records[i] = file[i]
      /\ \A i \in 1..Len(file) : Readable(file, i) <=> i <= Len(records)
  BY ReadAllReadable
<1>2. c > 1 /\ file' = SubSeq(records, c, Len(records))
  BY DEF TruncateRename, RenameSafe, InCall, Survivors
<1> HIDE DEF records
<1>3. /\ Len(file) \in Nat
      /\ Len(records) \in Nat
      /\ \A i \in 1..Len(records) : records[i] \in LogRecord
  BY <1>1, LenProperties, ElementOfSeq
<1>4. c \in 0..Len(records)
  BY <1>1, LastCheckpointIsOne
<1> HIDE DEF c
<1>5. c \in 1..Len(records)
  BY <1>2, <1>4
<1>6. \A i \in c..Len(records) : records[i] \in LogRecord
  BY <1>3, <1>5
<1>7. /\ file' \in Seq(LogRecord)
      /\ Len(file') = Len(records) - c + 1
      /\ \A i \in 1..(Len(records) - c + 1) : file'[i] = records[c + i - 1]
  BY <1>2, <1>3, <1>5, <1>6, SubSeqProperties
<1> DEFINE d == c - 1
<1>8. d \in Nat /\ Len(records) = d + Len(file')
  BY <1>3, <1>5, <1>7
<1>9. \A i \in 1..Len(file') : /\ d + i \in 1..Len(records) /\ d + i \in 1..Len(file)
                               /\ d + i <= Len(records)
                               /\ c + i - 1 = d + i
                               /\ i \in 1..(Len(records) - c + 1)
  BY <1>1, <1>3, <1>5, <1>7
<1>10. \A i \in 1..Len(file') : file'[i] = file[d + i] /\ Readable(file, d + i)
  BY <1>1, <1>7, <1>9
<1>11. file' \in Seq(Item)
  BY <1>7, SeqMonotonic DEF Item
<1>12. \A i \in 1..Len(file') : file'[i] \in LogRecord
  BY <1>7, ElementOfSeq
<1>13. \A i \in 1..Len(file') : Readable(file', i)
  <2>1. Len(file') \in Nat
    BY <1>7, LenProperties
  <2>2. \A i \in 1..Len(file') : 1..i \subseteq 1..Len(file')
    BY <2>1
  <2> QED BY <1>12, <2>2, RecordIsNotTorn DEF Readable
<1> QED BY <1>8, <1>9, <1>10, <1>11, <1>13 DEF c, records

-----------------------------------------------------------------------------
(* Types. *)

ClientType == [Txn -> {"new", "running", "acked", "aborted", "lost"}]
BudgetType == [crashes : 0..MaxCrashes, errors : 0..MaxErrors]

ConfigType == config \in Config
FileTypes == /\ file \in Seq(Item)
             /\ synced \in 0..Len(file)
             /\ {detached, up} \subseteq BOOLEAN
CounterTypes == /\ next_lsn \in 1..(MaxLsn + 1)
                /\ last_record_lsn \in 0..MaxLsn
                /\ since_checkpoint \in 0..MaxLsn
                /\ since_truncate \in Nat
                /\ since_checkpoint < next_lsn
GhostTypes == /\ call \in CallType
              /\ client \in ClientType
              /\ exposed \subseteq Txn
              /\ archived \subseteq Txn
              /\ budget \in BudgetType

LEMMA TypeOKByGroups ==
    TypeOK /\ CountsLsns <=> ConfigType /\ FileTypes /\ CounterTypes /\ GhostTypes
BY DEF TypeOK, CountsLsns, ConfigType, FileTypes, CounterTypes, GhostTypes, CallType, ClientType,
       BudgetType, Item

\* The records that append writes.
Appends == \/ \E t \in Txn : AppendData(t) \/ AppendAbort(t) \/ CommitAppend(t)
           \/ AutoCheckpoint
           \/ CheckpointAppend

AppendSyncFailure ==
    \E t \in Txn \cup {NoTxn}, type \in {"Data", "Commit", "Abort", "Checkpoint"} :
        AppendSyncFails(t, type)

\* The steps that leave the file alone.
Elsewhere == \/ Open
             \/ CommitSync
             \/ CheckpointSync
             \/ SyncFails
             \/ TruncateCall
             \/ TruncateWrite
             \/ TruncateFails

LEMMA NextByGroups ==
    Next <=> Appends \/ AppendSyncFailure \/ AppendFails \/ Elsewhere \/ TruncateRename \/ Crash
BY DEF Next, Appends, AppendSyncFailure, Elsewhere

LEMMA ConfigTypes ==
    ASSUME WriteAheadLogAssumption
    PROVE  /\ MaxLsn \in Nat /\ MaxCrashes \in Nat /\ MaxErrors \in Nat
           /\ NoTxn \notin Txn
BY DEF WriteAheadLogAssumption

LEMMA CallsAreTyped ==
    /\ Idle \in CallType /\ Idle.op = "idle" /\ Idle.txn = NoTxn
    /\ \A op \in {"idle", "commit", "checkpoint", "recurse", "truncate", "rename"},
          t \in Txn \cup {NoTxn} : /\ [op |-> op, txn |-> t] \in CallType
                                   /\ [op |-> op, txn |-> t].op = op
                                   /\ [op |-> op, txn |-> t].txn = t
    /\ \A c \in CallType : c.txn \in Txn \cup {NoTxn}
BY DEF CallType, Idle

LEMMA BudgetShrinks ==
    ASSUME NEW b \in BudgetType, MaxCrashes \in Nat, MaxErrors \in Nat
    PROVE  /\ b.errors > 0 => [b EXCEPT !.errors = @ - 1] \in BudgetType
           /\ b.crashes > 0 => [b EXCEPT !.crashes = @ - 1] \in BudgetType
BY DEF BudgetType

\* One append: the record of the caller or of a checkpoint.
AppendsRecord(t, type, next_call) ==
    /\ WriteRecord(t, type, next_call)
    /\ UNCHANGED <<config, detached, up, exposed, archived, budget>>
    /\ up
    /\ t = NoTxn <=> type = "Checkpoint"
    /\ type = "Data" => /\ client[t] \in {"new", "running"}
                        /\ client' = [client EXCEPT ![t] = "running"]
    /\ type = "Abort" => client[t] = "running" /\ client' = [client EXCEPT ![t] = "aborted"]
    /\ type \in {"Commit", "Checkpoint"} => client' = client
    /\ type = "Commit" => client[t] = "running" /\ next_call.op = "commit"
    /\ type = "Checkpoint" => next_call.op = "checkpoint"
    /\ type \in {"Data", "Abort"} => next_call = Idle
    /\ next_call.txn = IF type = "Commit" THEN t
                       ELSE IF call = Idle THEN NoTxn ELSE call.txn
    /\ call = Idle \/ (call.op = "recurse" /\ type = "Checkpoint")

LEMMA AppendsWrite ==
    ASSUME TypeOK, NoTxn \notin Txn, Appends
    PROVE  \E t \in Txn \cup {NoTxn}, type \in {"Data", "Commit", "Abort", "Checkpoint"},
              next_call \in CallType : AppendsRecord(t, type, next_call)
<1>1. call \in CallType
  BY DEF TypeOK, CallType
<1>2. CASE \E t \in Txn : AppendData(t)
  <2>1. PICK t \in Txn : AppendData(t)
    BY <1>2
  <2>2. /\ WriteRecord(t, "Data", Idle)
        /\ UNCHANGED <<config, detached, up, exposed, archived, budget>>
        /\ up /\ call = Idle /\ client[t] \in {"new", "running"}
        /\ client' = [client EXCEPT ![t] = "running"]
    BY <2>1 DEF AppendData, Ready
  <2>3. Idle \in CallType /\ Idle.txn = NoTxn /\ t # NoTxn
    BY CallsAreTyped
  <2> QED BY <2>2, <2>3 DEF AppendsRecord
<1>3. CASE \E t \in Txn : AppendAbort(t)
  <2>1. PICK t \in Txn : AppendAbort(t)
    BY <1>3
  <2>2. /\ WriteRecord(t, "Abort", Idle)
        /\ UNCHANGED <<config, detached, up, exposed, archived, budget>>
        /\ up /\ call = Idle /\ client[t] = "running"
        /\ client' = [client EXCEPT ![t] = "aborted"]
    BY <2>1 DEF AppendAbort, Ready
  <2>3. Idle \in CallType /\ Idle.txn = NoTxn /\ t # NoTxn
    BY CallsAreTyped
  <2> QED BY <2>2, <2>3 DEF AppendsRecord
<1>4. CASE \E t \in Txn : CommitAppend(t)
  <2>1. PICK t \in Txn : CommitAppend(t)
    BY <1>4
  <2> DEFINE c == [op |-> "commit", txn |-> t]
  <2>2. /\ WriteRecord(t, "Commit", c)
        /\ UNCHANGED <<config, detached, up, exposed, archived, budget>>
        /\ up /\ call = Idle /\ client[t] = "running"
        /\ client' = client
    BY <2>1 DEF CommitAppend, Ready, ghosts
  <2>3. c \in CallType /\ c.txn = t /\ c.op = "commit" /\ t # NoTxn
    BY CallsAreTyped
  <2> HIDE DEF c
  <2> QED BY <2>2, <2>3 DEF AppendsRecord
<1>5. CASE AutoCheckpoint
  <2> DEFINE c == [op |-> "checkpoint", txn |-> call.txn]
  <2>1. /\ WriteRecord(NoTxn, "Checkpoint", c)
        /\ UNCHANGED <<config, detached, up, exposed, archived, budget>>
        /\ up /\ call.op = "recurse"
        /\ client' = client
    BY <1>5 DEF AutoCheckpoint, InCall, ghosts
  <2>2. c \in CallType /\ c.txn = call.txn /\ c.op = "checkpoint" /\ call # Idle
    BY <1>1, <2>1, CallsAreTyped DEF Idle
  <2> HIDE DEF c
  <2> QED BY <2>1, <2>2 DEF AppendsRecord
<1>6. CASE CheckpointAppend
  <2> DEFINE c == [op |-> "checkpoint", txn |-> NoTxn]
  <2>1. /\ WriteRecord(NoTxn, "Checkpoint", c)
        /\ UNCHANGED <<config, detached, up, exposed, archived, budget>>
        /\ up /\ call = Idle
        /\ client' = client
    BY <1>6 DEF CheckpointAppend, Ready, ghosts
  <2>2. c \in CallType /\ c.txn = NoTxn /\ c.op = "checkpoint"
    BY CallsAreTyped
  <2> HIDE DEF c
  <2> QED BY <2>1, <2>2 DEF AppendsRecord
<1> QED BY <1>2, <1>3, <1>4, <1>5, <1>6 DEF Appends

LEMMA AppendsTypes ==
    ASSUME WriteAheadLogAssumption, TypeOK, CountsLsns, Appends
    PROVE  (TypeOK /\ CountsLsns)'
<1>1. ConfigType /\ FileTypes /\ CounterTypes /\ GhostTypes
  BY TypeOKByGroups
<1>2. PICK t \in Txn \cup {NoTxn}, type \in {"Data", "Commit", "Abort", "Checkpoint"},
           next_call \in CallType : AppendsRecord(t, type, next_call)
  BY AppendsWrite, ConfigTypes
<1>3. /\ file' \in Seq(Item)
      /\ synced' \in 0..Len(file')
      /\ next_lsn' \in 1..(MaxLsn + 1)
      /\ last_record_lsn' \in 0..MaxLsn
      /\ since_checkpoint' \in 0..MaxLsn /\ since_checkpoint' < next_lsn'
      /\ since_truncate' \in Nat
      /\ call' \in CallType
  BY <1>2, WriteRecordMoves DEF AppendsRecord
<1>4. UNCHANGED <<config, detached, up, exposed, archived, budget>>
  BY <1>2 DEF AppendsRecord
<1>5. client' \in ClientType
  <2>1. client' = client \/ client' = [client EXCEPT ![t] = "running"]
                         \/ client' = [client EXCEPT ![t] = "aborted"]
    BY <1>2 DEF AppendsRecord
  <2> QED BY <1>1, <2>1 DEF GhostTypes, ClientType
<1>6. FileTypes'
  BY <1>1, <1>3, <1>4 DEF FileTypes
<1>7. CounterTypes'
  BY <1>3 DEF CounterTypes
<1>8. GhostTypes'
  BY <1>1, <1>3, <1>4, <1>5 DEF GhostTypes
<1>9. ConfigType'
  BY <1>1, <1>4 DEF ConfigType
<1> QED BY <1>6, <1>7, <1>8, <1>9, TypeOKByGroups, PTL

LEMMA AppendSyncFailureMoves ==
    ASSUME WriteAheadLogAssumption, TypeOK,
           NEW t \in Txn \cup {NoTxn}, NEW type \in {"Data", "Commit", "Abort", "Checkpoint"},
           AppendSyncFails(t, type)
    PROVE  /\ file' \in Seq(Item)
           /\ Keeps(Len(file))
           /\ IF detached THEN file' = file
              ELSE /\ Len(file') = Len(file) + 1
                   /\ file'[Len(file) + 1] = [lsn |-> next_lsn, txn |-> t, type |-> type]
<1> DEFINE rec == [lsn |-> next_lsn, txn |-> t, type |-> type]
<1>1. file \in Seq(Item) /\ next_lsn \in 1..MaxLsn
  BY ConfigTypes DEF TypeOK, AppendSyncFails, Item
<1>2. rec \in Item
  BY <1>1 DEF Item, LogRecord
<1>3. file' = IF detached THEN file ELSE Append(file, rec)
  BY DEF AppendSyncFails, Written
<1> HIDE DEF rec
<1>4. Len(file) \in Nat
  BY <1>1, LenProperties
<1>5. CASE detached
  <2>1. file' = file
    BY <1>3, <1>5
  <2> QED BY <1>1, <1>4, <1>5, <2>1 DEF Keeps
<1>6. CASE ~detached
  <2>1. /\ file' \in Seq(Item)
        /\ Len(file') = Len(file) + 1
        /\ \A i \in 1..Len(file) : file'[i] = file[i]
        /\ file'[Len(file) + 1] = rec
    BY <1>1, <1>2, <1>3, <1>6, AppendProperties
  <2>2. Len(file) <= Len(file')
    BY <1>4, <2>1
  <2>3. Keeps(Len(file))
    BY <1>1, <1>4, <2>1, <2>2, KeptIsKept
  <2> QED BY <1>6, <2>1, <2>3 DEF rec
<1> QED BY <1>5, <1>6

LEMMA FailureTypes ==
    ASSUME WriteAheadLogAssumption, TypeOK, CountsLsns,
           AppendSyncFailure \/ AppendFails \/ Crash
    PROVE  (TypeOK /\ CountsLsns)'
<1>1. ConfigType /\ FileTypes /\ CounterTypes /\ GhostTypes
  BY TypeOKByGroups
<1>2. file \in Seq(Item) /\ synced \in 0..Len(file) /\ Len(file) \in Nat
  BY <1>1, LenProperties DEF FileTypes
<1>3. MaxCrashes \in Nat /\ MaxErrors \in Nat
  BY ConfigTypes
<1>4. CASE AppendSyncFailure
  <2>1. PICK t \in Txn \cup {NoTxn}, type \in {"Data", "Commit", "Abort", "Checkpoint"} :
           AppendSyncFails(t, type)
    BY <1>4 DEF AppendSyncFailure
  <2>2. /\ file' \in Seq(Item)
        /\ Len(file) <= Len(file')
    BY <2>1, AppendSyncFailureMoves DEF Keeps
  <2>3. /\ UNCHANGED <<config, synced, detached, up, memory, exposed, archived>>
        /\ budget.errors > 0 /\ budget' = [budget EXCEPT !.errors = @ - 1]
        /\ client' = [client EXCEPT ![t] = "running"] \/ \E u : CommitUnknown(u)
        /\ call' = Idle
    BY <2>1 DEF AppendSyncFails
  <2>4. client' \in ClientType
    BY <1>1, <2>3 DEF CommitUnknown, GhostTypes, ClientType
  <2>5. budget' \in BudgetType
    BY <1>1, <1>3, <2>3, BudgetShrinks DEF GhostTypes
  <2>6. FileTypes'
    <3>1. synced' \in 0..Len(file')
      <4>1. Len(file') \in Nat
        BY <2>2, LenProperties
      <4> QED BY <1>2, <2>2, <2>3, <4>1
    <3> QED BY <1>1, <2>2, <2>3, <3>1 DEF FileTypes
  <2>7. CounterTypes'
    BY <1>1, <2>3 DEF CounterTypes, memory
  <2>8. GhostTypes'
    <3>1. Idle \in CallType
      BY DEF Idle, CallType
    <3> QED BY <1>1, <2>3, <2>4, <2>5, <3>1 DEF GhostTypes
  <2>9. ConfigType'
    BY <1>1, <2>3 DEF ConfigType
  <2> QED BY <2>6, <2>7, <2>8, <2>9, TypeOKByGroups, PTL
<1>5. CASE AppendFails
  <2>1. /\ file' \in Seq(Item)
        /\ Len(file) + 1 = Len(file')
    BY <1>2, <1>5, AppendFailsMoves
  <2>2. /\ UNCHANGED <<config, synced, detached, up, memory, exposed, archived>>
        /\ budget.errors > 0 /\ budget' = [budget EXCEPT !.errors = @ - 1]
        /\ CommitUnknown(call.txn)
        /\ call' = Idle
    BY <1>5 DEF AppendFails
  <2>3. client' \in ClientType
    BY <1>1, <2>2 DEF CommitUnknown, GhostTypes, ClientType
  <2>4. budget' \in BudgetType
    BY <1>1, <1>3, <2>2, BudgetShrinks DEF GhostTypes
  <2>5. FileTypes'
    <3>1. synced' \in 0..Len(file')
      BY <1>2, <2>1, <2>2
    <3> QED BY <1>1, <2>1, <2>2, <3>1 DEF FileTypes
  <2>6. CounterTypes'
    BY <1>1, <2>2 DEF CounterTypes, memory
  <2>7. GhostTypes'
    BY <1>1, <2>2, <2>3, <2>4, CallsAreTyped DEF GhostTypes
  <2>8. ConfigType'
    BY <1>1, <2>2 DEF ConfigType
  <2> QED BY <2>5, <2>6, <2>7, <2>8, TypeOKByGroups, PTL
<1>6. CASE Crash
  <2>1. file' \in Seq(Item)
    BY <1>2, <1>6, CrashMoves
  <2>2. /\ UNCHANGED <<config, memory, exposed, archived>>
        /\ synced' = Len(file') /\ up' = FALSE /\ detached' = FALSE
        /\ budget.crashes > 0 /\ budget' = [budget EXCEPT !.crashes = @ - 1]
        /\ client' = [t \in Txn |-> IF client[t] = "running" THEN "lost" ELSE client[t]]
        /\ call' = Idle
    BY <1>6 DEF Crash
  <2>3. client' \in ClientType
    BY <1>1, <2>2 DEF GhostTypes, ClientType
  <2>4. budget' \in BudgetType
    BY <1>1, <1>3, <2>2, BudgetShrinks DEF GhostTypes
  <2>5. FileTypes'
    <3>1. Len(file') \in Nat
      BY <2>1, LenProperties
    <3>2. synced' \in 0..Len(file')
      BY <2>2, <3>1
    <3>3. {detached', up'} \subseteq BOOLEAN
      BY <2>2, Zenon
    <3> QED BY <2>1, <3>2, <3>3 DEF FileTypes
  <2>6. CounterTypes'
    BY <1>1, <2>2 DEF CounterTypes, memory
  <2>7. GhostTypes'
    BY <1>1, <2>2, <2>3, <2>4, CallsAreTyped DEF GhostTypes
  <2>8. ConfigType'
    BY <1>1, <2>2 DEF ConfigType
  <2> QED BY <2>5, <2>6, <2>7, <2>8, TypeOKByGroups, PTL
<1> QED BY <1>4, <1>5, <1>6

\* What the steps that leave the file alone may change.
LEMMA ElsewhereMoves ==
    ASSUME TypeOK, Elsewhere
    PROVE  /\ file' = file /\ config' = config /\ archived' = archived
           /\ synced' = synced \/ synced' = Len(file)
           /\ \/ next_lsn' = next_lsn /\ up' = up
              \/ Open
           /\ \/ call' \in {Idle, [op |-> "truncate", txn |-> NoTxn],
                            [op |-> "rename", txn |-> NoTxn]}
              \/ Open /\ call' = call
           /\ \/ client' = client
              \/ CommitUnknown(call.txn)
              \/ call.op = "commit" /\ client' = [client EXCEPT ![call.txn] = "acked"]
           /\ exposed' \in {exposed, exposed \cup {call.txn}}
           /\ exposed' # exposed => CommitSync
           /\ detached' = detached \/ TruncateFails
           /\ budget' = budget \/ (budget.errors > 0 /\ budget' = [budget EXCEPT !.errors = @ - 1])
<1>1. CASE Open \/ TruncateCall \/ TruncateWrite \/ TruncateFails
  BY <1>1 DEF Open, TruncateCall, TruncateWrite, TruncateFails, memory, ghosts
<1>2. CASE CommitSync
  BY <1>2 DEF CommitSync, SyncFile, memory, InCall
<1>3. CASE CheckpointSync
  BY <1>3 DEF CheckpointSync, SyncFile, memory, ghosts
<1>4. CASE SyncFails
  BY <1>4 DEF SyncFails, memory
<1> QED BY <1>1, <1>2, <1>3, <1>4 DEF Elsewhere

LEMMA ElsewhereTypes ==
    ASSUME WriteAheadLogAssumption, TypeOK, CountsLsns, CallOwned, Elsewhere
    PROVE  (TypeOK /\ CountsLsns)'
<1>1. ConfigType /\ FileTypes /\ CounterTypes /\ GhostTypes
  BY TypeOKByGroups
<1>2. file \in Seq(Item) /\ synced \in 0..Len(file) /\ Len(file) \in Nat
  BY <1>1, LenProperties DEF FileTypes
<1>3. MaxCrashes \in Nat /\ MaxErrors \in Nat /\ MaxLsn \in Nat
  BY ConfigTypes
<1>4. FileTypes'
  <2>1. file' = file /\ (synced' = synced \/ synced' = Len(file))
    BY ElsewhereMoves
  <2>2. file' \in Seq(Item) /\ synced' \in 0..Len(file')
    BY <1>2, <2>1
  <2>3. detached' = detached \/ detached' = TRUE
    BY ElsewhereMoves DEF TruncateFails
  <2>4. up' = up \/ up' = TRUE
    BY ElsewhereMoves DEF Open
  <2>5. {detached, up} \subseteq BOOLEAN
    BY <1>1 DEF FileTypes
  <2>6. {detached', up'} \subseteq BOOLEAN
    BY <2>3, <2>4, <2>5, Zenon
  <2> QED BY <2>2, <2>6 DEF FileTypes
<1>5. CounterTypes'
  <2>1. CASE Open
    <3>1. /\ next_lsn' = MaxLsnOf(ReadAll(file)) + 1
          /\ last_record_lsn' = MaxLsnOf(ReadAll(file))
          /\ since_truncate' = MaxLsnOf(ReadAll(file))
          /\ since_checkpoint' = 0
      BY <2>1 DEF Open, Scan
    <3>2. MaxLsnOf(ReadAll(file)) \in 0..MaxLsn
      BY <1>2, <1>3, ReadAllReadable, MaxLsnBounds
    <3> QED BY <1>3, <3>1, <3>2 DEF CounterTypes
  <2>2. CASE ~Open
    <3>1. /\ next_lsn' = next_lsn /\ last_record_lsn' = last_record_lsn
          /\ since_truncate' = since_truncate
          /\ since_checkpoint' = since_checkpoint \/ since_checkpoint' = 0
      BY <2>2 DEF Elsewhere, CommitSync, CheckpointSync, SyncFails, TruncateCall, TruncateWrite,
                  TruncateFails, memory
    <3> QED BY <1>1, <1>3, <3>1 DEF CounterTypes
  <2> QED BY <2>1, <2>2
<1>6. GhostTypes'
  <2>1. call' \in CallType
    <3>1. call \in CallType
      BY <1>1 DEF GhostTypes
    <3> QED BY <3>1, ElsewhereMoves, CallsAreTyped
  <2>2. client' \in ClientType
    <3>1. client \in ClientType
      BY <1>1 DEF GhostTypes
    <3>2. \/ client' = client
          \/ CommitUnknown(call.txn)
          \/ client' = [client EXCEPT ![call.txn] = "acked"]
      BY ElsewhereMoves
    <3> QED BY <3>1, <3>2 DEF ClientType, CommitUnknown
  <2>3. exposed' \subseteq Txn /\ archived' \subseteq Txn
    <3>1. exposed \subseteq Txn /\ archived \subseteq Txn
      BY <1>1 DEF GhostTypes
    <3>2. exposed' # exposed => call.txn \in Txn
      BY ElsewhereMoves DEF CommitSync, InCall, CallOwned
    <3> QED BY <3>1, <3>2, ElsewhereMoves
  <2>4. budget' \in BudgetType
    <3>1. budget \in BudgetType
      BY <1>1 DEF GhostTypes
    <3> QED BY <1>3, <3>1, ElsewhereMoves, BudgetShrinks
  <2> QED BY <2>1, <2>2, <2>3, <2>4 DEF GhostTypes
<1>7. ConfigType'
  BY <1>1, ElsewhereMoves DEF ConfigType
<1> QED BY <1>4, <1>5, <1>6, <1>7, TypeOKByGroups, PTL

\* The records a truncation drops, and what the analysis says of them.
LEMMA DroppedRecords ==
    ASSUME file \in Seq(Item), RenameSafe, TruncateRename
    PROVE  \E dropped \in Seq(LogRecord) :
              /\ Len(dropped) = LastCheckpoint(ReadAll(file)) - 1
              /\ \A i \in 1..Len(dropped) : dropped[i] = file[i] /\ i \in 1..Len(file)
              /\ archived' = archived \cup Analyze(dropped).committed_txns
<1> DEFINE records == ReadAll(file)
           c == LastCheckpoint(records)
           dropped == SubSeq(records, 1, c - 1)
<1>1. /\ records \in Seq(LogRecord)
      /\ Len(records) <= Len(file)
      /\ \A i \in 1..Len(records) : records[i] = file[i]
  BY ReadAllReadable
<1>2. c > 1 /\ archived' = archived \cup Analyze(dropped).committed_txns
  BY DEF TruncateRename, RenameSafe, InCall
<1> HIDE DEF records
<1>3. /\ Len(file) \in Nat
      /\ Len(records) \in Nat
      /\ \A i \in 1..Len(records) : records[i] \in LogRecord
  BY <1>1, LenProperties, ElementOfSeq
<1>4. c \in 0..Len(records)
  BY <1>1, LastCheckpointIsOne
<1> HIDE DEF c
<1>5. \A i \in 1..(c - 1) : i \in 1..Len(records) /\ i \in 1..Len(file)
  BY <1>1, <1>3, <1>4
<1>6. \A i \in 1..(c - 1) : records[i] \in LogRecord
  BY <1>3, <1>5
<1>7. c - 1 \in Nat
  BY <1>2, <1>4
<1>8. /\ dropped \in Seq(LogRecord)
      /\ Len(dropped) = c - 1
      /\ \A i \in 1..(c - 1) : dropped[i] = records[i]
  BY <1>6, <1>7, SubSeqProperties
<1> HIDE DEF dropped
<1> QED BY <1>1, <1>2, <1>5, <1>8 DEF c, records

LEMMA RenameTypes ==
    ASSUME WriteAheadLogAssumption, TypeOK, CountsLsns, RenameSafe, Owned, TruncateRename
    PROVE  (TypeOK /\ CountsLsns)'
<1>1. ConfigType /\ FileTypes /\ CounterTypes /\ GhostTypes
  BY TypeOKByGroups
<1>2. file \in Seq(Item)
  BY <1>1 DEF FileTypes
<1>3. file' \in Seq(Item) /\ Len(file') \in Nat
  BY <1>2, RenameMoves, LenProperties
<1>4. /\ UNCHANGED <<config, up, next_lsn, last_record_lsn, since_checkpoint,
                     client, exposed>>
      /\ detached' \in {detached, TRUE} /\ since_truncate' \in {since_truncate, 0}
      /\ budget' \in BudgetType
      /\ synced' = Len(file') /\ call' = Idle
  <2>1. budget.errors > 0 => [budget EXCEPT !.errors = @ - 1] \in BudgetType
    BY <1>1, ConfigTypes, BudgetShrinks DEF GhostTypes
  <2> QED BY <1>1, <2>1 DEF TruncateRename, GhostTypes
<1>5. FileTypes'
  <2>1. {detached', up'} \subseteq BOOLEAN
    BY <1>1, <1>4 DEF FileTypes
  <2>2. synced' \in 0..Len(file')
    BY <1>3, <1>4
  <2> QED BY <1>3, <2>1, <2>2 DEF FileTypes
<1>6. CounterTypes'
  BY <1>1, <1>4 DEF CounterTypes
<1>7. archived' \subseteq Txn
  <2>1. PICK dropped \in Seq(LogRecord) :
           /\ \A i \in 1..Len(dropped) : dropped[i] = file[i] /\ i \in 1..Len(file)
           /\ archived' = archived \cup Analyze(dropped).committed_txns
    BY <1>2, DroppedRecords
  <2>2. \A i \in 1..Len(dropped) : /\ dropped[i].txn \in Txn \cup {NoTxn}
                                   /\ dropped[i].type = "Commit" => dropped[i].txn # NoTxn
    <3>1. \A i \in 1..Len(dropped) : dropped[i] \in LogRecord
      BY ElementOfSeq
    <3> QED BY <2>1, <3>1 DEF LogRecord, Owned
  <2>3. \A t : WonBy(dropped, Len(dropped), t) => t \in Txn
    BY <2>2 DEF WonBy
  <2>4. Analyze(dropped).committed_txns \subseteq Txn
    BY <2>3, AnalyzeLogIsExact
  <2>5. archived \subseteq Txn
    BY <1>1 DEF GhostTypes
  <2> QED BY <2>1, <2>4, <2>5
<1>8. GhostTypes'
  BY <1>1, <1>4, <1>7, CallsAreTyped DEF GhostTypes
<1>9. ConfigType'
  BY <1>1, <1>4 DEF ConfigType
<1> QED BY <1>5, <1>6, <1>8, <1>9, TypeOKByGroups, PTL

\* Every step keeps the types.
LEMMA NextTypes ==
    ASSUME WriteAheadLogAssumption, TypeOK, CountsLsns, Owned, CallOwned, RenameSafe, Next
    PROVE  (TypeOK /\ CountsLsns)'
BY NextByGroups, AppendsTypes, FailureTypes, ElsewhereTypes, RenameTypes

-----------------------------------------------------------------------------
(* Every step but a truncation makes the file grow, or cuts it behind what *)
(* is durable.                                                             *)

LEMMA AppendsGrow ==
    ASSUME WriteAheadLogAssumption, TypeOK, CountsLsns, Appends
    PROVE  Grows(Len(file))
<1>1. /\ file \in Seq(Item) /\ synced \in 0..Len(file) /\ Len(file) \in Nat
      /\ client \in ClientType
  BY LenProperties DEF TypeOK, Item, ClientType
<1>2. PICK t \in Txn \cup {NoTxn}, type \in {"Data", "Commit", "Abort", "Checkpoint"},
           next_call \in CallType : AppendsRecord(t, type, next_call)
  BY AppendsWrite, ConfigTypes
<1>3. /\ next_lsn' = next_lsn + 1
      /\ call'.txn = next_call.txn
      /\ Keeps(Len(file))
      /\ IF detached THEN file' = file
         ELSE /\ Len(file') = Len(file) + 1
              /\ file'[Len(file) + 1] = [lsn |-> next_lsn, txn |-> t, type |-> type]
  BY <1>2, WriteRecordMoves DEF AppendsRecord
<1>4. CASE detached
  BY <1>1, <1>3, <1>4 DEF Grows
<1>5. CASE ~detached
  <2> DEFINE n == Len(file)
             rec == file'[n + 1]
  <2>1. rec.lsn = next_lsn /\ rec.txn = t /\ rec.type = type /\ Len(file') = n + 1
    BY <1>3, <1>5
  <2>2. /\ up /\ up' = up
        /\ t = NoTxn <=> type = "Checkpoint"
        /\ call = Idle \/ type = "Checkpoint"
        /\ type = "Data" => /\ client[t] \in {"new", "running"}
                            /\ client' = [client EXCEPT ![t] = "running"]
        /\ type = "Abort" => client[t] = "running" /\ client' = [client EXCEPT ![t] = "aborted"]
        /\ type = "Commit" => client' = client /\ client[t] = "running" /\ next_call.txn = t
    BY <1>2 DEF AppendsRecord
  <2>3. t # NoTxn => t \in DOMAIN client
    BY <1>1 DEF ClientType
  <2>4. /\ type = "Data" => client'[t] = "running"
        /\ type = "Abort" => client'[t] = "aborted"
        /\ type = "Commit" => client'[t] = "running" /\ call'.txn = t
    BY <1>3, <2>2, <2>3
  <2>5. type \in {"Data", "Commit", "Abort", "Checkpoint"} /\ n = Len(file)
    OBVIOUS
  <2>6. Adds(n)
    <3> HIDE DEF n
    <3> USE DEF rec
    <3>1. file'[n + 1].lsn = next_lsn /\ up /\ up' /\ n = Len(file)
      BY <2>1, <2>2, <2>5
    <3>2. /\ file'[n + 1].type \in {"Data", "Commit", "Abort", "Checkpoint"}
          /\ file'[n + 1].txn = NoTxn <=> file'[n + 1].type = "Checkpoint"
      BY <2>1, <2>2
    <3>3. file'[n + 1].type = "Data" =>
                 /\ call = Idle
                 /\ client[file'[n + 1].txn] \in {"new", "running"}
                 /\ client'[file'[n + 1].txn] = "running"
      BY <2>1, <2>2, <2>4
    <3>4. file'[n + 1].type \in Ended =>
                 /\ call = Idle
                 /\ client[file'[n + 1].txn] = "running"
                 /\ \/ client'[file'[n + 1].txn] \in {"aborted", "lost"}
                    \/ /\ client'[file'[n + 1].txn] = "running"
                       /\ call'.txn = file'[n + 1].txn
      BY <2>1, <2>2, <2>4 DEF Ended
    <3> QED BY <1>3, <3>1, <3>2, <3>3, <3>4 DEF Adds
  <2> QED BY <1>1, <1>3, <2>1, <2>6 DEF Grows
<1> QED BY <1>4, <1>5

LEMMA SyncFailureGrows ==
    ASSUME WriteAheadLogAssumption, TypeOK, AppendSyncFailure
    PROVE  Grows(Len(file))
<1>1. /\ file \in Seq(Item) /\ synced \in 0..Len(file) /\ Len(file) \in Nat
      /\ client \in ClientType /\ NoTxn \notin Txn
  BY LenProperties, ConfigTypes DEF TypeOK, Item, ClientType
<1>2. PICK t \in Txn \cup {NoTxn}, type \in {"Data", "Commit", "Abort", "Checkpoint"} :
           AppendSyncFails(t, type)
  BY DEF AppendSyncFailure
<1>3. /\ Keeps(Len(file))
      /\ IF detached THEN file' = file
         ELSE /\ Len(file') = Len(file) + 1
              /\ file'[Len(file) + 1] = [lsn |-> next_lsn, txn |-> t, type |-> type]
  BY <1>2, AppendSyncFailureMoves
<1>4. CASE detached
  BY <1>1, <1>3, <1>4 DEF Grows
<1>5. CASE ~detached
  <2> DEFINE n == Len(file)
             rec == file'[n + 1]
  <2>1. rec.lsn = next_lsn /\ rec.txn = t /\ rec.type = type /\ Len(file') = n + 1
    BY <1>3, <1>5
  <2>2. /\ up /\ up' = up /\ next_lsn' = next_lsn
        /\ config.sync_on_every_record
        /\ t = NoTxn <=> type = "Checkpoint"
        /\ type # "Checkpoint" => call = Idle
        /\ type = "Data" => /\ client[t] \in {"new", "running"}
                            /\ client' = [client EXCEPT ![t] = "running"]
        /\ type \in {"Commit", "Abort"} => client[t] = "running" /\ CommitUnknown(t)
    BY <1>2 DEF AppendSyncFails, Ready, InCall, memory
  <2>3. t # NoTxn => t \in Txn /\ t \in DOMAIN client
    BY <1>1, <1>2 DEF ClientType
  <2>4. /\ type = "Data" => client'[t] = "running"
        /\ type \in {"Commit", "Abort"} => client'[t] = "lost"
    BY <2>2, <2>3 DEF CommitUnknown
  <2>5. Adds(n)
    <3>1. /\ file'[n + 1].lsn = next_lsn /\ up /\ up' /\ n = Len(file)
          /\ file'[n + 1].type \in {"Data", "Commit", "Abort", "Checkpoint"}
          /\ file'[n + 1].txn = NoTxn <=> file'[n + 1].type = "Checkpoint"
          /\ config.sync_on_every_record /\ next_lsn' = next_lsn
      BY <1>2, <2>1, <2>2
    <3>2. file'[n + 1].type = "Data" =>
                 /\ call = Idle
                 /\ client[file'[n + 1].txn] \in {"new", "running"}
                 /\ client'[file'[n + 1].txn] = "running"
      BY <2>1, <2>2, <2>4
    <3>3. file'[n + 1].type \in Ended =>
                 /\ call = Idle
                 /\ client[file'[n + 1].txn] = "running"
                 /\ client'[file'[n + 1].txn] = "lost"
      BY <2>1, <2>2, <2>4 DEF Ended
    <3> HIDE DEF n, rec
    <3> QED BY <3>1, <3>2, <3>3 DEF Adds
  <2> QED BY <1>1, <1>3, <2>1, <2>5 DEF Grows
<1> QED BY <1>4, <1>5

LEMMA NextGrows ==
    ASSUME WriteAheadLogAssumption, TypeOK, CountsLsns, Next, ~TruncateRename
    PROVE  \E n \in Nat : Grows(n)
<1>1. file \in Seq(Item) /\ synced \in 0..Len(file) /\ Len(file) \in Nat
  BY LenProperties DEF TypeOK, Item
<1>2. CASE Appends
  BY <1>1, <1>2, AppendsGrow
<1>3. CASE AppendSyncFailure
  BY <1>1, <1>3, SyncFailureGrows
<1>4. CASE AppendFails
  BY <1>1, <1>4, AppendFailsMoves DEF Grows
<1>5. CASE Elsewhere
  <2>1. file' = file
    BY <1>5, ElsewhereMoves
  <2>2. Keeps(Len(file))
    BY <1>1, <2>1 DEF Keeps
  <2> QED BY <1>1, <2>1, <2>2 DEF Grows
<1>6. CASE Crash
  <2>1. PICK n \in synced..Len(file) :
           /\ Keeps(n)
           /\ Len(file') = n \/ (Len(file') = n + 1 /\ file'[n + 1].type = "Torn")
    BY <1>1, <1>6, CrashMoves
  <2> QED BY <1>1, <2>1 DEF Grows
<1> QED BY <1>2, <1>3, <1>4, <1>5, <1>6, NextByGroups

-----------------------------------------------------------------------------
(* The calls. *)

LEMMA CallOwnedStep ==
    ASSUME WriteAheadLogAssumption, TypeOK, CountsLsns, CallOwned, Next
    PROVE  CallOwned'
<1>1. CASE Appends
  <2>1. PICK t \in Txn \cup {NoTxn}, type \in {"Data", "Commit", "Abort", "Checkpoint"},
             next_call \in CallType : AppendsRecord(t, type, next_call)
    BY <1>1, AppendsWrite, ConfigTypes
  <2>2. /\ since_checkpoint' = since_checkpoint + 1
        /\ IF AutoCheckpointDue THEN call'.op = "recurse" ELSE call' = next_call
    BY <2>1, WriteRecordMoves DEF AppendsRecord
  <2>3. /\ up' /\ config' = config
        /\ t = NoTxn <=> type = "Checkpoint"
        /\ type = "Commit" => next_call.op = "commit"
        /\ type = "Checkpoint" => next_call.op = "checkpoint"
        /\ type \in {"Data", "Abort"} => next_call = Idle
        /\ next_call.txn = IF type = "Commit" THEN t
                           ELSE IF call = Idle THEN NoTxn ELSE call.txn
        /\ call = Idle \/ call.op = "recurse"
    BY <2>1 DEF AppendsRecord
  <2>4. config.checkpoint_interval \in Nat /\ since_checkpoint \in Nat
    BY DEF TypeOK, WriteAheadLogAssumption, WalConfig
  <2>5. CASE AutoCheckpointDue
    <3>1. AutoCheckpointDue'
      BY <2>2, <2>3, <2>4, <2>5 DEF AutoCheckpointDue
    <3> QED BY <2>2, <2>3, <2>5, <3>1 DEF CallOwned
  <2>6. CASE ~AutoCheckpointDue
    <3>1. call = Idle
      BY <2>3, <2>6 DEF CallOwned
    <3>2. call' = next_call
      BY <2>2, <2>6
    <3> QED BY <2>3, <3>1, <3>2, CallsAreTyped DEF CallOwned
  <2> QED BY <2>5, <2>6
<1>2. CASE AppendSyncFailure
  <2>1. /\ up /\ up' = up /\ call' = Idle
    BY <1>2 DEF AppendSyncFailure, AppendSyncFails, Ready, InCall
  <2> QED BY <2>1, CallsAreTyped DEF CallOwned
<1>3. CASE AppendFails \/ TruncateRename \/ Crash
  <2>1. call' = Idle
    BY <1>3 DEF AppendFails, TruncateRename, Crash
  <2> QED BY <2>1, CallsAreTyped DEF CallOwned
<1>4. CASE Elsewhere
  <2>1. up'
    BY <1>4 DEF Elsewhere, Open, CommitSync, CheckpointSync, SyncFails, TruncateCall,
                TruncateWrite, TruncateFails, Ready, InCall
  <2>2. \/ call' \in {Idle, [op |-> "truncate", txn |-> NoTxn], [op |-> "rename", txn |-> NoTxn]}
        \/ call' = Idle
    BY <1>4, ElsewhereMoves DEF Open, CallOwned
  <2>3. call'.txn = NoTxn /\ call'.op \in {"idle", "truncate", "rename"}
    BY <2>2, CallsAreTyped
  <2> QED BY <2>1, <2>3 DEF CallOwned
<1> QED BY <1>1, <1>2, <1>3, <1>4, NextByGroups

\* Only the append of a commit starts to wait for an fsync.
LEMMA CommitWrittenStep ==
    ASSUME WriteAheadLogAssumption, TypeOK, CountsLsns, CallOwned, Next
    PROVE  CommitWritten'
<1>1. CASE Appends
  <2>1. PICK t \in Txn \cup {NoTxn}, type \in {"Data", "Commit", "Abort", "Checkpoint"},
             next_call \in CallType : AppendsRecord(t, type, next_call)
    BY <1>1, AppendsWrite, ConfigTypes
  <2>2. /\ IF AutoCheckpointDue THEN call'.op = "recurse" ELSE call' = next_call
        /\ IF detached THEN file' = file
           ELSE /\ Len(file') = Len(file) + 1
                /\ file'[Len(file) + 1] = [lsn |-> next_lsn, txn |-> t, type |-> type]
    BY <2>1, WriteRecordMoves DEF AppendsRecord
  <2>3. /\ detached' = detached
        /\ type = "Checkpoint" => next_call.op = "checkpoint"
        /\ type \in {"Data", "Abort"} => next_call = Idle
        /\ type = "Commit" => next_call.txn = t
    BY <2>1 DEF AppendsRecord
  <2>4. SUFFICES ASSUME call'.op = "commit", ~detached
                 PROVE  \E i \in 1..Len(file') : /\ file'[i].txn = call'.txn
                                                 /\ file'[i].type = "Commit"
    BY <2>3 DEF CommitWritten
  <2>5. call' = next_call /\ next_call.op = "commit"
    BY <2>2, <2>4
  <2>6. type = "Commit" /\ call'.txn = t
    BY <2>3, <2>5, CallsAreTyped
  <2>7. Len(file) \in Nat
    BY LenProperties DEF TypeOK
  <2>8. Len(file) + 1 \in 1..Len(file')
    BY <2>2, <2>4, <2>7
  <2> QED BY <2>2, <2>4, <2>6, <2>8
<1>2. CASE ~Appends
  <2>1. call'.op # "commit"
    <3>1. CASE AppendSyncFailure \/ AppendFails \/ TruncateRename \/ Crash
      <4>1. call' = Idle
        BY <3>1 DEF AppendSyncFailure, AppendSyncFails, AppendFails, TruncateRename, Crash, Ready
      <4> QED BY <4>1, CallsAreTyped
    <3>2. CASE Elsewhere
      <4>1. \/ call' \in {Idle, [op |-> "truncate", txn |-> NoTxn], [op |-> "rename", txn |-> NoTxn]}
            \/ call' = Idle
        BY <3>2, ElsewhereMoves DEF Open, CallOwned
      <4> QED BY <4>1, CallsAreTyped
    <3> QED BY <1>2, <3>1, <3>2, NextByGroups
  <2> QED BY <2>1 DEF CommitWritten
<1> QED BY <1>1, <1>2

LEMMA RenameBegins ==
    ASSUME Elsewhere, call'.op = "rename"
    PROVE  Open \/ TruncateWrite
<1>1. CASE CommitSync \/ CheckpointSync \/ SyncFails \/ TruncateCall \/ TruncateFails
  <2>1. call' = Idle \/ call' = [op |-> "truncate", txn |-> NoTxn]
    BY <1>1 DEF CommitSync, CheckpointSync, SyncFails, TruncateCall, TruncateFails
  <2> QED BY <2>1, CallsAreTyped
<1> QED BY <1>1 DEF Elsewhere

\* Only a call that has found something to drop goes on to the rename.
LEMMA RenameSafeStep ==
    ASSUME WriteAheadLogAssumption, TypeOK, CountsLsns, CallOwned, Next
    PROVE  RenameSafe'
<1>1. CASE TruncateWrite
  <2>1. /\ file' = file
        /\ call' = IF detached \/ LastCheckpoint(ReadAll(file)) <= 1 THEN Idle
                   ELSE [op |-> "rename", txn |-> NoTxn]
    BY <1>1 DEF TruncateWrite
  <2>2. file \in Seq(Item)
    BY DEF TypeOK, Item
  <2>3. LastCheckpoint(ReadAll(file)) \in 0..Len(ReadAll(file)) /\ Len(ReadAll(file)) \in Nat
    BY <2>2, ReadAllReadable, LastCheckpointIsOne, LenProperties
  <2>4. call'.op = "rename" => LastCheckpoint(ReadAll(file)) > 1
    BY <2>1, <2>3, CallsAreTyped
  <2> QED BY <2>1, <2>4 DEF RenameSafe
<1>2. CASE ~TruncateWrite
  <2>1. call'.op # "rename"
    <3>1. CASE AppendSyncFailure \/ AppendFails \/ TruncateRename \/ Crash
      <4>1. call' = Idle
        BY <3>1 DEF AppendSyncFailure, AppendSyncFails, AppendFails, TruncateRename, Crash, Ready
      <4> QED BY <4>1, CallsAreTyped
    <3>2. CASE Elsewhere
      <4>1. call'.op = "rename" => Open
        BY <1>2, <3>2, RenameBegins
      <4>2. Open => call' = Idle
        BY DEF Open, CallOwned
      <4> QED BY <4>1, <4>2, CallsAreTyped
    <3>3. CASE Appends
      <4>1. PICK t \in Txn \cup {NoTxn}, type \in {"Data", "Commit", "Abort", "Checkpoint"},
                 next_call \in CallType : AppendsRecord(t, type, next_call)
        BY <3>3, AppendsWrite, ConfigTypes
      <4>2. IF AutoCheckpointDue THEN call'.op = "recurse" ELSE call' = next_call
        BY <4>1, WriteRecordMoves DEF AppendsRecord
      <4>3. /\ type = "Commit" => next_call.op = "commit"
            /\ type = "Checkpoint" => next_call.op = "checkpoint"
            /\ type \in {"Data", "Abort"} => next_call = Idle
        BY <4>1 DEF AppendsRecord
      <4>4. next_call.op # "rename"
        BY <4>3, CallsAreTyped
      <4> QED BY <4>2, <4>4
    <3> QED BY <3>1, <3>2, <3>3, NextByGroups
  <2> QED BY <2>1 DEF RenameSafe
<1> QED BY <1>1, <1>2

-----------------------------------------------------------------------------
(* The records of the file. *)

\* An item of the file after a step that does not replace the file.
LEMMA ItemsGrow ==
    ASSUME NEW n \in Nat, Grows(n), file' \in Seq(Item), NEW i \in 1..Len(file')
    PROVE  \/ /\ i \in 1..n /\ i \in 1..Len(file)
              /\ file'[i] = file[i]
              /\ Readable(file', i) <=> Readable(file, i)
           \/ /\ i = n + 1 /\ Len(file') = n + 1
              /\ file'[i].type = "Torn" /\ file'[i] = Torn /\ ~Readable(file', i)
           \/ /\ i = n + 1 /\ Len(file') = n + 1
              /\ Adds(n)
<1>1. Len(file') \in Nat /\ (Len(file') = n \/ Len(file') = n + 1)
  BY LenProperties DEF Grows
<1>2. i \in 1..n \/ (i = n + 1 /\ Len(file') = n + 1)
  BY <1>1
<1>3. file'[i] \in Item
  BY ElementOfSeq
<1>4. file'[i].type = "Torn" => file'[i] = Torn
  BY <1>3 DEF Item, LogRecord
<1>5. i \in 1..i
  BY <1>1
<1>6. file'[i] = Torn => ~Readable(file', i)
  BY <1>5 DEF Readable
<1>7. n <= Len(file) /\ Keeps(n)
  BY DEF Grows, Keeps
<1>8. CASE i \in 1..n
  <2>1. i \in 1..Len(file)
    BY <1>7, <1>8
  <2> QED BY <1>7, <1>8, <2>1 DEF Keeps
<1>9. CASE i = n + 1 /\ Len(file') = n + 1
  BY <1>4, <1>6, <1>9 DEF Grows
<1> QED BY <1>2, <1>8, <1>9

LEMMA OwnedStep ==
    ASSUME WriteAheadLogAssumption, TypeOK, TypeOK', CountsLsns, RenameSafe, Owned, Next
    PROVE  Owned'
<1>1. file \in Seq(Item) /\ file' \in Seq(Item)
  BY DEF TypeOK, Item
<1>2. SUFFICES ASSUME NEW i \in 1..Len(file')
               PROVE  file'[i].txn = NoTxn <=> file'[i].type \in {"Checkpoint", "Torn"}
  BY DEF Owned
<1>3. CASE TruncateRename
  <2>1. PICK d \in Nat : d + i \in 1..Len(file) /\ file'[i] = file[d + i]
    BY <1>1, <1>3, RenameMoves
  <2> QED BY <2>1 DEF Owned
<1>4. CASE ~TruncateRename
  <2>1. PICK n \in Nat : Grows(n)
    BY <1>4, NextGrows
  <2>2. CASE i \in 1..Len(file) /\ file'[i] = file[i]
    BY <2>2 DEF Owned
  <2>3. CASE file'[i] = Torn
    BY <2>3 DEF Torn
  <2>4. CASE i = n + 1 /\ Adds(n)
    BY <2>4 DEF Adds
  <2> QED BY <1>1, <2>1, <2>2, <2>3, <2>4, ItemsGrow
<1> QED BY <1>3, <1>4

\* The next LSN moves only when the log is opened or a record written.
LEMMA LsnMoves ==
    ASSUME WriteAheadLogAssumption, TypeOK, CountsLsns, Next
    PROVE  /\ config' = config
           /\ up' => \/ Open
                     \/ up /\ next_lsn <= next_lsn'
<1>1. next_lsn \in Nat
  BY DEF TypeOK
<1>2. CASE Appends
  <2>1. PICK t \in Txn \cup {NoTxn}, type \in {"Data", "Commit", "Abort", "Checkpoint"},
             next_call \in CallType : AppendsRecord(t, type, next_call)
    BY <1>2, AppendsWrite, ConfigTypes
  <2>2. next_lsn' = next_lsn + 1
    BY <2>1, WriteRecordMoves DEF AppendsRecord
  <2>3. up' = up /\ config' = config
    BY <2>1 DEF AppendsRecord
  <2> QED BY <1>1, <2>2, <2>3
<1>3. CASE AppendSyncFailure \/ AppendFails
  <2>1. up' = up /\ next_lsn' = next_lsn /\ config' = config
    BY <1>3 DEF AppendSyncFailure, AppendSyncFails, AppendFails, memory
  <2> QED BY <1>1, <2>1
<1>4. CASE Elsewhere
  BY <1>1, <1>4, ElsewhereMoves
<1>5. CASE TruncateRename
  BY <1>1, <1>5 DEF TruncateRename
<1>6. CASE Crash
  BY <1>6 DEF Crash
<1> QED BY <1>2, <1>3, <1>4, <1>5, <1>6, NextByGroups

LEMMA OrderStep ==
    ASSUME WriteAheadLogAssumption, TypeOK, TypeOK', CountsLsns, RenameSafe, Ordered, Ahead, Next
    PROVE  Ordered' /\ Ahead'
<1>0. file \in Seq(Item) /\ file' \in Seq(Item)
  BY DEF TypeOK, Item
<1>1. /\ next_lsn \in Nat /\ next_lsn' \in Nat
      /\ Len(file) \in Nat /\ Len(file') \in Nat
  BY <1>0, LenProperties DEF TypeOK
<1>2. /\ config' = config
      /\ up' => Open \/ (up /\ next_lsn <= next_lsn')
  BY LsnMoves
<1>3. slack \in 0..1 /\ slack' = slack /\ (config.sync_on_every_record => slack = 1)
  BY <1>2 DEF slack
<1>4. /\ \A i \in 1..Len(file) : file[i].lsn \in Nat
      /\ \A i \in 1..Len(file') : file'[i].lsn \in Nat
  <2>1. \A rec \in Item : rec.lsn \in Nat
    BY DEF Item, LogRecord, Torn
  <2> QED BY <1>0, <2>1, ElementOfSeq
<1>5. \A i \in 1..Len(file), j \in 1..Len(file) :
         i < j /\ Readable(file, j) => file[i].lsn < file[j].lsn + slack
  BY DEF Ordered
<1>6. up => \A i \in 1..Len(file) : Readable(file, i) => file[i].lsn < next_lsn + slack
  BY DEF Ahead
<1> HIDE DEF slack
<1>7. CASE TruncateRename
  <2>1. PICK d \in Nat : \A i \in 1..Len(file') : /\ d + i \in 1..Len(file)
                                                  /\ Readable(file, d + i)
                                                  /\ file'[i] = file[d + i]
    BY <1>0, <1>7, RenameMoves
  <2>2. up' = up /\ next_lsn' = next_lsn
    BY <1>7 DEF TruncateRename
  <2>3. \A i \in 1..Len(file'), j \in 1..Len(file') :
           i < j => file'[i].lsn < file'[j].lsn + slack
    <3> SUFFICES ASSUME NEW i \in 1..Len(file'), NEW j \in 1..Len(file'), i < j
                 PROVE  file'[i].lsn < file'[j].lsn + slack
      OBVIOUS
    <3>1. d + i < d + j
      BY <1>1
    <3> QED BY <1>5, <2>1, <3>1
  <2>4. up' => \A i \in 1..Len(file') : file'[i].lsn < next_lsn' + slack
    BY <1>6, <2>1, <2>2
  <2> QED BY <1>3, <2>3, <2>4 DEF Ordered, Ahead
<1>8. CASE ~TruncateRename
  <2>1. PICK n \in Nat : Grows(n)
    BY <1>8, NextGrows
  <2>2. \A i \in 1..Len(file') : Readable(file', i) =>
           \/ i \in 1..n /\ i \in 1..Len(file) /\ file'[i] = file[i] /\ Readable(file, i)
           \/ i = n + 1 /\ Adds(n)
    BY <1>0, <2>1, ItemsGrow
  <2>3. \A j \in 1..Len(file') : Readable(file', j) =>
           \A i \in 1..Len(file') : i < j => Readable(file', i)
    BY <1>1 DEF Readable
  <2>4. ASSUME Adds(n)
        PROVE  /\ file'[n + 1].lsn = next_lsn /\ up
               /\ next_lsn < next_lsn' + slack
    <3>1. /\ file'[n + 1].lsn = next_lsn /\ up
          /\ next_lsn' = next_lsn + 1 \/ (config.sync_on_every_record /\ next_lsn' = next_lsn)
      BY <2>4 DEF Adds
    <3>2. CASE next_lsn' = next_lsn + 1
      BY <1>1, <1>3, <3>1, <3>2
    <3>3. CASE slack = 1 /\ next_lsn' = next_lsn
      BY <1>1, <3>1, <3>3
    <3> QED BY <1>3, <3>1, <3>2, <3>3
  <2>5. \A i \in 1..Len(file'), j \in 1..Len(file') :
           i < j /\ Readable(file', j) => file'[i].lsn < file'[j].lsn + slack
    <3> SUFFICES ASSUME NEW i \in 1..Len(file'), NEW j \in 1..Len(file'),
                        i < j, Readable(file', j)
                 PROVE  file'[i].lsn < file'[j].lsn + slack
      OBVIOUS
    <3>1. Readable(file', i)
      BY <2>3
    <3>2. i # n + 1
      <4>1. j \in 1..n \/ j = n + 1
        BY <2>2
      <4> QED BY <1>1, <4>1
    <3>3. i \in 1..Len(file) /\ file'[i] = file[i] /\ Readable(file, i)
      BY <2>2, <3>1, <3>2
    <3>4. CASE j \in 1..Len(file) /\ file'[j] = file[j] /\ Readable(file, j)
      BY <1>5, <3>3, <3>4
    <3>5. CASE j = n + 1 /\ Adds(n)
      BY <1>6, <2>4, <3>3, <3>5
    <3> QED BY <2>2, <3>4, <3>5
  <2>6. Ordered'
    BY <1>3, <2>5 DEF Ordered
  <2>7. Ahead'
    <3>1. SUFFICES ASSUME up', NEW i \in 1..Len(file'), Readable(file', i)
                   PROVE  file'[i].lsn < next_lsn' + slack'
      BY DEF Ahead
    <3>2. CASE Open
      <4>1. /\ file' = file
            /\ next_lsn' = MaxLsnOf(ReadAll(file)) + 1
        BY <3>2 DEF Open, Scan
      <4> DEFINE records == ReadAll(file)
      <4>2. /\ records \in Seq(LogRecord)
            /\ \A k \in 1..Len(records) : records[k] = file[k]
            /\ \A k \in 1..Len(file) : Readable(file, k) <=> k <= Len(records)
        BY <1>0, ReadAllReadable
      <4>3. /\ MaxLsnOf(records) \in 0..MaxLsn /\ MaxLsn \in Nat
            /\ \A k \in 1..Len(records) : records[k].lsn <= MaxLsnOf(records)
        BY <4>2, ConfigTypes, MaxLsnBounds
      <4> HIDE DEF records
      <4>4. Len(records) \in Nat
        BY <4>2, LenProperties
      <4>5. i \in 1..Len(records)
        BY <1>1, <3>1, <4>1, <4>2, <4>4
      <4>6. file[i].lsn <= MaxLsnOf(records)
        BY <4>2, <4>3, <4>5
      <4>7. file[i].lsn \in Nat
        BY <1>4, <4>1
      <4> QED BY <1>3, <4>1, <4>3, <4>6, <4>7 DEF records
    <3>3. CASE up /\ next_lsn <= next_lsn'
      <4>1. CASE i \in 1..Len(file) /\ file'[i] = file[i] /\ Readable(file, i)
        <5>1. file[i].lsn < next_lsn + slack /\ file[i].lsn \in Nat
          BY <1>4, <1>6, <3>3, <4>1
        <5>2. \A a, b, c, k \in Nat : a < b + k /\ b <= c => a < c + k
          OBVIOUS
        <5>3. slack \in Nat /\ slack' = slack
          BY <1>3
        <5>4. file[i].lsn < next_lsn' + slack
          BY <1>1, <3>3, <5>1, <5>2, <5>3
        <5> QED BY <4>1, <5>3, <5>4
      <4>2. CASE i = n + 1 /\ Adds(n)
        BY <1>3, <2>4, <4>2
      <4> QED BY <2>2, <3>1, <4>1, <4>2
    <3> QED BY <1>2, <3>1, <3>2, <3>3
  <2> QED BY <2>6, <2>7
<1> QED BY <1>7, <1>8

-----------------------------------------------------------------------------
(* What the clients know. *)

ClientEnds == {"acked", "aborted", "lost"}

\* A transaction that has begun stays begun, an outcome stays an outcome, and a
\* commit in progress stays in progress or gets its outcome.
LEMMA ClientMoves ==
    ASSUME WriteAheadLogAssumption, TypeOK, CountsLsns, CallOwned, Next, NEW t \in Txn
    PROVE  /\ client'[t] = "new" => client[t] = "new"
           /\ client[t] \in ClientEnds => client'[t] \in ClientEnds
           /\ client[t] = "running" /\ call.txn = t =>
                 \/ client'[t] \in ClientEnds
                 \/ client'[t] = "running" /\ call'.txn = t
<1>1. /\ client \in ClientType /\ NoTxn \notin Txn
      /\ client[t] \in {"new", "running", "acked", "aborted", "lost"}
  BY ConfigTypes DEF TypeOK, ClientType
<1>2. CASE Appends
  <2>1. PICK u \in Txn \cup {NoTxn}, type \in {"Data", "Commit", "Abort", "Checkpoint"},
             next_call \in CallType : AppendsRecord(u, type, next_call)
    BY <1>2, AppendsWrite, ConfigTypes
  <2>2. call'.txn = next_call.txn
    BY <2>1, WriteRecordMoves DEF AppendsRecord
  <2>3. /\ u = NoTxn <=> type = "Checkpoint"
        /\ type = "Data" => /\ client[u] \in {"new", "running"}
                            /\ client' = [client EXCEPT ![u] = "running"]
        /\ type = "Abort" => client' = [client EXCEPT ![u] = "aborted"]
        /\ type \in {"Commit", "Checkpoint"} => client' = client
        /\ next_call.txn = IF type = "Commit" THEN u
                           ELSE IF call = Idle THEN NoTxn ELSE call.txn
        /\ call = Idle \/ (call.op = "recurse" /\ type = "Checkpoint")
    BY <2>1 DEF AppendsRecord
  <2>4. call.txn = t => call # Idle
    BY <1>1, CallsAreTyped
  <2>5. call.txn = t => client' = client /\ call'.txn = t
    BY <2>2, <2>3, <2>4
  <2>6. \/ client' = client
        \/ client[u] \in {"new", "running"} /\ client' = [client EXCEPT ![u] = "running"]
        \/ client' = [client EXCEPT ![u] = "aborted"]
    BY <2>3
  <2>7. DOMAIN client = Txn
    BY <1>1 DEF ClientType
  <2>8. /\ client'[t] = "new" => client[t] = "new"
        /\ client[t] \in ClientEnds => client'[t] \in ClientEnds
    <3>1. CASE u = t
      BY <2>6, <2>7, <3>1 DEF ClientEnds
    <3>2. CASE u # t
      <4>1. client'[t] = client[t]
        BY <1>1, <2>6, <3>2 DEF ClientType
      <4> QED BY <4>1
    <3> QED BY <3>1, <3>2
  <2> QED BY <2>5, <2>8
<1>3. CASE AppendSyncFailure
  <2>1. PICK u \in Txn \cup {NoTxn}, type \in {"Data", "Commit", "Abort", "Checkpoint"} :
           AppendSyncFails(u, type)
    BY <1>3 DEF AppendSyncFailure
  <2>2. /\ u = NoTxn <=> type = "Checkpoint"
        /\ type # "Checkpoint" => call = Idle
        /\ IF type = "Data"
           THEN client[u] \in {"new", "running"} /\ client' = [client EXCEPT ![u] = "running"]
           ELSE CommitUnknown(IF type = "Checkpoint" THEN call.txn ELSE u)
    BY <2>1 DEF AppendSyncFails, Ready, InCall
  <2>3. CASE type = "Checkpoint"
    <3>1. client'[t] = IF t = call.txn THEN "lost" ELSE client[t]
      BY <2>2, <2>3 DEF CommitUnknown
    <3> QED BY <3>1 DEF ClientEnds
  <2>4. CASE type # "Checkpoint"
    <3>1. call.txn # t
      BY <1>1, <2>2, <2>4, CallsAreTyped
    <3>2. \/ client'[t] = client[t] \/ client'[t] = "lost"
          \/ client[t] \in {"new", "running"} /\ client'[t] = "running"
      BY <1>1, <2>2, <2>4 DEF CommitUnknown, ClientType
    <3> QED BY <3>1, <3>2 DEF ClientEnds
  <2> QED BY <2>3, <2>4
<1>4. CASE AppendFails
  <2>1. CommitUnknown(call.txn)
    BY <1>4 DEF AppendFails
  <2>2. client'[t] = IF t = call.txn THEN "lost" ELSE client[t]
    BY <2>1 DEF CommitUnknown
  <2> QED BY <2>2 DEF ClientEnds
<1>5. CASE Elsewhere
  <2>1. CASE call.txn # t
    <3>1. \/ client' = client
          \/ CommitUnknown(call.txn)
          \/ client' = [client EXCEPT ![call.txn] = "acked"]
      BY <1>5, ElsewhereMoves
    <3>2. client'[t] = client[t]
      BY <1>1, <2>1, <3>1 DEF CommitUnknown, ClientType
    <3> QED BY <2>1, <3>2
  <2>2. CASE call.txn = t
    <3>1. call.op \notin {"idle", "checkpoint", "truncate", "rename"}
      BY <1>1, <2>2 DEF CallOwned
    <3>2. CommitSync \/ SyncFails
      <4>1. call # Idle /\ up
        BY <3>1, CallsAreTyped DEF CallOwned
      <4> QED BY <1>5, <3>1, <4>1 DEF Elsewhere, Open, CheckpointSync, TruncateCall, TruncateWrite,
                                 TruncateFails, Ready, InCall
    <3>3. client' = [client EXCEPT ![t] = "acked"] \/ CommitUnknown(t)
      BY <2>2, <3>2 DEF CommitSync, SyncFails
    <3>4. client'[t] \in {"acked", "lost"}
      BY <1>1, <3>3 DEF CommitUnknown, ClientType
    <3> QED BY <3>4 DEF ClientEnds
  <2> QED BY <2>1, <2>2
<1>6. CASE TruncateRename
  <2>1. client' = client /\ call.op = "rename"
    BY <1>6 DEF TruncateRename, InCall
  <2>2. call.txn # t
    BY <1>1, <2>1 DEF CallOwned
  <2> QED BY <2>1, <2>2
<1>7. CASE Crash
  <2>1. client' = [u \in Txn |-> IF client[u] = "running" THEN "lost" ELSE client[u]]
    BY <1>7 DEF Crash
  <2>2. client'[t] = IF client[t] = "running" THEN "lost" ELSE client[t]
    BY <2>1
  <2> QED BY <2>2 DEF ClientEnds
<1> QED BY <1>2, <1>3, <1>4, <1>5, <1>6, <1>7, NextByGroups

\* The transaction of a record.
LEMMA RecordOwner ==
    ASSUME file \in Seq(Item), Owned, NEW i \in 1..Len(file), file[i].type \in {"Data", "Commit", "Abort"}
    PROVE  file[i].txn \in Txn
<1>1. file[i] \in Item
  BY ElementOfSeq
<1>2. file[i].txn # NoTxn
  BY DEF Owned
<1> QED BY <1>1, <1>2 DEF Item, LogRecord, Torn

KnownBy(clients, waiting, rec) ==
    /\ rec.type = "Data" => clients[rec.txn] # "new"
    /\ rec.type \in Ended =>
          \/ clients[rec.txn] \in ClientEnds
          \/ clients[rec.txn] = "running" /\ waiting = rec.txn

LEMMA KnownStep ==
    ASSUME WriteAheadLogAssumption, TypeOK, TypeOK', CountsLsns, CallOwned, RenameSafe, Owned,
           Known, Next
    PROVE  Known'
<1>1. file \in Seq(Item) /\ file' \in Seq(Item)
  BY DEF TypeOK, Item
<1>2. \A i \in 1..Len(file) : KnownBy(client, call.txn, file[i])
  BY DEF Known, KnownBy, ClientEnds
<1>3. SUFFICES ASSUME NEW i \in 1..Len(file')
               PROVE  KnownBy(client', call'.txn, file'[i])
  BY DEF Known, KnownBy, ClientEnds
<1>4. ASSUME NEW k \in 1..Len(file), file'[i] = file[k]
      PROVE  KnownBy(client', call'.txn, file'[i])
  <2>1. CASE file[k].type \in {"Data", "Commit", "Abort"}
    <3> DEFINE t == file[k].txn
    <3>1. t \in Txn
      BY <1>1, <2>1, RecordOwner
    <3>2. KnownBy(client, call.txn, file[k])
      BY <1>2
    <3>3. /\ client'[t] = "new" => client[t] = "new"
          /\ client[t] \in ClientEnds => client'[t] \in ClientEnds
          /\ client[t] = "running" /\ call.txn = t =>
                \/ client'[t] \in ClientEnds
                \/ client'[t] = "running" /\ call'.txn = t
      <4> HIDE DEF t
      <4> QED BY <3>1, ClientMoves
    <3>4. file[k].type = "Data" => client'[t] # "new"
      BY <3>2, <3>3 DEF KnownBy
    <3>5. file[k].type \in Ended => \/ client'[t] \in ClientEnds
                                    \/ client'[t] = "running" /\ call'.txn = t
      BY <3>2, <3>3 DEF KnownBy
    <3>6. KnownBy(client', call'.txn, file[k])
      BY <3>4, <3>5 DEF KnownBy
    <3> QED BY <1>4, <3>6
  <2>2. CASE file[k].type \notin {"Data", "Commit", "Abort"}
    BY <1>4, <2>2 DEF KnownBy, Ended
  <2> QED BY <2>1, <2>2
<1>5. CASE TruncateRename
  <2>1. PICK d \in Nat : d + i \in 1..Len(file) /\ file'[i] = file[d + i]
    BY <1>1, <1>5, RenameMoves
  <2> QED BY <1>4, <2>1
<1>6. CASE ~TruncateRename
  <2>1. PICK n \in Nat : Grows(n)
    BY <1>6, NextGrows
  <2>2. CASE i \in 1..Len(file) /\ file'[i] = file[i]
    BY <1>4, <2>2
  <2>3. CASE file'[i].type = "Torn"
    BY <2>3 DEF KnownBy, Ended
  <2>4. CASE i = n + 1 /\ Adds(n)
    BY <2>4 DEF Adds, KnownBy, ClientEnds
  <2> QED BY <1>1, <2>1, <2>2, <2>3, <2>4, ItemsGrow
<1> QED BY <1>5, <1>6

LEMMA EndIsLastStep ==
    ASSUME WriteAheadLogAssumption, TypeOK, TypeOK', CountsLsns, CallOwned, RenameSafe, Owned,
           Known, EndIsLast, Next
    PROVE  EndIsLast'
<1>1. /\ file \in Seq(Item) /\ file' \in Seq(Item)
      /\ NoTxn \notin Txn
  BY ConfigTypes DEF TypeOK, Item
<1>2. SUFFICES ASSUME NEW i \in 1..Len(file'), NEW j \in 1..Len(file'), i < j,
                      file'[i].type \in Ended, file'[j].type \in {"Data", "Commit", "Abort"},
                      file'[j].txn = file'[i].txn
               PROVE  FALSE
  BY DEF EndIsLast
<1>3. Len(file') \in Nat
  BY <1>1, LenProperties
<1>4. CASE TruncateRename
  <2>1. PICK d \in Nat : \A k \in 1..Len(file') : /\ d + k \in 1..Len(file)
                                                  /\ file'[k] = file[d + k]
    BY <1>1, <1>4, RenameMoves
  <2>2. d + i < d + j
    BY <1>2, <1>3
  <2> QED BY <1>2, <2>1, <2>2 DEF EndIsLast
<1>5. CASE ~TruncateRename
  <2>1. PICK n \in Nat : Grows(n)
    BY <1>5, NextGrows
  <2>2. \A k \in 1..Len(file') : \/ /\ k \in 1..n /\ k \in 1..Len(file)
                                    /\ file'[k] = file[k]
                                 \/ k = n + 1 /\ file'[k].type = "Torn"
                                 \/ k = n + 1 /\ Adds(n)
    BY <1>1, <2>1, ItemsGrow
  <2>3. i # n + 1
    <3>1. j \in 1..n \/ j = n + 1
      BY <2>2
    <3> QED BY <1>2, <1>3, <3>1
  <2>4. i \in 1..Len(file) /\ file'[i] = file[i]
    BY <2>2, <2>3
  <2>5. CASE j \in 1..Len(file) /\ file'[j] = file[j]
    BY <1>2, <2>4, <2>5 DEF EndIsLast
  <2>6. CASE j = n + 1 /\ Adds(n)
    <3> DEFINE t == file'[j].txn
    <3>1. call = Idle /\ client[t] \in {"new", "running"}
      BY <1>2, <2>6 DEF Adds, Ended
    <3>2. t \in Txn
      BY <1>1, <1>2, <2>4, RecordOwner DEF Ended
    <3>3. \/ client[t] \in {"acked", "aborted", "lost"}
          \/ client[t] = "running" /\ call.txn = t
      BY <1>2, <2>4 DEF Known
    <3> QED BY <1>1, <3>1, <3>2, <3>3, CallsAreTyped
  <2> QED BY <1>2, <2>2, <2>5, <2>6
<1> QED BY <1>4, <1>5

-----------------------------------------------------------------------------
(* Durability. *)

\* What is durable stays durable until a truncation rewrites the file.
LEMMA SyncedMoves ==
    ASSUME WriteAheadLogAssumption, TypeOK, CountsLsns, Next, ~TruncateRename
    PROVE  synced <= synced'
<1>1. /\ file \in Seq(Item) /\ synced \in Nat /\ synced <= Len(file)
      /\ Len(file) \in Nat
  <2>1. file \in Seq(Item) /\ synced \in 0..Len(file)
    BY DEF TypeOK, Item
  <2> QED BY <2>1, LenProperties
<1>2. CASE Appends
  <2>1. PICK t \in Txn \cup {NoTxn}, type \in {"Data", "Commit", "Abort", "Checkpoint"},
             next_call \in CallType : AppendsRecord(t, type, next_call)
    BY <1>2, AppendsWrite, ConfigTypes
  <2> QED BY <2>1, WriteRecordMoves DEF AppendsRecord
<1>3. CASE AppendSyncFailure \/ AppendFails
  <2>1. synced' = synced
    BY <1>3 DEF AppendSyncFailure, AppendSyncFails, AppendFails
  <2> QED BY <1>1, <2>1
<1>4. CASE Elsewhere
  <2>1. synced' = synced \/ synced' = Len(file)
    BY <1>4, ElsewhereMoves
  <2> QED BY <1>1, <2>1
<1>5. CASE Crash
  <2>0. synced \in 0..Len(file)
    BY <1>1
  <2>1. file' \in Seq(Item) /\ synced' = Len(file')
    <3>1. synced' = Len(file')
      BY <1>5 DEF Crash
    <3> QED BY <1>1, <1>5, <2>0, <3>1, CrashMoves
  <2>2. PICK n \in synced..Len(file) : Keeps(n)
    BY <1>1, <1>5, <2>0, CrashMoves
  <2>3. synced <= n /\ n \in Nat /\ n <= Len(file')
    BY <1>1, <2>2 DEF Keeps
  <2>4. Len(file') \in Nat
    BY <2>1, LenProperties
  <2> QED BY <1>1, <2>1, <2>3, <2>4
<1> QED BY <1>2, <1>3, <1>4, <1>5, NextByGroups

\* Nothing leaves the sets of the truncated and of the exposed commits, and the
\* only step that acknowledges a commit is the fsync of commit.
LEMMA AckMoves ==
    ASSUME WriteAheadLogAssumption, TypeOK, CountsLsns, CallOwned, Next
    PROVE  /\ archived \subseteq archived' /\ exposed \subseteq exposed'
           /\ \A t \in Txn : client'[t] = "acked" =>
                 client[t] = "acked" \/ (CommitSync /\ call.txn = t)
<1>1. client \in ClientType
  BY DEF TypeOK, ClientType
<1>2. CASE Appends
  <2>1. PICK u \in Txn \cup {NoTxn}, type \in {"Data", "Commit", "Abort", "Checkpoint"},
             next_call \in CallType : AppendsRecord(u, type, next_call)
    BY <1>2, AppendsWrite, ConfigTypes
  <2>2. /\ archived' = archived /\ exposed' = exposed
        /\ \/ client' = client
           \/ client' = [client EXCEPT ![u] = "running"]
           \/ client' = [client EXCEPT ![u] = "aborted"]
    BY <2>1 DEF AppendsRecord
  <2> QED BY <1>1, <2>2 DEF ClientType
<1>3. CASE AppendSyncFailure
  <2>1. PICK u \in Txn \cup {NoTxn}, type \in {"Data", "Commit", "Abort", "Checkpoint"} :
           AppendSyncFails(u, type)
    BY <1>3 DEF AppendSyncFailure
  <2>2. /\ archived' = archived /\ exposed' = exposed
        /\ client' = [client EXCEPT ![u] = "running"] \/ \E w : CommitUnknown(w)
    BY <2>1 DEF AppendSyncFails
  <2> QED BY <1>1, <2>2 DEF CommitUnknown, ClientType
<1>4. CASE AppendFails
  BY <1>4 DEF AppendFails, CommitUnknown
<1>5. CASE Elsewhere
  <2>1. /\ archived' = archived
        /\ exposed' \in {exposed, exposed \cup {call.txn}}
        /\ \/ client' = client
           \/ CommitUnknown(call.txn)
           \/ CommitSync
    BY <1>5, ElsewhereMoves DEF Elsewhere, Open, CheckpointSync, SyncFails, TruncateCall,
                                TruncateWrite, TruncateFails, ghosts
  <2>2. CASE client' = client \/ CommitUnknown(call.txn)
    BY <2>1, <2>2 DEF CommitUnknown
  <2>3. CASE CommitSync
    <3>1. client' = [client EXCEPT ![call.txn] = "acked"]
      BY <2>3 DEF CommitSync
    <3>2. \A t \in Txn : t # call.txn => client'[t] = client[t]
      BY <1>1, <3>1 DEF ClientType
    <3> QED BY <2>1, <2>3, <3>2
  <2> QED BY <2>1, <2>2, <2>3
<1>6. CASE TruncateRename
  BY <1>6 DEF TruncateRename
<1>7. CASE Crash
  <2>1. /\ archived' = archived /\ exposed' = exposed
        /\ client' = [u \in Txn |-> IF client[u] = "running" THEN "lost" ELSE client[u]]
    BY <1>7 DEF Crash
  <2> QED BY <2>1
<1> QED BY <1>2, <1>3, <1>4, <1>5, <1>6, <1>7, NextByGroups

\* A commit record that is readable and durable.
Safe(f, n, t) == \E i \in 1..n : /\ f[i].txn = t
                                 /\ f[i].type = "Commit"
                                 /\ Readable(f, i)

LEMMA AckedDurableStep ==
    ASSUME WriteAheadLogAssumption, TypeOK, TypeOK', CountsLsns, CallOwned, CommitWritten,
           RenameSafe, AckedDurable, Next
    PROVE  AckedDurable'
<1>0. file \in Seq(Item) /\ file' \in Seq(Item)
  BY DEF TypeOK, Item
<1>1. /\ Len(file) \in Nat /\ Len(file') \in Nat
      /\ synced \in Nat /\ synced <= Len(file)
      /\ synced' \in Nat /\ synced' <= Len(file')
  <2>1. synced \in 0..Len(file) /\ synced' \in 0..Len(file')
    BY DEF TypeOK
  <2> QED BY <1>0, <2>1, LenProperties
<1>2. config' = config
  BY LsnMoves
<1>3. SUFFICES ASSUME config.sync_on_commit, NEW t \in Txn, t \notin exposed', client'[t] = "acked"
               PROVE  t \in archived' \/ Safe(file', synced', t)
  BY <1>2 DEF AckedDurable, Safe
<1>4. /\ archived \subseteq archived' /\ exposed \subseteq exposed'
      /\ client[t] = "acked" \/ (CommitSync /\ call.txn = t)
  BY <1>3, AckMoves
<1>5. CASE client[t] = "acked"
  <2>1. t \in archived \/ Safe(file, synced, t)
    BY <1>3, <1>4, <1>5 DEF AckedDurable, Safe
  <2>2. CASE t \in archived
    BY <1>4, <2>2
  <2>3. CASE Safe(file, synced, t)
    <3>1. PICK i \in 1..synced : /\ file[i].txn = t
                                 /\ file[i].type = "Commit"
                                 /\ Readable(file, i)
      BY <2>3 DEF Safe
    <3>2. CASE ~TruncateRename
      <4>1. PICK n \in Nat : Grows(n)
        BY <3>2, NextGrows
      <4>2. synced <= n /\ Keeps(n)
        BY <4>1 DEF Grows
      <4>3. i \in 1..n
        BY <1>1, <4>2
      <4>4. file'[i] = file[i] /\ Readable(file', i)
        BY <3>1, <4>2, <4>3 DEF Keeps
      <4>5. i \in 1..synced'
        BY <1>1, <3>2, SyncedMoves
      <4> QED BY <3>1, <4>4, <4>5 DEF Safe
    <3>3. CASE TruncateRename
      <4>1. PICK d \in Nat :
               /\ d = LastCheckpoint(ReadAll(file)) - 1
               /\ Len(ReadAll(file)) = d + Len(file')
               /\ \A k \in 1..Len(file') : file'[k] = file[d + k] /\ Readable(file', k)
        BY <1>0, <3>3, RenameMoves
      <4>2. i <= Len(ReadAll(file))
        <5>1. i \in 1..Len(file)
          BY <1>1
        <5> QED BY <1>0, <3>1, <5>1, ReadAllReadable
      <4>3. synced' = Len(file')
        BY <3>3 DEF TruncateRename
      <4>4. CASE i <= d
        <5>1. PICK dropped \in Seq(LogRecord) :
                 /\ Len(dropped) = LastCheckpoint(ReadAll(file)) - 1
                 /\ \A k \in 1..Len(dropped) : dropped[k] = file[k]
                 /\ archived' = archived \cup Analyze(dropped).committed_txns
          BY <1>0, <3>3, DroppedRecords
        <5>2. i \in 1..Len(dropped)
          BY <4>1, <4>4, <5>1
        <5>3. WonBy(dropped, Len(dropped), t)
          BY <3>1, <5>1, <5>2 DEF WonBy
        <5>4. t \in Analyze(dropped).committed_txns
          BY <5>3, AnalyzeLogIsExact
        <5> QED BY <5>1, <5>4
      <4>5. CASE ~(i <= d)
        <5>1. i - d \in 1..Len(file') /\ d + (i - d) = i
          <6>1. \A a, b, k \in Nat : k <= a + b /\ ~(k <= a) => k - a \in 1..b /\ a + (k - a) = k
            OBVIOUS
          <6>2. i <= d + Len(file') /\ i \in Nat
            BY <1>1, <4>1, <4>2
          <6> QED BY <1>1, <4>5, <6>1, <6>2
        <5>2. file'[i - d] = file[i] /\ Readable(file', i - d)
          BY <4>1, <5>1
        <5> QED BY <3>1, <4>3, <5>1, <5>2 DEF Safe
      <4> QED BY <4>4, <4>5
    <3> QED BY <3>2, <3>3
  <2> QED BY <2>1, <2>2, <2>3
<1>6. CASE CommitSync /\ call.txn = t
  <2>1. /\ call.op = "commit"
        /\ synced' = IF detached THEN synced ELSE Len(file)
        /\ exposed' = IF Damaged THEN exposed \cup {call.txn} ELSE exposed
        /\ file' = file
    BY <1>3, <1>6 DEF CommitSync, InCall, SyncFile
  <2>2. ~detached /\ ReadAll(file) = file
    BY <1>3, <1>6, <2>1 DEF Damaged
  <2>3. PICK i \in 1..Len(file) : file[i].txn = t /\ file[i].type = "Commit"
    BY <1>6, <2>1, <2>2 DEF CommitWritten
  <2>4. Readable(file, i)
    BY <1>0, <2>2, UndamagedReadable
  <2> QED BY <2>1, <2>2, <2>3, <2>4 DEF Safe
<1> QED BY <1>4, <1>5, <1>6

-----------------------------------------------------------------------------
(* The invariant. *)

LEMMA InitIInv ==
    ASSUME WriteAheadLogAssumption, Init
    PROVE  IInv
<1>1. file = << >> /\ Len(file) = 0 /\ call = Idle
  BY EmptySeq DEF Init
<1>2. TypeOK
  <2>1. /\ MaxLsn \in Nat /\ MaxCrashes \in Nat /\ MaxErrors \in Nat
    BY ConfigTypes
  <2>2. config \in Config /\ file \in Seq(Item)
    BY <1>1, EmptySeq DEF Init
  <2>3. FileTypes
    <3>1. synced \in 0..Len(file)
      BY <1>1 DEF Init
    <3>2. {detached, up} \subseteq BOOLEAN
      BY Zenon DEF Init
    <3> QED BY <2>2, <3>1, <3>2 DEF FileTypes
  <2>4. CounterTypes
    BY <2>1 DEF Init, CounterTypes
  <2>5. client \in ClientType
    BY DEF Init, ClientType
  <2>6. budget \in BudgetType
    BY <2>1 DEF Init, BudgetType
  <2>7. GhostTypes
    BY <1>1, <2>5, <2>6, CallsAreTyped DEF Init, GhostTypes
  <2> QED BY <2>2, <2>3, <2>4, <2>7, TypeOKByGroups DEF ConfigType
<1>3. CountsLsns
  BY DEF Init, CountsLsns
<1>4. CallOwned /\ CommitWritten /\ RenameSafe
  BY <1>1, CallsAreTyped DEF CallOwned, CommitWritten, RenameSafe
<1>5. AckedDurable
  <2>1. \A t \in Txn : client[t] # "acked"
    BY DEF Init
  <2> QED BY <2>1 DEF AckedDurable
<1>6. \A i \in 1..Len(file) : FALSE
  BY <1>1
<1>7. Owned /\ Ordered /\ Ahead /\ Known /\ EndIsLast
  BY <1>6 DEF Owned, Ordered, Ahead, Known, EndIsLast
<1> QED BY <1>2, <1>3, <1>4, <1>5, <1>7 DEF IInv

LEMMA NextIInv ==
    ASSUME WriteAheadLogAssumption, IInv, Next
    PROVE  IInv'
<1>1. /\ TypeOK /\ CountsLsns /\ Owned /\ CallOwned /\ CommitWritten /\ RenameSafe
      /\ AckedDurable /\ Ordered /\ Ahead /\ Known /\ EndIsLast
  BY DEF IInv
<1>2. TypeOK' /\ CountsLsns'
  BY <1>1, NextTypes
<1>3. Owned'
  BY <1>1, <1>2, OwnedStep
<1>4. CallOwned'
  BY <1>1, CallOwnedStep
<1>5. CommitWritten'
  BY <1>1, CommitWrittenStep
<1>6. RenameSafe'
  BY <1>1, RenameSafeStep
<1>7. AckedDurable'
  BY <1>1, <1>2, AckedDurableStep
<1>8. Ordered' /\ Ahead'
  BY <1>1, <1>2, OrderStep
<1>9. Known'
  BY <1>1, <1>2, KnownStep
<1>10. EndIsLast'
  BY <1>1, <1>2, EndIsLastStep
<1> QED BY <1>2, <1>3, <1>4, <1>5, <1>6, <1>7, <1>8, <1>9, <1>10 DEF IInv

LEMMA StutterIInv ==
    ASSUME IInv, UNCHANGED vars
    PROVE  IInv'
<1> USE DEF vars, memory, ghosts
<1>1. /\ TypeOK' /\ CountsLsns' /\ CallOwned'
  BY DEF IInv, TypeOK, CountsLsns, CallOwned, AutoCheckpointDue
<1>2. Owned' /\ CommitWritten' /\ RenameSafe' /\ AckedDurable'
  BY DEF IInv, Owned, CommitWritten, RenameSafe, AckedDurable
<1>3. Ordered' /\ Ahead' /\ Known' /\ EndIsLast'
  BY DEF IInv, Ordered, Ahead, Known, EndIsLast, slack
<1> QED BY <1>1, <1>2, <1>3 DEF IInv

\* The invariant of the log holds in every reachable state.
LEMMA Invariance == Spec => []IInv
<1>1. Init => IInv
  BY WriteAheadLogAssumption, InitIInv
<1>2. IInv /\ [Next]_vars => IInv'
  BY WriteAheadLogAssumption, NextIInv, StutterIInv
<1> QED BY <1>1, <1>2, PTL DEF Spec

-----------------------------------------------------------------------------
(* The theorems. *)

\* What a reader recovers from the readable part of the log.
LEMMA RecoveredByPosition ==
    ASSUME file \in Seq(Item)
    PROVE  \A t : t \in Analyze(ReadAll(file)).committed_txns <=> Safe(file, Len(file), t)
<1> DEFINE records == ReadAll(file)
<1>1. /\ records \in Seq(LogRecord)
      /\ Len(records) <= Len(file)
      /\ \A i \in 1..Len(records) : records[i] = file[i]
      /\ \A i \in 1..Len(file) : Readable(file, i) <=> i <= Len(records)
  BY ReadAllReadable
<1>2. \A t : t \in Analyze(records).committed_txns <=> WonBy(records, Len(records), t)
  BY <1>1, AnalyzeLogIsExact
<1> HIDE DEF records
<1>3. Len(file) \in Nat /\ Len(records) \in Nat
  BY <1>1, LenProperties
<1>4. \A i : i \in 1..Len(records) <=> i \in 1..Len(file) /\ Readable(file, i)
  BY <1>1, <1>3
<1>5. \A t : WonBy(records, Len(records), t) <=> Safe(file, Len(file), t)
  <2> TAKE t
  <2>1. ASSUME WonBy(records, Len(records), t) PROVE Safe(file, Len(file), t)
    <3>1. PICK i \in 1..Len(records) : records[i].txn = t /\ records[i].type = "Commit"
      BY <2>1 DEF WonBy
    <3> QED BY <1>1, <1>4, <3>1 DEF Safe
  <2>2. ASSUME Safe(file, Len(file), t) PROVE WonBy(records, Len(records), t)
    <3>1. PICK i \in 1..Len(file) : /\ file[i].txn = t /\ file[i].type = "Commit"
                                    /\ Readable(file, i)
      BY <2>2 DEF Safe
    <3> QED BY <1>1, <1>4, <3>1 DEF WonBy
  <2> QED BY <2>1, <2>2
<1> QED BY <1>2, <1>5 DEF records

LEMMA DurabilityFromIInv ==
    ASSUME IInv
    PROVE  Durability
<1>1. /\ file \in Seq(Item) /\ synced \in 0..Len(file)
  BY DEF IInv, TypeOK, Item
<1>2. Len(file) \in Nat
  BY <1>1, LenProperties
<1>3. SUFFICES ASSUME config.sync_on_commit, NEW t \in Txn \ exposed, client[t] = "acked"
               PROVE  t \in archived \/ Safe(file, Len(file), t)
  BY <1>1, RecoveredByPosition DEF Durability, Recovered
<1>4. t \in archived \/ Safe(file, synced, t)
  BY <1>3 DEF IInv, AckedDurable, Safe
<1>5. \A i \in 1..synced : i \in 1..Len(file)
  BY <1>1, <1>2
<1> QED BY <1>4, <1>5 DEF Safe

\* A commit that the log acknowledged with sync_on_commit set, while nothing in
\* the file was damaged, is found again by read_all and analyze in every later
\* state, whatever crashes, torn records and failed writes, fsyncs and renames
\* come between, until truncate_to_checkpoint has dropped it on purpose.
THEOREM AcknowledgedCommitsSurvive == Spec => []Durability
BY Invariance, DurabilityFromIInv, PTL

LEMMA LsnOrderFromIInv ==
    ASSUME IInv
    PROVE  LsnOrder
<1>1. file \in Seq(Item)
  BY DEF IInv, TypeOK, Item
<1> DEFINE records == ReadAll(file)
<1>2. /\ records \in Seq(LogRecord)
      /\ Len(records) <= Len(file)
      /\ \A i \in 1..Len(records) : records[i] = file[i]
      /\ \A i \in 1..Len(file) : Readable(file, i) <=> i <= Len(records)
  BY <1>1, ReadAllReadable
<1> HIDE DEF records
<1>3. Len(file) \in Nat /\ Len(records) \in Nat
  BY <1>1, <1>2, LenProperties
<1>4. \A i \in 1..Len(records) : /\ i \in 1..Len(file) /\ Readable(file, i)
                                 /\ records[i] = file[i]
  BY <1>2, <1>3
<1>5. \A i, j \in 1..Len(records) : i < j => records[i].lsn < records[j].lsn + slack
  BY <1>4 DEF IInv, Ordered
<1>6. up => \A i \in 1..Len(records) : records[i].lsn < next_lsn + slack
  BY <1>4 DEF IInv, Ahead
<1> QED BY <1>5, <1>6 DEF LsnOrder, slack, records

\* However the log is torn, reopened, truncated and appended to again, the
\* records a reader gets are in the order of their LSNs and the LSN that append
\* assigns next is above all of them, up to the one LSN that a failed fsync of
\* sync_on_every_record leaves to be assigned again.
THEOREM LsnsAreOrdered == Spec => []LsnOrder
BY Invariance, LsnOrderFromIInv, PTL

LEMMA OutcomesFromIInv ==
    ASSUME IInv, NoTxn \notin Txn
    PROVE  OutcomesExact
<1>1. file \in Seq(Item)
  BY DEF IInv, TypeOK, Item
<1> DEFINE records == ReadAll(file)
           n == Len(records)
<1>2. /\ records \in Seq(LogRecord)
      /\ Len(records) <= Len(file)
      /\ \A i \in 1..Len(records) : records[i] = file[i]
  BY <1>1, ReadAllReadable
<1>3. /\ \A t : t \in Analyze(records).committed_txns <=> WonBy(records, n, t)
      /\ \A t : t \in Analyze(records).loser_txns <=> OpenAt(records, n, t)
  BY <1>2, AnalyzeLogIsExact
<1> HIDE DEF records
<1>4. Len(file) \in Nat /\ n \in Nat
  BY <1>1, <1>2, LenProperties
<1>5. \A i \in 1..n : i \in 1..Len(file) /\ records[i] = file[i]
  BY <1>2, <1>4
<1>6. \A i \in 1..n : records[i].type \in {"Data", "Commit", "Abort"} => records[i].txn \in Txn
  BY <1>1, <1>5, RecordOwner DEF IInv
<1>7. \A i, j \in 1..n : i < j /\ records[i].type \in Ended
                            => ~(records[j].type \in {"Data", "Commit", "Abort"} /\ records[j].txn = records[i].txn)
  BY <1>5 DEF IInv, EndIsLast
<1>8. \A t : WonBy(records, n, t) <=> t \in Txn /\ Has(records, t, "Commit")
  BY <1>6 DEF WonBy, Has
<1>9. \A t : OpenAt(records, n, t) <=> /\ t \in Txn
                                       /\ Has(records, t, "Data")
                                       /\ ~Has(records, t, "Commit")
                                       /\ ~Has(records, t, "Abort")
  <2> TAKE t
  <2>1. ASSUME OpenAt(records, n, t)
        PROVE  /\ t \in Txn
               /\ Has(records, t, "Data")
               /\ ~Has(records, t, "Commit")
               /\ ~Has(records, t, "Abort")
    <3>1. PICK j \in 1..n : /\ records[j].txn = t
                            /\ records[j].type = "Data"
                            /\ \A k \in 1..n : j < k => ~Ends(records[k], t)
      BY <2>1 DEF OpenAt
    <3>2. \A k \in 1..n : ~Ends(records[k], t)
      <4> SUFFICES ASSUME NEW k \in 1..n, Ends(records[k], t) PROVE FALSE
        OBVIOUS
      <4>1. records[k].txn = t /\ records[k].type \in Ended
        BY DEF Ends, Ended
      <4>2. ~(j < k)
        BY <3>1
      <4>3. ~(k < j)
        BY <1>7, <3>1, <4>1
      <4>4. k = j
        BY <1>4, <4>2, <4>3
      <4> QED BY <3>1, <4>1, <4>4 DEF Ended
    <3>3. ~Has(records, t, "Commit") /\ ~Has(records, t, "Abort")
      BY <3>2 DEF Has, Ends
    <3> QED BY <1>6, <3>1, <3>3 DEF Has
  <2>2. ASSUME Has(records, t, "Data"), ~Has(records, t, "Commit"), ~Has(records, t, "Abort")
        PROVE  OpenAt(records, n, t)
    <3>1. \A k \in 1..n : ~Ends(records[k], t)
      BY <2>2 DEF Has, Ends
    <3> QED BY <2>2, <3>1 DEF Has, OpenAt
  <2> QED BY <2>1, <2>2
<1> DEFINE result == Analyze(records)
<1>10. result.committed_txns = {t \in Txn : Has(records, t, "Commit")}
  <2>1. \A t : t \in result.committed_txns <=> t \in Txn /\ Has(records, t, "Commit")
    BY <1>3, <1>8
  <2> HIDE DEF result
  <2> QED BY <2>1
<1>11. result.loser_txns = {t \in Txn : /\ Has(records, t, "Data")
                                        /\ ~Has(records, t, "Commit")
                                        /\ ~Has(records, t, "Abort")}
  <2>1. \A t : t \in result.loser_txns <=> /\ t \in Txn
                                           /\ Has(records, t, "Data")
                                           /\ ~Has(records, t, "Commit")
                                           /\ ~Has(records, t, "Abort")
    BY <1>3, <1>9
  <2> HIDE DEF result
  <2> QED BY <2>1
<1> QED BY <1>10, <1>11 DEF OutcomesExact, records

\* The one pass of AriesRecovery::analyze over what can be read of a log finds
\* as winners exactly the transactions with a commit record and as losers
\* exactly those with data and neither a commit nor an abort record: no record
\* order the log can hold misleads it.
THEOREM RecoveryFindsOutcomes == Spec => []OutcomesExact
<1>1. IInv => OutcomesExact
  BY WriteAheadLogAssumption, ConfigTypes, OutcomesFromIInv
<1> QED BY <1>1, Invariance, PTL
-----------------------------------------------------------------------------
(* Redo and undo. *)

\* A function on 1..n is a sequence of n items.
LEMMA LenOfFunction ==
    ASSUME NEW f, NEW n \in Nat, f = [k \in 1..n |-> f[k]]
    PROVE  Len(f) = n
<1> DEFINE S == {f[k] : k \in 1..n}
<1>1. f \in [1..n -> S]
  <2>1. \A k \in 1..n : f[k] \in S
    OBVIOUS
  <2> HIDE DEF S
  <2> QED BY <2>1
<1>2. f \in Seq(S)
  <2> HIDE DEF S
  <2> QED BY <1>1, SeqDef
<1>3. DOMAIN f = 1..Len(f) /\ Len(f) \in Nat
  <2> HIDE DEF S
  <2> QED BY <1>2, LenProperties
<1>4. DOMAIN f = 1..n
  BY <1>1
<1> QED BY <1>3, <1>4

LEMMA FilteredLength ==
    ASSUME NEW records, NEW I, IsFiniteSet(I)
    PROVE  /\ Len(Filtered(records, I)) = Cardinality(I)
           /\ Len(Reverse(Filtered(records, I))) = Cardinality(I)
<1> DEFINE n == Cardinality(I)
           f == Filtered(records, I)
           r == Reverse(f)
<1>1. n \in Nat
  BY FS_CardinalityType
<1>2. f = [k \in 1..n |-> f[k]]
  BY DEF Filtered
<1>3. Len(f) = n
  <2> HIDE DEF n, f
  <2> QED BY <1>1, <1>2, LenOfFunction
<1>4. r = [k \in 1..Len(f) |-> r[k]]
  BY DEF Reverse
<1>5. Len(r) = n
  <2> HIDE DEF n, f, r
  <2> QED BY <1>1, <1>3, <1>4, LenOfFunction
<1> QED BY <1>3, <1>5

\* A data record of a winner is redone, one of a loser undone, and only those
\* of aborted transactions are left.
LEMMA AnalysisFromIInv ==
    ASSUME IInv, NoTxn \notin Txn
    PROVE  AnalysisExact
<1>1. file \in Seq(Item)
  BY DEF IInv, TypeOK, Item
<1> DEFINE records == ReadAll(file)
           n == Len(records)
           winners == Analyze(records).committed_txns
           losers == Analyze(records).loser_txns
           kept == {i \in {k \in 1..n : records[k].type = "Data"} : ~Has(records, records[i].txn, "Abort")}
<1>2. /\ records \in Seq(LogRecord)
      /\ Len(records) <= Len(file)
      /\ \A i \in 1..Len(records) : records[i] = file[i]
  BY <1>1, ReadAllReadable
<1>3. OutcomesExact
  BY OutcomesFromIInv
<1>4. /\ winners = {t \in Txn : Has(records, t, "Commit")}
      /\ losers = {t \in Txn : Has(records, t, "Data") /\ ~Has(records, t, "Commit") /\ ~Has(records, t, "Abort")}
  BY <1>3 DEF OutcomesExact
<1> HIDE DEF records, winners, losers
<1>5. Len(file) \in Nat /\ n \in Nat
  BY <1>1, <1>2, LenProperties
<1>6. \A i \in 1..n : i \in 1..Len(file) /\ records[i] = file[i]
  BY <1>2, <1>5
<1>7. \A i \in 1..n : records[i].type \in {"Data", "Commit", "Abort"} => records[i].txn \in Txn
  BY <1>1, <1>6, RecordOwner DEF IInv
<1>8. \A i, j \in 1..n : i < j /\ records[i].type \in Ended
         => ~(records[j].type \in {"Data", "Commit", "Abort"} /\ records[j].txn = records[i].txn)
  BY <1>6 DEF IInv, EndIsLast
<1>9. \A t : ~(Has(records, t, "Commit") /\ Has(records, t, "Abort"))
  <2> SUFFICES ASSUME NEW t, Has(records, t, "Commit"), Has(records, t, "Abort") PROVE FALSE
    OBVIOUS
  <2>1. PICK i \in 1..n : records[i].txn = t /\ records[i].type = "Commit"
    BY DEF Has
  <2>2. PICK j \in 1..n : records[j].txn = t /\ records[j].type = "Abort"
    BY DEF Has
  <2>3. ~(i < j) /\ ~(j < i) /\ i # j
    BY <1>8, <2>1, <2>2 DEF Ended
  <2> QED BY <1>5, <2>3
<1> DEFINE R == DataOf(records, winners)
           U == DataOf(records, losers)
<1>10. R \subseteq 1..n /\ U \subseteq 1..n
  BY DEF DataOf
<1>11. IsFiniteSet(R) /\ IsFiniteSet(U)
  <2>1. 1 \in Int /\ n \in Int
    BY <1>5
  <2>2. IsFiniteSet(1..n)
    BY <2>1, FS_Interval, Zenon
  <2> HIDE DEF R, U
  <2> QED BY <1>10, <2>2, FS_Subset, Zenon
<1>12. R \cap U = {}
  BY <1>4 DEF DataOf
<1>13. R \cup U = kept
  <2>1. \A i : i \in R <=> i \in 1..n /\ records[i].type = "Data" /\ Has(records, records[i].txn, "Commit")
    BY <1>4, <1>7 DEF DataOf
  <2>2. \A i : i \in U <=> /\ i \in 1..n /\ records[i].type = "Data"
                           /\ ~Has(records, records[i].txn, "Commit")
                           /\ ~Has(records, records[i].txn, "Abort")
    BY <1>4, <1>7 DEF DataOf, Has
  <2>3. \A i : i \in kept <=> i \in 1..n /\ records[i].type = "Data" /\ ~Has(records, records[i].txn, "Abort")
    OBVIOUS
  <2> HIDE DEF R, U, kept
  <2> QED BY <1>9, <2>1, <2>2, <2>3
<1>14. Cardinality(R) + Cardinality(U) = Cardinality(kept)
  <2> HIDE DEF R, U, kept
  <2>1. Cardinality(R \cup U) = Cardinality(R) + Cardinality(U) - Cardinality(R \cap U)
    BY <1>11, FS_Union
  <2>2. Cardinality(R \cap U) = 0 /\ Cardinality(R) \in Nat /\ Cardinality(U) \in Nat
    BY <1>11, <1>12, FS_EmptySet, FS_CardinalityType
  <2>3. Cardinality(R \cup U) = Cardinality(kept)
    BY <1>13
  <2> QED BY <2>1, <2>2, <2>3
<1>15. /\ Redo(records) = Filtered(records, R)
       /\ Undo(records) = Reverse(Filtered(records, U))
  BY DEF Redo, Undo, winners, losers
<1>16. Len(Redo(records)) = Cardinality(R) /\ Len(Undo(records)) = Cardinality(U)
  <2>1. Len(Filtered(records, R)) = Cardinality(R) /\ Len(Reverse(Filtered(records, U))) = Cardinality(U)
    <3> HIDE DEF R, U
    <3> QED BY <1>11, FilteredLength
  <2> HIDE DEF R, U
  <2> QED BY <1>15, <2>1
<1>17. Len(Redo(records)) + Len(Undo(records)) = Cardinality(kept)
  <2> HIDE DEF R, U, kept
  <2> QED BY <1>14, <1>16
<1> QED BY <1>3, <1>17 DEF AnalysisExact, records

-----------------------------------------------------------------------------
(* The file system with faults. *)

\* The schedule is one of those considered, or was cleared by a reboot.
Scheduled == faults \in Schedules \cup {NoFiles}

VfsInv == VfsHonest /\ Scheduled

\* The fault that decides is of a type the operation looks at, or there is none.
LEMMA FirstOfTypes ==
    ASSUME ChaosAssumption, Scheduled, NEW p, NEW types
    PROVE  FirstOf(p, types).type \in types \cup {"None"}
<1> DEFINE hits == {i \in Armed(p) : faults[op_counter][i].type \in types}
           least == CHOOSE i \in hits : \A j \in hits : i <= j
<1>1. CASE hits = {}
  BY <1>1 DEF FirstOf
<1>2. CASE hits # {}
  <2>1. PICK k \in Armed(p) : TRUE
    BY <1>2
  <2>2. op_counter \in DOMAIN faults /\ Armed(p) \subseteq DOMAIN faults[op_counter]
    BY <2>1 DEF Armed
  <2>3. faults \in Schedules
    BY <2>2 DEF Scheduled, NoFiles
  <2>4. faults[op_counter] \in Seq([type : STRING, n : Nat, path : SUBSET Path])
    BY <2>2, <2>3 DEF ChaosAssumption
  <2>5. hits \in SUBSET Nat
    <3>1. DOMAIN faults[op_counter] = 1..Len(faults[op_counter]) /\ Len(faults[op_counter]) \in Nat
      BY <2>4, LenProperties
    <3> QED BY <2>2, <3>1
  <2>6. \E i \in hits : \A j \in hits : i <= j
    <3> HIDE DEF hits
    <3> QED BY <1>2, <2>5, LeastNat
  <2>7. least \in hits
    <3> HIDE DEF hits
    <3> QED BY <2>6
  <2>8. FirstOf(p, types) = faults[op_counter][least]
    BY <1>2 DEF FirstOf
  <2> HIDE DEF least
  <2> QED BY <2>7, <2>8
<1> QED BY <1>1, <1>2

\* What two sides say of a file.
SameFile(f, g, p) == /\ (p \in DOMAIN f) <=> (p \in DOMAIN g)
                     /\ p \in DOMAIN f => f[p] = g[p]

\* At most the file p differs.
Only(f, g, p) == \A q : q # p => SameFile(f, g, q)

LEMMA StoredUnderName ==
    ASSUME NEW f, NEW p, NEW bytes
    PROVE  /\ Only(f, VfsWith(f, p, bytes), p)
           /\ p \in DOMAIN VfsWith(f, p, bytes)
           /\ VfsWith(f, p, bytes)[p] = bytes
BY DEF VfsWith, Only, SameFile

LEMMA SameChains ==
    ASSUME NEW f, NEW g, NEW ff, NEW gg, NEW q,
           SameFile(f, g, q), SameFile(f, ff, q), SameFile(g, gg, q)
    PROVE  SameFile(ff, gg, q)
BY DEF SameFile

\* An operation on p is honest when it is so about p.
LEMMA OneFileMoves ==
    ASSUME VfsHonest, NEW p \in Path,
           Only(volatile, volatile', p), Only(view, view', p),
           Only(durable, durable', p), Only(vfs_synced, vfs_synced', p),
           doubt \subseteq doubt', lied \subseteq lied',
           p \notin doubt' \cup lied' => /\ SameFile(volatile', view', p)
                                         /\ SameFile(durable', vfs_synced', p)
    PROVE  VfsHonest'
<1>1. \A q \in Path \ (doubt \cup lied) : SameFile(volatile, view, q) /\ SameFile(durable, vfs_synced, q)
  BY DEF VfsHonest, SameFile
<1>2. ASSUME NEW q \in Path \ (doubt' \cup lied')
      PROVE  SameFile(volatile', view', q) /\ SameFile(durable', vfs_synced', q)
  <2>1. CASE q = p
    BY <1>2, <2>1
  <2>2. CASE q # p
    <3>1. SameFile(volatile, view, q) /\ SameFile(durable, vfs_synced, q)
      BY <1>1, <1>2
    <3>2. /\ SameFile(volatile, volatile', q) /\ SameFile(view, view', q)
          /\ SameFile(durable, durable', q) /\ SameFile(vfs_synced, vfs_synced', q)
      BY <2>2 DEF Only
    <3> QED BY <3>1, <3>2, SameChains, Zenon
  <2> QED BY <2>1, <2>2
<1> QED BY <1>2 DEF VfsHonest, SameFile

\* What is known of p before an operation that finds it honest.
LEMMA OneFileBefore ==
    ASSUME VfsHonest, NEW p \in Path, p \notin doubt \cup lied
    PROVE  SameFile(volatile, view, p) /\ SameFile(durable, vfs_synced, p)
BY DEF VfsHonest, SameFile

LEMMA OnlyItself == \A f, p : Only(f, f, p)
BY DEF Only, SameFile

LEMMA CreateStep ==
    ASSUME VfsHonest, NEW p \in Path, Create(p)
    PROVE  VfsHonest'
<1>1. durable' = durable /\ vfs_synced' = vfs_synced /\ lied' = lied
  BY DEF Create
<1>2. Only(durable, durable', p) /\ Only(vfs_synced, vfs_synced', p)
  BY <1>1, OnlyItself
<1>3. CASE FirstOf(p, {"IoError"}).type = "IoError"
  <2>1. volatile' = volatile /\ view' = view /\ doubt' = doubt \cup {p}
    BY <1>3 DEF Create
  <2>2. Only(volatile, volatile', p) /\ Only(view, view', p)
    BY <2>1, OnlyItself
  <2> QED BY <1>1, <1>2, <2>1, <2>2, OneFileMoves
<1>4. CASE FirstOf(p, {"IoError"}).type # "IoError"
  <2>1. volatile' = VfsWith(volatile, p, <<>>) /\ view' = VfsWith(view, p, <<>>) /\ doubt' = doubt
    BY <1>4 DEF Create
  <2>2. /\ Only(volatile, volatile', p) /\ p \in DOMAIN volatile' /\ volatile'[p] = <<>>
        /\ Only(view, view', p) /\ p \in DOMAIN view' /\ view'[p] = <<>>
    BY <2>1, StoredUnderName
  <2>3. p \notin doubt' \cup lied' => SameFile(durable', vfs_synced', p)
    BY <1>1, <2>1, OneFileBefore
  <2> QED BY <1>1, <1>2, <2>1, <2>2, <2>3, OneFileMoves DEF SameFile
<1> QED BY <1>3, <1>4

LEMMA WriteStep ==
    ASSUME VfsHonest, NEW p \in Path, NEW off, NEW bytes, Write(p, off, bytes)
    PROVE  VfsHonest'
<1> DEFINE f == FirstOf(p, {"IoError", "TornWrite", "CorruptData"})
           torn == SubSeq(bytes, 1, IF f.n < Len(bytes) THEN f.n ELSE Len(bytes))
           flipped == [i \in DOMAIN bytes |-> IF i = f.n + 1 THEN Flip(bytes[i]) ELSE bytes[i]]
           stored == CASE f.type = "TornWrite" -> torn [] f.type = "CorruptData" -> flipped [] OTHER -> bytes
           found == p \in DOMAIN volatile
           ok == found /\ f.type \in {"None", "CorruptData"}
<1>1. /\ volatile' = IF found /\ f.type # "IoError" THEN VfsWith(volatile, p, Patched(volatile[p], off, stored)) ELSE volatile
      /\ view' = IF ok /\ p \in DOMAIN view THEN VfsWith(view, p, Patched(view[p], off, bytes)) ELSE view
      /\ doubt' = IF f.type # "None" \/ (found # (p \in DOMAIN view)) THEN doubt \cup {p} ELSE doubt
      /\ durable' = durable /\ vfs_synced' = vfs_synced /\ lied' = lied
  BY DEF Write
<1> HIDE DEF f, torn, flipped
<1>2. Only(durable, durable', p) /\ Only(vfs_synced, vfs_synced', p) /\ doubt \subseteq doubt' /\ lied \subseteq lied'
  BY <1>1, OnlyItself
<1>3. Only(volatile, volatile', p) /\ Only(view, view', p)
  <2>1. volatile' = volatile \/ (\E b : volatile' = VfsWith(volatile, p, b))
    <3> HIDE DEF stored, found
    <3> QED BY <1>1
  <2>2. view' = view \/ (\E b : view' = VfsWith(view, p, b))
    <3> HIDE DEF ok
    <3> QED BY <1>1
  <2> QED BY <2>1, <2>2, OnlyItself, StoredUnderName
<1>4. ASSUME p \notin doubt' \cup lied'
      PROVE  SameFile(volatile', view', p) /\ SameFile(durable', vfs_synced', p)
  <2>1. f.type = "None" /\ found = (p \in DOMAIN view) /\ p \notin doubt \cup lied
    BY <1>1, <1>2, <1>4
  <2>2. SameFile(volatile, view, p) /\ SameFile(durable, vfs_synced, p)
    BY <2>1, OneFileBefore
  <2>3. CASE found
    <3>1. stored = bytes /\ volatile[p] = view[p]
      BY <2>1, <2>2, <2>3 DEF SameFile
    <3> DEFINE b == Patched(view[p], off, bytes)
    <3>2. volatile' = VfsWith(volatile, p, b) /\ view' = VfsWith(view, p, b)
      <4> HIDE DEF stored
      <4> QED BY <1>1, <2>1, <2>3, <3>1
    <3> HIDE DEF b
    <3>3. /\ p \in DOMAIN volatile' /\ volatile'[p] = b
          /\ p \in DOMAIN view' /\ view'[p] = b
      BY <3>2, StoredUnderName
    <3> QED BY <1>1, <2>2, <3>3 DEF SameFile
  <2>4. CASE ~found
    <3>1. volatile' = volatile /\ view' = view
      <4> HIDE DEF stored
      <4> QED BY <1>1, <2>4
    <3> QED BY <1>1, <2>2, <3>1 DEF SameFile
  <2> QED BY <2>3, <2>4
<1> QED BY <1>2, <1>3, <1>4, OneFileMoves

LEMMA FsyncStep ==
    ASSUME ChaosAssumption, VfsInv, NEW p \in Path, Fsync(p)
    PROVE  VfsHonest'
<1> DEFINE f == FirstOf(p, {"IoError", "SilentFsyncFail"})
<1>1. /\ durable' = IF f.type = "None" /\ p \in DOMAIN volatile THEN VfsWith(durable, p, volatile[p]) ELSE durable
      /\ vfs_synced' = IF f.type # "IoError" /\ p \in DOMAIN view THEN VfsWith(vfs_synced, p, view[p]) ELSE vfs_synced
      /\ lied' = IF f.type = "SilentFsyncFail" THEN lied \cup {p} ELSE lied
      /\ volatile' = volatile /\ view' = view /\ doubt' = doubt
  BY DEF Fsync
<1>2. f.type \in {"IoError", "SilentFsyncFail", "None"}
  <2>1. f.type \in {"IoError", "SilentFsyncFail"} \cup {"None"}
    BY FirstOfTypes DEF VfsInv
  <2> HIDE DEF f
  <2> QED BY <2>1
<1> HIDE DEF f
<1>3. /\ Only(volatile, volatile', p) /\ Only(view, view', p) /\ doubt \subseteq doubt' /\ lied \subseteq lied'
      /\ VfsHonest
  BY <1>1, OnlyItself DEF VfsInv
<1>4. Only(durable, durable', p) /\ Only(vfs_synced, vfs_synced', p)
  BY <1>1, OnlyItself, StoredUnderName
<1>5. ASSUME p \notin doubt' \cup lied'
      PROVE  SameFile(volatile', view', p) /\ SameFile(durable', vfs_synced', p)
  <2>1. f.type # "SilentFsyncFail" /\ p \notin doubt \cup lied
    BY <1>1, <1>5
  <2>2. SameFile(volatile, view, p) /\ SameFile(durable, vfs_synced, p)
    BY <1>3, <2>1, OneFileBefore
  <2>3. CASE f.type = "None" /\ p \in DOMAIN volatile
    <3> DEFINE b == view[p]
    <3>1. durable' = VfsWith(durable, p, b) /\ vfs_synced' = VfsWith(vfs_synced, p, b)
      BY <1>1, <2>2, <2>3 DEF SameFile
    <3> HIDE DEF b
    <3>2. /\ p \in DOMAIN durable' /\ durable'[p] = b
          /\ p \in DOMAIN vfs_synced' /\ vfs_synced'[p] = b
      BY <3>1, StoredUnderName
    <3> QED BY <1>1, <2>2, <3>2 DEF SameFile
  <2>4. CASE ~(f.type = "None" /\ p \in DOMAIN volatile)
    <3>1. durable' = durable /\ vfs_synced' = vfs_synced
      BY <1>1, <1>2, <2>1, <2>2, <2>4 DEF SameFile
    <3> QED BY <1>1, <2>2, <3>1 DEF SameFile
  <2> QED BY <2>3, <2>4
<1> QED BY <1>3, <1>4, <1>5, OneFileMoves

\* A reboot gives every honest file back as it was at its last sync.
LEMMA RebootStep ==
    ASSUME VfsHonest, CrashAndReboot
    PROVE  VfsHonest'
<1>1. /\ volatile' = durable /\ view' = vfs_synced
      /\ durable' = durable /\ vfs_synced' = vfs_synced /\ doubt' = doubt /\ lied' = lied
  BY DEF CrashAndReboot
<1> QED BY <1>1 DEF VfsHonest

LEMMA VfsStep ==
    ASSUME ChaosAssumption, VfsInv, VfsNext
    PROVE  VfsInv'
<1>1. VfsHonest
  BY DEF VfsInv
<1>2. Scheduled'
  <2>1. CountOp \/ CrashAndReboot \/ \E on \in BOOLEAN : SetEnabled(on)
    BY Zenon DEF VfsNext, Create, Fsync, AppendTo, Write
  <2>2. faults' = faults \/ faults' = NoFiles
    BY <2>1 DEF CrashAndReboot, SetEnabled, CountOp
  <2> QED BY <2>2 DEF VfsInv, Scheduled
<1>3. CASE \E p \in Path : Create(p)
  BY <1>1, <1>2, <1>3, CreateStep DEF VfsInv
<1>4. CASE \E p \in Path : Fsync(p)
  BY <1>2, <1>4, FsyncStep DEF VfsInv
<1>5. CASE \E p \in Path : \E off, bytes : Write(p, off, bytes)
  BY <1>1, <1>2, <1>5, WriteStep DEF VfsInv
<1>6. CASE CrashAndReboot
  BY <1>1, <1>2, <1>6, RebootStep DEF VfsInv
<1>7. CASE \E on \in BOOLEAN : SetEnabled(on)
  <2>1. UNCHANGED <<volatile, durable, view, vfs_synced, doubt, lied>>
    BY <1>7 DEF SetEnabled
  <2> QED BY <1>1, <1>2, <2>1 DEF VfsInv, VfsHonest
<1>8. \/ \E p \in Path : Create(p)
      \/ \E p \in Path : Fsync(p)
      \/ \E p \in Path : \E off, bytes : Write(p, off, bytes)
      \/ CrashAndReboot
      \/ \E on \in BOOLEAN : SetEnabled(on)
  BY DEF VfsNext, AppendTo
<1> QED BY <1>3, <1>4, <1>5, <1>6, <1>7, <1>8

LEMMA VfsStart ==
    ASSUME VfsInit
    PROVE  VfsInv
BY DEF VfsInit, VfsInv, VfsHonest, Scheduled, NoFiles

LEMMA VfsRests ==
    ASSUME VfsInv, UNCHANGED vfs_vars
    PROVE  VfsInv'
BY DEF VfsInv, VfsHonest, Scheduled, vfs_vars

-----------------------------------------------------------------------------
(* The crash tests. *)

HarnessRecord == RecordOf(Nat, 1..MaxTxns)

\* The position in the log is the LSN, transactions come one after the other
\* and a record that ends one is its last; what a crash leaves to read is a
\* prefix of the log.
HarnessInv ==
    /\ txn \in Nat
    /\ txn >= 1
    /\ log \in Seq(HarnessRecord)
    /\ \A i \in 1..Len(log) : log[i].lsn = i /\ log[i].txn <= txn
    /\ \A i \in 1..Len(log) : log[i].type \in Ended => log[i].txn < txn
    /\ \A i, j \in 1..Len(log) : i < j => log[i].txn <= log[j].txn
    /\ \A i, j \in 1..Len(log) : i < j /\ log[i].type \in Ended => log[i].txn < log[j].txn
    /\ phase # "run" => \E n \in 0..Len(log) : Surviving = SubSeq(log, 1, n)

\* Reading what agrees with the log up to the damage gives a prefix of it.
LEMMA ReadsPrefix ==
    ASSUME NEW X, NEW Y, NEW f \in Seq(X), NEW g \in Seq(Y),
           \A i \in 1..Len(f) : f[i] = Torn \/ (i <= Len(g) /\ f[i] = g[i])
    PROVE  \E m \in 0..Len(g) : ReadAll(f) = SubSeq(g, 1, m)
<1> DEFINE torn == {i \in 1..Len(f) : f[i] = Torn}
<1>1. Len(f) \in Nat /\ Len(g) \in Nat
  BY LenProperties
<1>2. ASSUME NEW m \in Nat, m <= Len(f), \A i \in 1..m : f[i] # Torn
      PROVE  m \in 0..Len(g) /\ SubSeq(f, 1, m) = SubSeq(g, 1, m)
  <2>1. \A i \in 1..m : i \in 1..Len(f) /\ i <= Len(g) /\ f[i] = g[i]
    BY <1>1, <1>2
  <2>2. m <= Len(g)
    <3>1. CASE m = 0
      BY <1>1, <3>1
    <3>2. CASE m # 0
      BY <2>1, <3>2
    <3> QED BY <3>1, <3>2
  <2>3. SubSeq(f, 1, m) = [i \in 1..m |-> f[i]] /\ SubSeq(g, 1, m) = [i \in 1..m |-> g[i]]
    <3>1. \A i \in 1..m : f[i] \in X /\ g[i] \in Y
      <4>1. \A i \in 1..m : i \in 1..Len(f) /\ i \in 1..Len(g)
        BY <1>1, <1>2, <2>2
      <4> QED BY <4>1, ElementOfSeq
    <3>2. /\ SubSeq(f, 1, m) \in Seq(X) /\ Len(SubSeq(f, 1, m)) = m
          /\ \A i \in 1..m : SubSeq(f, 1, m)[i] = f[i]
      BY <3>1, SubSeqProperties
    <3>3. /\ SubSeq(g, 1, m) \in Seq(Y) /\ Len(SubSeq(g, 1, m)) = m
          /\ \A i \in 1..m : SubSeq(g, 1, m)[i] = g[i]
      BY <3>1, SubSeqProperties
    <3> DEFINE a == SubSeq(f, 1, m)
               b == SubSeq(g, 1, m)
    <3>4. a \in [1..m -> X] /\ b \in [1..m -> Y]
      <4> HIDE DEF a, b
      <4>1. a \in Seq(X) /\ Len(a) = m /\ b \in Seq(Y) /\ Len(b) = m
        BY <3>2, <3>3 DEF a, b
      <4> QED BY <4>1, LenProperties
    <3> QED BY <3>2, <3>3, <3>4
  <2> QED BY <2>1, <2>2, <2>3
<1>3. CASE torn = {}
  <2>1. ReadAll(f) = f
    BY <1>3 DEF ReadAll
  <2>2. f = SubSeq(f, 1, Len(f))
    BY SubSeqFull
  <2>3. \A i \in 1..Len(f) : f[i] # Torn
    BY <1>3
  <2>4. Len(f) \in 0..Len(g) /\ SubSeq(f, 1, Len(f)) = SubSeq(g, 1, Len(f))
    BY <1>1, <1>2, <2>3
  <2>5. ReadAll(f) = SubSeq(g, 1, Len(f)) /\ Len(f) \in 0..Len(g)
    BY <2>1, <2>2, <2>4, Zenon
  <2> QED BY <2>5, Zenon
<1>4. CASE torn # {}
  <2>1. torn \in SUBSET Nat
    BY <1>1
  <2>2. Min(torn) \in torn /\ \A i \in torn : Min(torn) <= i
    <3> HIDE DEF torn
    <3> QED BY <1>4, <2>1, MinIsLeast
  <2> DEFINE m == Min(torn) - 1
  <2>3. m \in Nat /\ m <= Len(f)
    BY <1>1, <2>2
  <2>4. \A i \in 1..m : f[i] # Torn
    <3>1. \A i \in 1..Len(f) : f[i] = Torn => i \in torn
      OBVIOUS
    <3>2. \A i \in 1..m : i \in 1..Len(f) /\ ~(m + 1 <= i)
      BY <1>1, <2>3
    <3>3. Min(torn) = m + 1
      <4>1. Min(torn) \in Nat
        BY <2>2
      <4> QED BY <4>1
    <3> HIDE DEF torn, m
    <3> QED BY <2>2, <3>1, <3>2, <3>3
  <2>5. ReadAll(f) = SubSeq(f, 1, m)
    BY <1>4 DEF ReadAll
  <2> HIDE DEF m
  <2>6. m \in 0..Len(g) /\ SubSeq(f, 1, m) = SubSeq(g, 1, m)
    BY <1>2, <2>3, <2>4
  <2> QED BY <2>5, <2>6
<1> QED BY <1>3, <1>4

\* The cut of a disk crash, and the cut with a damaged record in it.
LEMMA CutsReadPrefix ==
    ASSUME log \in Seq(HarnessRecord), NEW n \in 0..Len(log), NEW within \in BOOLEAN
    PROVE  /\ \E m \in 0..Len(log) : ReadAll(CutAt(n, within)) = SubSeq(log, 1, m)
           /\ \A i \in DOMAIN CutAt(n, within) :
                 \E m \in 0..Len(log) : ReadAll(Flipped(CutAt(n, within), i)) = SubSeq(log, 1, m)
<1> DEFINE X == HarnessRecord \cup {Torn}
           s == SubSeq(log, 1, n)
           cut == CutAt(n, within)
<1>1. Len(log) \in Nat /\ n \in Nat /\ n <= Len(log) /\ \A i \in 1..n : log[i] \in X
  <2>1. Len(log) \in Nat
    BY LenProperties
  <2>2. \A i \in 1..n : i \in 1..Len(log)
    BY <2>1
  <2>3. \A i \in 1..n : log[i] \in HarnessRecord
    BY <2>2, ElementOfSeq
  <2> QED BY <2>1, <2>3
<1>2. s \in Seq(X) /\ Len(s) = n /\ \A i \in 1..n : s[i] = log[i]
  <2> HIDE DEF X
  <2> QED BY <1>1, SubSeqProperties
<1>3. /\ cut \in Seq(X)
      /\ \A i \in 1..Len(cut) : cut[i] = Torn \/ (i <= n /\ cut[i] = log[i])
  <2>1. CASE within
    <3> DEFINE d == <<Torn>>
    <3>1. d \in Seq(X) /\ Len(d) = 1 /\ d[1] = Torn
      OBVIOUS
    <3>2. cut = s \o d
      BY <2>1 DEF CutAt
    <3> HIDE DEF s, d, X, cut
    <3>3. /\ cut \in Seq(X)
          /\ Len(cut) = Len(s) + Len(d)
          /\ \A i \in 1..(Len(s) + Len(d)) : cut[i] = IF i <= Len(s) THEN s[i] ELSE d[i - Len(s)]
      BY <1>2, <3>1, <3>2, ConcatProperties
    <3> QED BY <1>1, <1>2, <3>1, <3>3
  <2>2. CASE ~within
    <3> DEFINE d == <<>>
    <3>1. d \in Seq(X) /\ Len(d) = 0
      BY EmptySeq
    <3>2. cut = s \o d
      BY <2>2 DEF CutAt
    <3> HIDE DEF s, d, X, cut
    <3>3. /\ cut \in Seq(X)
          /\ Len(cut) = Len(s) + Len(d)
          /\ \A i \in 1..(Len(s) + Len(d)) : cut[i] = IF i <= Len(s) THEN s[i] ELSE d[i - Len(s)]
      BY <1>2, <3>1, <3>2, ConcatProperties
    <3> QED BY <1>1, <1>2, <3>1, <3>3
  <2> QED BY <2>1, <2>2
<1> HIDE DEF cut
<1>4. \E m \in 0..Len(log) : ReadAll(cut) = SubSeq(log, 1, m)
  <2> HIDE DEF X, s
  <2>1. \A i \in 1..Len(cut) : cut[i] = Torn \/ (i <= Len(log) /\ cut[i] = log[i])
    BY <1>1, <1>3
  <2> QED BY <1>3, <2>1, ReadsPrefix
<1>5. ASSUME NEW i \in DOMAIN cut
      PROVE  \E m \in 0..Len(log) : ReadAll(Flipped(cut, i)) = SubSeq(log, 1, m)
  <2> DEFINE f == Flipped(cut, i)
  <2>1. Torn \in X
    OBVIOUS
  <2> HIDE DEF X, s
  <2>2. DOMAIN cut = 1..Len(cut) /\ Len(cut) \in Nat /\ cut \in [1..Len(cut) -> X]
    BY <1>3, LenProperties
  <2>3. f = [cut EXCEPT ![i] = Torn]
    BY DEF Flipped
  <2>4. f \in [1..Len(cut) -> X]
    BY <2>1, <2>2, <2>3
  <2>5. f \in Seq(X) /\ Len(f) = Len(cut)
    <3> HIDE DEF f
    <3>1. f \in Seq(X)
      BY <2>2, <2>4, SeqDef
    <3> QED BY <2>2, <2>4, <3>1, LenProperties
  <2>6. \A k \in 1..Len(f) : f[k] = Torn \/ f[k] = cut[k]
    BY <2>2, <2>3, <2>5
  <2>7. \A k \in 1..Len(f) : f[k] = Torn \/ (k <= Len(log) /\ f[k] = log[k])
    BY <1>1, <1>3, <2>5, <2>6
  <2> HIDE DEF f
  <2> QED BY <2>5, <2>7, ReadsPrefix DEF f
<1> QED BY <1>4, <1>5 DEF cut

\* One more record of the current transaction, which may be its last.
LEMMA LogGrows ==
    ASSUME HarnessAssumption, HarnessInv, phase = "run", phase' = phase, txn <= MaxTxns,
           NEW type \in {"Data", "Commit", "Abort"},
           log' = Append(log, Record(type)),
           txn' = IF type = "Data" THEN txn ELSE txn + 1
    PROVE  HarnessInv'
<1> DEFINE rec == Record(type)
           n == Len(log)
<1>1. log \in Seq(HarnessRecord) /\ n \in Nat /\ txn \in Nat /\ txn >= 1 /\ MaxTxns \in Nat
  BY LenProperties DEF HarnessInv, HarnessAssumption
<1>2. rec.lsn = n + 1 /\ rec.txn = txn /\ rec.type = type /\ rec \in HarnessRecord
  BY <1>1 DEF Record, HarnessRecord, RecordOf
<1> HIDE DEF rec
<1>3. /\ log' \in Seq(HarnessRecord)
      /\ Len(log') = n + 1
      /\ \A i \in 1..n : log'[i] = log[i]
      /\ log'[n + 1] = rec
  BY <1>1, <1>2, AppendProperties DEF rec
<1>4. \A i \in 1..n : /\ log[i] \in HarnessRecord
                      /\ log[i].lsn = i /\ log[i].txn <= txn
                      /\ log[i].type \in Ended => log[i].txn < txn
  <2>1. \A i \in 1..n : log[i] \in HarnessRecord
    BY <1>1, ElementOfSeq
  <2> QED BY <2>1 DEF HarnessInv
<1>5. \A i \in 1..n : log[i].txn \in Nat
  BY <1>4 DEF HarnessRecord, RecordOf
<1>6. txn' \in Nat /\ txn' >= 1 /\ txn <= txn' /\ (type \in Ended => txn < txn')
  BY <1>1 DEF Ended
<1>7. \A i \in 1..Len(log') : i \in 1..n \/ i = n + 1
  BY <1>1, <1>3
<1>8. \A i \in 1..Len(log') : log'[i].lsn = i /\ log'[i].txn <= txn'
  BY <1>1, <1>2, <1>3, <1>4, <1>5, <1>6, <1>7
<1>9. \A i \in 1..Len(log') : log'[i].type \in Ended => log'[i].txn < txn'
  BY <1>1, <1>2, <1>3, <1>4, <1>5, <1>6, <1>7
<1>10. \A i, j \in 1..Len(log') : i < j => log'[i].txn <= log'[j].txn
  <2> SUFFICES ASSUME NEW i \in 1..Len(log'), NEW j \in 1..Len(log'), i < j
               PROVE  log'[i].txn <= log'[j].txn
    OBVIOUS
  <2>1. i \in 1..n
    BY <1>1, <1>3
  <2>2. CASE j \in 1..n
    BY <1>3, <2>1, <2>2 DEF HarnessInv
  <2>3. CASE j = n + 1
    BY <1>2, <1>3, <1>4, <2>1, <2>3
  <2> QED BY <1>7, <2>2, <2>3
<1>11. \A i, j \in 1..Len(log') : i < j /\ log'[i].type \in Ended => log'[i].txn < log'[j].txn
  <2> SUFFICES ASSUME NEW i \in 1..Len(log'), NEW j \in 1..Len(log'), i < j, log'[i].type \in Ended
               PROVE  log'[i].txn < log'[j].txn
    OBVIOUS
  <2>1. i \in 1..n
    BY <1>1, <1>3
  <2>2. CASE j \in 1..n
    BY <1>3, <2>1, <2>2 DEF HarnessInv
  <2>3. CASE j = n + 1
    BY <1>2, <1>3, <1>4, <2>1, <2>3
  <2> QED BY <1>7, <2>2, <2>3
<1> QED BY <1>3, <1>6, <1>8, <1>9, <1>10, <1>11 DEF HarnessInv

\* A crash leaves a prefix to read.
LEMMA CrashLeavesPrefix ==
    ASSUME HarnessInv, CrashInMemory \/ CrashOnDisk
    PROVE  HarnessInv'
<1>1. log' = log /\ txn' = txn /\ log \in Seq(HarnessRecord)
  BY DEF CrashInMemory, CrashOnDisk, HarnessInv
<1>2. \E m \in 0..Len(log) : Surviving' = SubSeq(log, 1, m)
  <2>1. CASE CrashInMemory
    <3>1. phase' = "memory" /\ \E m \in 0..Len(log) : crashed_log' = SubSeq(log, 1, m)
      BY <2>1 DEF CrashInMemory
    <3> QED BY <3>1 DEF Surviving
  <2>2. CASE CrashOnDisk
    <3>1. PICK n \in 0..Len(log), within \in BOOLEAN :
             \/ crashed_log' = CutAt(n, within)
             \/ \E i \in DOMAIN CutAt(n, within) : crashed_log' = Flipped(CutAt(n, within), i)
      BY <2>2 DEF CrashOnDisk
    <3>2. phase' = "disk"
      BY <2>2 DEF CrashOnDisk
    <3>3. Surviving' = ReadAll(crashed_log')
      BY <3>2 DEF Surviving, ReadAll
    <3>4. /\ \E m \in 0..Len(log) : ReadAll(CutAt(n, within)) = SubSeq(log, 1, m)
          /\ \A i \in DOMAIN CutAt(n, within) :
                 \E m \in 0..Len(log) : ReadAll(Flipped(CutAt(n, within), i)) = SubSeq(log, 1, m)
      BY <1>1, CutsReadPrefix
    <3> QED BY <3>1, <3>3, <3>4
  <2> QED BY <2>1, <2>2
<1> QED BY <1>1, <1>2 DEF HarnessInv

LEMMA HarnessStart ==
    ASSUME HarnessInit
    PROVE  HarnessInv
<1>1. log = <<>> /\ txn = 1 /\ phase = "run"
  BY DEF HarnessInit
<1>2. log \in Seq(HarnessRecord) /\ Len(log) = 0
  BY <1>1, EmptySeq
<1>3. \A i \in 1..Len(log) : FALSE
  BY <1>2
<1> QED BY <1>1, <1>2, <1>3 DEF HarnessInv

LEMMA HarnessStep ==
    ASSUME HarnessAssumption, HarnessInv, HarnessNext
    PROVE  HarnessInv'
<1>1. CASE HarnessAppend
  <2>1. /\ phase = "run" /\ phase' = phase /\ txn <= MaxTxns
        /\ log' = Append(log, Record("Data")) /\ txn' = txn
    BY <1>1 DEF HarnessAppend
  <2> QED BY <2>1, LogGrows
<1>2. CASE \E how \in {"Commit", "Abort", "InFlight"} : EndTxn(how)
  <2>1. PICK how \in {"Commit", "Abort", "InFlight"} : EndTxn(how)
    BY <1>2
  <2>2. /\ phase = "run" /\ phase' = phase /\ txn <= MaxTxns
        /\ log' = IF how = "InFlight" THEN log ELSE Append(log, Record(how))
        /\ txn' = txn + 1
    BY <2>1 DEF EndTxn
  <2>3. CASE how = "InFlight"
    <3>1. log' = log /\ txn \in Nat /\ txn' \in Nat /\ txn < txn'
      BY <2>2, <2>3 DEF HarnessInv
    <3>2. \A i \in 1..Len(log) : log[i].txn \in Nat
      <4>1. \A i \in 1..Len(log) : log[i] \in HarnessRecord
        BY ElementOfSeq DEF HarnessInv
      <4> QED BY <4>1 DEF HarnessRecord, RecordOf
    <3>3. \A i \in 1..Len(log) : log[i].txn <= txn' /\ (log[i].type \in Ended => log[i].txn < txn')
      BY <3>1, <3>2 DEF HarnessInv
    <3> QED BY <2>2, <3>1, <3>3 DEF HarnessInv
  <2>4. CASE how \in {"Commit", "Abort"}
    <3>1. /\ how \in {"Data", "Commit", "Abort"} /\ log' = Append(log, Record(how))
          /\ txn' = IF how = "Data" THEN txn ELSE txn + 1
      BY <2>2, <2>4
    <3> QED BY <2>2, <3>1, LogGrows
  <2> QED BY <2>3, <2>4
<1>3. CASE CrashInMemory \/ CrashOnDisk
  BY <1>3, CrashLeavesPrefix
<1> QED BY <1>1, <1>2, <1>3 DEF HarnessNext

LEMMA HarnessRests ==
    ASSUME HarnessInv, UNCHANGED harness_vars
    PROVE  HarnessInv'
BY DEF HarnessInv, harness_vars, Surviving, ReadAll

\* What the invariant says of a prefix of the log.
PrefixOf(s, n) == /\ n \in 0..Len(log)
                  /\ s \in Seq(HarnessRecord)
                  /\ Len(s) = n
                  /\ \A i \in 1..n : i \in 1..Len(log) /\ s[i] = log[i]

LEMMA PrefixIsPrefix ==
    ASSUME log \in Seq(HarnessRecord), NEW n \in 0..Len(log)
    PROVE  PrefixOf(SubSeq(log, 1, n), n)
<1>1. Len(log) \in Nat
  BY LenProperties
<1>2. \A i \in 1..n : i \in 1..Len(log)
  BY <1>1
<1>3. \A i \in 1..n : log[i] \in HarnessRecord
  BY <1>2, ElementOfSeq
<1>4. n \in Nat
  BY <1>1
<1>5. /\ SubSeq(log, 1, n) \in Seq(HarnessRecord)
      /\ Len(SubSeq(log, 1, n)) = n
      /\ \A i \in 1..n : SubSeq(log, 1, n)[i] = log[i]
  BY <1>3, <1>4, SubSeqProperties
<1> QED BY <1>2, <1>5 DEF PrefixOf

\* The record that ends a transaction is its only one of that kind and its last.
LEMMA OneEnd ==
    ASSUME HarnessInv, NEW i \in 1..Len(log), NEW j \in 1..Len(log),
           log[i].type \in Ended, log[j].txn = log[i].txn
    PROVE  j <= i
<1>1. Len(log) \in Nat /\ log[i] \in HarnessRecord
  BY LenProperties, ElementOfSeq DEF HarnessInv
<1>2. log[i].txn \in Nat
  BY <1>1 DEF HarnessRecord, RecordOf
<1>3. i < j => log[i].txn < log[j].txn
  BY DEF HarnessInv
<1> QED BY <1>1, <1>2, <1>3

\* Winners and losers of a prefix by its records alone.
LEMMA PrefixOutcomes ==
    ASSUME HarnessInv, NEW s, NEW n, PrefixOf(s, n)
    PROVE  /\ \A t : t \in Analyze(s).committed_txns <=> Has(s, t, "Commit")
           /\ \A t : t \in Analyze(s).loser_txns <=> /\ Has(s, t, "Data")
                                                     /\ ~Has(s, t, "Commit")
                                                     /\ ~Has(s, t, "Abort")
<1>1. /\ s \in Seq(HarnessRecord) /\ Len(s) = n /\ n \in Nat
      /\ \A i \in 1..n : i \in 1..Len(log) /\ s[i] = log[i]
  BY LenProperties DEF PrefixOf
<1>2. /\ \A t : t \in Analyze(s).committed_txns <=> WonBy(s, n, t)
      /\ \A t : t \in Analyze(s).loser_txns <=> OpenAt(s, n, t)
  <2>1. s \in Seq(RecordOf(Nat, 1..MaxTxns))
    BY <1>1 DEF HarnessRecord
  <2> QED BY <1>1, <2>1, AnalyzeIsExact
<1>3. \A t : WonBy(s, n, t) <=> Has(s, t, "Commit")
  BY <1>1 DEF WonBy, Has
<1>4. \A t : OpenAt(s, n, t) <=> Has(s, t, "Data") /\ ~Has(s, t, "Commit") /\ ~Has(s, t, "Abort")
  <2> TAKE t
  <2>1. ASSUME OpenAt(s, n, t)
        PROVE  Has(s, t, "Data") /\ ~Has(s, t, "Commit") /\ ~Has(s, t, "Abort")
    <3>1. PICK j \in 1..n : /\ s[j].txn = t /\ s[j].type = "Data"
                            /\ \A k \in 1..n : j < k => ~Ends(s[k], t)
      BY <2>1 DEF OpenAt
    <3>2. \A k \in 1..n : ~Ends(s[k], t)
      <4> SUFFICES ASSUME NEW k \in 1..n, Ends(s[k], t) PROVE FALSE
        OBVIOUS
      <4>1. k \in 1..Len(log) /\ j \in 1..Len(log) /\ s[k] = log[k] /\ s[j] = log[j]
        BY <1>1
      <4>2. log[k].type \in Ended /\ log[j].txn = log[k].txn
        BY <3>1, <4>1 DEF Ends, Ended
      <4>3. j <= k
        BY <4>1, <4>2, OneEnd
      <4>4. j # k
        BY <3>1, <4>1, <4>2 DEF Ended
      <4> QED BY <1>1, <3>1, <4>3, <4>4
    <3> QED BY <1>1, <3>1, <3>2 DEF Has, Ends
  <2>2. ASSUME Has(s, t, "Data"), ~Has(s, t, "Commit"), ~Has(s, t, "Abort")
        PROVE  OpenAt(s, n, t)
    <3>1. \A k \in 1..n : ~Ends(s[k], t)
      BY <1>1, <2>2 DEF Has, Ends
    <3> QED BY <1>1, <2>2, <3>1 DEF Has, OpenAt
  <2> QED BY <2>1, <2>2
<1> QED BY <1>2, <1>3, <1>4

\* An end in the log, and the last record of its transaction.
LEMMA WasEndedAt ==
    ASSUME HarnessInv, NEW t, NEW type \in Ended, WasEnded(t, type)
    PROVE  \E e \in 1..Len(log) : log[e].txn = t /\ log[e].type = type /\ LastOf(t) = e
<1>1. DOMAIN log = 1..Len(log) /\ Len(log) \in Nat
  BY LenProperties DEF HarnessInv
<1>2. PICK e \in 1..Len(log) : log[e] = [lsn |-> e, txn |-> t, type |-> type]
  BY <1>1 DEF WasEnded
<1>3. log[e].txn = t /\ log[e].type = type
  BY <1>2
<1>4. \A j \in 1..Len(log) : log[j].txn = t => j <= e
  BY <1>3, OneEnd
<1> DEFINE last == LastOf(t)
<1>5. last \in DOMAIN log /\ log[last].txn = t /\ \A j \in DOMAIN log : log[j].txn = t => j <= last
  BY <1>1, <1>3, <1>4 DEF LastOf
<1> HIDE DEF last
<1>6. last = e
  BY <1>1, <1>3, <1>4, <1>5
<1> QED BY <1>3, <1>6 DEF last

LEMMA EndWasWritten ==
    ASSUME HarnessInv, NEW i \in 1..Len(log), NEW t, NEW type, log[i].txn = t, log[i].type = type
    PROVE  WasEnded(t, type)
<1>1. DOMAIN log = 1..Len(log) /\ log[i] \in HarnessRecord
  BY LenProperties, ElementOfSeq DEF HarnessInv
<1>2. log[i].lsn = i
  BY DEF HarnessInv
<1>3. log[i] = [lsn |-> i, txn |-> t, type |-> type]
  BY <1>1, <1>2 DEF HarnessRecord, RecordOf
<1> QED BY <1>1, <1>3 DEF WasEnded

\* Only the transaction across the cut can lose its end.
LEMMA OneCutLoser ==
    ASSUME HarnessInv, NEW s, NEW n, PrefixOf(s, n)
    PROVE  Cardinality({t \in Analyze(s).loser_txns : WasEnded(t, "Commit") \/ WasEnded(t, "Abort")}) <= 1
<1> DEFINE L == {t \in Analyze(s).loser_txns : WasEnded(t, "Commit") \/ WasEnded(t, "Abort")}
<1>1. /\ Len(s) = n /\ n \in Nat /\ Len(log) \in Nat
      /\ \A i \in 1..n : i \in 1..Len(log) /\ s[i] = log[i]
  BY LenProperties DEF PrefixOf, HarnessInv
<1>2. ASSUME NEW t \in L
      PROVE  /\ t \in Nat
             /\ \E i \in 1..n, e \in 1..Len(log) : /\ log[i].txn = t
                                                   /\ n < e /\ log[e].txn = t
  <2>1. Has(s, t, "Data") /\ ~Has(s, t, "Commit") /\ ~Has(s, t, "Abort")
    BY <1>2, PrefixOutcomes
  <2>2. PICK i \in 1..n : log[i].txn = t /\ i \in 1..Len(log)
    BY <1>1, <2>1 DEF Has
  <2>3. log[i] \in HarnessRecord
    BY <2>2, ElementOfSeq DEF HarnessInv
  <2>4. t \in Nat
    BY <2>2, <2>3 DEF HarnessRecord, RecordOf
  <2>5. PICK type \in {"Commit", "Abort"} : WasEnded(t, type)
    OBVIOUS
  <2>6. type \in Ended
    BY DEF Ended
  <2>7. PICK e \in 1..Len(log) : log[e].txn = t /\ log[e].type = type
    BY <2>5, <2>6, WasEndedAt
  <2>8. ~(e \in 1..n)
    BY <1>1, <2>1, <2>7 DEF Has
  <2>9. n < e
    BY <1>1, <2>8
  <2> QED BY <2>2, <2>4, <2>7, <2>9
<1>3. ASSUME NEW t \in L, NEW u \in L, t < u
      PROVE  FALSE
  <2>1. t \in Nat /\ u \in Nat
    BY <1>2
  <2>2. PICK e \in 1..Len(log) : n < e /\ log[e].txn = t
    BY <1>2
  <2>3. PICK i \in 1..n : log[i].txn = u
    BY <1>2
  <2>4. i \in 1..Len(log) /\ i < e
    BY <1>1, <2>2, <2>3
  <2>5. log[i].txn <= log[e].txn
    BY <2>4 DEF HarnessInv
  <2> QED BY <1>3, <2>1, <2>2, <2>3, <2>5
<1>4. \A t, u \in L : t = u
  <2>1. \A t, u \in L : t \in Nat /\ u \in Nat /\ ~(t < u) /\ ~(u < t)
    BY <1>2, <1>3
  <2> HIDE DEF L
  <2> QED BY <2>1
<1>5. CASE L = {}
  BY <1>5, FS_EmptySet
<1>6. CASE L # {}
  <2>1. PICK t \in L : TRUE
    BY <1>6
  <2> HIDE DEF L
  <2>2. L = {t}
    BY <1>4, <2>1
  <2> QED BY <2>2, FS_Singleton DEF L
<1> QED BY <1>5, <1>6

LEMMA VerifiesFromHarnessInv ==
    ASSUME HarnessInv
    PROVE  HarnessVerifies
<1> SUFFICES ASSUME phase # "run"
             PROVE  HarnessVerifies
  BY DEF HarnessVerifies
<1> DEFINE s == Surviving
<1>1. Len(log) \in Nat /\ log \in Seq(HarnessRecord)
  BY LenProperties DEF HarnessInv
<1>2. PICK n \in 0..Len(log) : s = SubSeq(log, 1, n)
  BY DEF HarnessInv
<1>3. PrefixOf(s, n)
  BY <1>1, <1>2, PrefixIsPrefix
<1> HIDE DEF s
<1>4. /\ s \in Seq(HarnessRecord) /\ Len(s) = n /\ n \in Nat /\ n <= Len(log)
      /\ DOMAIN s = 1..n
      /\ \A i \in 1..n : i \in 1..Len(log) /\ s[i] = log[i]
  BY <1>1, <1>3, LenProperties DEF PrefixOf
<1>5. /\ \A t : t \in Analyze(s).committed_txns <=> Has(s, t, "Commit")
      /\ \A t : t \in Analyze(s).loser_txns <=> Has(s, t, "Data") /\ ~Has(s, t, "Commit") /\ ~Has(s, t, "Abort")
  BY <1>3, PrefixOutcomes
<1>6. \A type, t : t \in HarnessWith(type) <=> Has(s, t, type)
  BY <1>4 DEF HarnessWith, Has, s
<1>7. Verified
  <2>1. \A t : t \in Analyze(s).committed_txns <=> t \in ExpectedCommitted
    BY <1>5, <1>6 DEF ExpectedCommitted
  <2>2. \A t : t \in Analyze(s).loser_txns <=> t \in ExpectedLosers
    BY <1>5, <1>6 DEF ExpectedLosers
  <2>3. Analyze(s).committed_txns = ExpectedCommitted /\ Analyze(s).loser_txns = ExpectedLosers
    BY <2>1, <2>2
  <2> QED BY <2>3 DEF Verified, s
<1>8. Len(s) <= Len(log) /\ s = SubSeq(log, 1, Len(s))
  BY <1>2, <1>4
<1>9. ASSUME NEW t \in 1..MaxTxns
      PROVE  /\ t \in Analyze(s).committed_txns => WasEnded(t, "Commit")
             /\ WasEnded(t, "Commit") => (t \in Analyze(s).committed_txns) = (LastOf(t) <= Len(s))
  <2>1. ASSUME Has(s, t, "Commit") PROVE WasEnded(t, "Commit")
    <3>1. PICK i \in 1..n : s[i].txn = t /\ s[i].type = "Commit"
      BY <1>4, <2>1 DEF Has
    <3>2. i \in 1..Len(log) /\ log[i].txn = t /\ log[i].type = "Commit"
      BY <1>4, <3>1
    <3> QED BY <3>2, EndWasWritten
  <2>2. ASSUME WasEnded(t, "Commit") PROVE Has(s, t, "Commit") <=> LastOf(t) <= n
    <3>1. "Commit" \in Ended
      BY DEF Ended
    <3>2. PICK e \in 1..Len(log) : log[e].txn = t /\ log[e].type = "Commit" /\ LastOf(t) = e
      BY <2>2, <3>1, WasEndedAt
    <3>3. ASSUME e <= n PROVE Has(s, t, "Commit")
      <4>1. e \in 1..n
        BY <1>4, <3>2, <3>3
      <4> QED BY <1>4, <3>2, <4>1 DEF Has
    <3>4. ASSUME Has(s, t, "Commit") PROVE e <= n
      <4>1. PICK i \in 1..n : s[i].txn = t /\ s[i].type = "Commit"
        BY <1>4, <3>4 DEF Has
      <4>2. i \in 1..Len(log) /\ log[i].txn = t /\ log[i].type \in Ended
        BY <1>4, <4>1 DEF Ended
      <4>3. e <= i
        BY <3>2, <4>2, OneEnd
      <4> QED BY <1>4, <4>1, <4>3
    <3> QED BY <3>2, <3>3, <3>4
  <2> QED BY <1>4, <1>5, <2>1, <2>2
<1>10. Cardinality({t \in Analyze(s).loser_txns : WasEnded(t, "Commit") \/ WasEnded(t, "Abort")}) <= 1
  BY <1>3, OneCutLoser
<1> QED BY <1>7, <1>8, <1>9, <1>10, Zenon DEF HarnessVerifies, s

-----------------------------------------------------------------------------
(* The log and the chaos tests together. *)

SumInv == IInv /\ VfsInv /\ HarnessInv

LEMMA SumStep ==
    ASSUME WriteAheadLogAssumption, ChaosAssumption, HarnessAssumption, SumInv, SumNext
    PROVE  SumInv'
<1>1. IInv /\ VfsInv /\ HarnessInv
  BY DEF SumInv
<1>2. CASE Next /\ UNCHANGED vfs_vars /\ UNCHANGED harness_vars
  BY <1>1, <1>2, NextIInv, VfsRests, HarnessRests DEF SumInv
<1>3. CASE UNCHANGED vars /\ VfsNext /\ UNCHANGED harness_vars
  BY <1>1, <1>3, StutterIInv, VfsStep, HarnessRests DEF SumInv
<1>4. CASE UNCHANGED vars /\ UNCHANGED vfs_vars /\ HarnessNext
  BY <1>1, <1>4, StutterIInv, VfsRests, HarnessStep DEF SumInv
<1>5. CASE UNCHANGED vars /\ UNCHANGED vfs_vars /\ UNCHANGED harness_vars
  BY <1>1, <1>5, StutterIInv, VfsRests, HarnessRests DEF SumInv
<1>6. \/ Next /\ UNCHANGED vfs_vars /\ UNCHANGED harness_vars
      \/ UNCHANGED vars /\ VfsNext /\ UNCHANGED harness_vars
      \/ UNCHANGED vars /\ UNCHANGED vfs_vars /\ HarnessNext
      \/ UNCHANGED vars /\ UNCHANGED vfs_vars /\ UNCHANGED harness_vars
  BY Zenon DEF SumNext
<1> QED BY <1>2, <1>3, <1>4, <1>5, <1>6

\* What analyze makes of every log the writer can leave, redo and undo of it,
\* is exact; every operation of the faulty file system spoils at most the file
\* its fault is for, reboots included; and the crash tests verify every
\* workload of any number of transactions and every crash, lose no commit but
\* the one across the cut and invent none.
THEOREM RecoveryIsSafe == SumSpec => []RecoverySafe
<1>1. SumInit => SumInv
  <2>1. SumInit => Init /\ VfsInit /\ HarnessInit
    BY Zenon DEF SumInit
  <2> QED BY <2>1, WriteAheadLogAssumption, InitIInv, VfsStart, HarnessStart DEF SumInv
<1>2. SumInv /\ SumNext => SumInv'
  BY WriteAheadLogAssumption, ChaosAssumption, HarnessAssumption, SumStep
<1>3. SumInv /\ UNCHANGED <<part, vars, ship_vars, raft_vars, tcp_vars, failover_vars,
                            router_vars, net_vars, ring_vars, vfs_vars, harness_vars>> => SumInv'
  BY StutterIInv, VfsRests, HarnessRests DEF SumInv
<1>4. SumInv => RecoverySafe
  <2>1. NoTxn \notin Txn
    BY WriteAheadLogAssumption, ConfigTypes
  <2>2. IInv => TypeOK /\ AnalysisExact
    BY <2>1, AnalysisFromIInv DEF IInv
  <2> QED BY <2>2, VerifiesFromHarnessInv DEF SumInv, VfsInv, RecoverySafe
<1> QED BY <1>1, <1>2, <1>3, <1>4, PTL DEF SumSpec
=============================================================================
