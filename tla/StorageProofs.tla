---------------------------- MODULE StorageProofs ----------------------------
(***************************************************************************)
(* Proofs about BlobStore, for any hashes, number of references and faults *)
(* and any index, whatever its lookups find,                               *)
(* and about the snippets and the secondary indexes of Search, for any     *)
(* text, needles, rows, values and number of commits.                      *)
(*                                                                         *)
(* CountCovers and ReferencedReadable speak of the state between restarts; *)
(* a restart replaces the index by what is on disk, so neither is          *)
(* inductive without the same statements about the files (DiskCovers,      *)
(* DiskListed) and about the step the current call has reached.            *)
(*                                                                         *)
(* SecondaryExact compares entries with the table of each commit; it is    *)
(* inductive with what a version is (SecInv): it stays in the table from   *)
(* its commit until another replaces it, a value and a commit name one     *)
(* row, and each entry is visible exactly while its version is there.      *)
(***************************************************************************)
EXTENDS BlobStore, Search, FiniteSetTheorems, SequenceTheorems, TLAPS

\* A call in progress has a hash.
LEMMA CallHash ==
    ASSUME InvType, ~Ready
    PROVE  call \in [op : {"put_meta", "release_meta", "persist"}, hash : Hash, gain : {0, 1}]
BY DEF InvType, Ready

\* The initial state satisfies the inductive invariant.
LEMMA InitIInv == Init => IInv
<1> SUFFICES ASSUME Init PROVE IInv
  OBVIOUS
<1> USE DEF Init
<1>1. InvType
  <2>1. counts \in [Hash -> Int] /\ saved \in [Hash -> Int] /\ refs \in [Hash -> Nat]
    BY DEF Empty
  <2> QED BY <2>1 DEF InvType
<1>2. Ready /\ ~InCall("persist") /\ ~InCall("release_meta")
  BY DEF Ready, InCall, Idle
<1>3. MemoryCovers /\ CallConsistent
  BY <1>2 DEF MemoryCovers, CallConsistent, Promised, Empty
<1>4. DiskCovers
  BY DEF DiskCovers, Empty, OnDisk
<1>5. MemoryListed /\ DiskListed
  BY DEF MemoryListed, DiskListed, Empty, OnDisk
<1> QED BY <1>1, <1>3, <1>4, <1>5 DEF IInv

\* Counting another reference to known content, for put and for retain.
LEMMA PutExistingIInv ==
    ASSUME IInv, NEW h \in Hash, PutExisting(h) PROVE IInv'
<1> USE DEF PutExisting, CallTo, files, MarkForked, IInv
<1>0. ~InCall("persist") /\ ~InCall("release_meta") /\ ~InCall("put_meta")
  BY DEF Ready, InCall, Idle
<1>1. InvType'
  BY DEF InvType
<1>2. forked \subseteq forked' /\ (h \notin forked' => counts[h] > 0 \/ h \in forked)
  BY DEF Astray
<1>3. MemoryCovers'
  BY <1>0, <1>2 DEF MemoryCovers, Promised, InCall, InvType
<1>4. DiskCovers' /\ CallConsistent'
  BY <1>2 DEF DiskCovers, OnDisk, CallConsistent, InCall
<1>5. MemoryListed'
  <2>1. ASSUME h \notin forked' PROVE counts[h] > 0
    BY <2>1 DEF Astray
  <2> QED BY <1>0, <1>2, <2>1 DEF MemoryListed, Releasing, InCall, InvType
<1>6. DiskListed'
  BY <1>0, <1>2 DEF DiskListed, Releasing, StillListed, InCall, InvType, OnDisk
<1> QED BY <1>1, <1>3, <1>4, <1>5, <1>6

\* The two steps of a put of new content.
LEMMA PutBlobIInv ==
    ASSUME IInv, NEW h \in Hash, PutBlob(h) PROVE IInv'
<1> USE DEF PutBlob, CallTo, MarkForked, IInv
<1>0. ~InCall("persist") /\ ~InCall("release_meta") /\ ~InCall("put_meta")
  BY DEF Ready, InCall, Idle
<1>1. InvType'
  BY DEF InvType
<1>2. forked \subseteq forked' /\ (h \notin forked' => counts[h] = 0)
  BY DEF Astray
<1>3. MemoryCovers' /\ CallConsistent'
  BY <1>0, <1>2 DEF MemoryCovers, CallConsistent, Promised, InCall, InvType
<1>4. DiskCovers'
  <2>1. \A g \in Hash : refs[g] <= OnDisk[g] => refs[g] <= OnDisk'[g]
    BY DEF OnDisk, InvType
  <2> QED BY <1>2, <2>1 DEF DiskCovers
<1>5. MemoryListed'
  BY <1>0, <1>2 DEF MemoryListed, Releasing, InCall, InvType
<1>6. DiskListed'
  <2>1. \A g \in Hash \ {h} : OnDisk'[g] = OnDisk[g]
    BY DEF OnDisk
  <2> QED BY <1>0, <1>2, <2>1 DEF DiskListed, Releasing, StillListed, InCall
<1> QED BY <1>1, <1>3, <1>4, <1>5, <1>6

LEMMA PutMetaIInv == ASSUME IInv, PutMeta PROVE IInv'
<1> USE DEF PutMeta, CallTo, InCall, marks, IInv
<1>0. call.hash \in Hash /\ ~Ready
  BY CallHash DEF Ready, Idle
<1>1. InvType'
  BY <1>0 DEF InvType
<1>2. MemoryCovers' /\ CallConsistent'
  BY <1>0 DEF MemoryCovers, CallConsistent, Promised, InvType
<1>3. DiskCovers'
  BY DEF DiskCovers, OnDisk, InvType
<1>4. MemoryListed'
  BY <1>0 DEF MemoryListed, CallConsistent, Releasing, InvType
<1>5. DiskListed'
  <2>1. CASE index_file = NoFile
    BY <2>1 DEF DiskListed, OnDisk, InvType
  <2>2. CASE index_file # NoFile
    BY <2>2 DEF DiskListed, Releasing, StillListed, OnDisk
  <2> QED BY <2>1, <2>2
<1> QED BY <1>1, <1>2, <1>3, <1>4, <1>5

\* Giving up one reference of several.
LEMMA ReleaseCountedIInv ==
    ASSUME IInv, NEW h \in Hash, ReleaseCounted(h) PROVE IInv'
<1> USE DEF ReleaseCounted, HasReference, GiveUp, CallTo, files, MarkForked, IInv
<1>0. ~InCall("persist") /\ ~InCall("release_meta") /\ ~InCall("put_meta")
  BY DEF Ready, InCall, Idle
<1>1. InvType'
  BY DEF InvType
<1>2. forked \subseteq forked' /\ (h \notin forked' => counts[h] > 1)
  BY DEF Astray
<1>3. MemoryCovers'
  BY <1>0, <1>2 DEF MemoryCovers, Promised, InCall, InvType
<1>4. DiskCovers'
  BY <1>2 DEF DiskCovers, OnDisk, InvType
<1>5. CallConsistent' /\ MemoryListed'
  BY <1>0, <1>2 DEF CallConsistent, MemoryListed, Releasing, InCall, InvType
<1>6. DiskListed'
  BY <1>0, <1>2 DEF DiskListed, Releasing, StillListed, InCall, InvType, OnDisk
<1> QED BY <1>1, <1>3, <1>4, <1>5, <1>6

\* The two steps of giving up the last reference.
LEMMA ReleaseBlobIInv ==
    ASSUME IInv, NEW h \in Hash, ReleaseBlob(h) PROVE IInv'
<1> USE DEF ReleaseBlob, HasReference, GiveUp, CallTo, MarkForked, IInv
<1>0. ~InCall("persist") /\ ~InCall("release_meta") /\ ~InCall("put_meta")
  BY DEF Ready, InCall, Idle
<1>1. index_file # NoFile
  BY DEF DiskCovers, InvType
<1>2. InvType'
  BY DEF InvType
<1>3. forked \subseteq forked' /\ (h \notin forked' => counts[h] <= 1)
  BY DEF Astray
<1>4. MemoryCovers' /\ CallConsistent'
  <2>1. ~index_cut /\ h \notin forked' => refs'[h] = 0
    BY <1>0, <1>3 DEF MemoryCovers, Promised, InvType
  <2>2. MemoryCovers'
    BY <1>0, <1>3 DEF MemoryCovers, Promised, InCall, InvType
  <2> QED BY <2>1, <2>2 DEF CallConsistent, InCall
<1>5. DiskCovers'
  BY <1>1, <1>3 DEF DiskCovers, OnDisk, InvType
<1>6. MemoryListed'
  BY <1>0, <1>3 DEF MemoryListed, Releasing, InCall, InvType
<1>7. DiskListed'
  BY <1>0, <1>1, <1>3 DEF DiskListed, Releasing, StillListed, InCall, OnDisk
<1> QED BY <1>2, <1>4, <1>5, <1>6, <1>7

LEMMA ReleaseMetaIInv == ASSUME IInv, ReleaseMeta PROVE IInv'
<1> USE DEF ReleaseMeta, CallTo, InCall, IInv
<1>0. call.hash \in Hash /\ ~Ready
  BY CallHash DEF Ready, Idle
<1>1. InvType'
  BY <1>0 DEF InvType
<1>2. MemoryCovers' /\ CallConsistent'
  BY <1>0 DEF MemoryCovers, CallConsistent, Promised, InvType
<1>3. DiskCovers'
  <2>1. CASE index_file = NoFile
    BY <2>1 DEF DiskCovers, OnDisk, InvType
  <2>2. CASE index_file # NoFile
    BY <2>2 DEF DiskCovers, OnDisk, InvType
  <2> QED BY <2>1, <2>2
<1>4. MemoryListed'
  BY <1>0 DEF MemoryListed, Releasing, InvType
<1>5. DiskListed'
  <2>1. CASE index_file = NoFile
    BY <2>1 DEF DiskListed, OnDisk, InvType
  <2>2. CASE index_file # NoFile
    BY <1>0, <2>2 DEF DiskListed, Releasing, StillListed, InvType, OnDisk
  <2> QED BY <2>1, <2>2
<1> QED BY <1>1, <1>2, <1>3, <1>4, <1>5

\* The index reaches the file and the caller has its answer.
LEMMA PersistIndexIInv == ASSUME IInv, PersistIndex PROVE IInv'
<1> USE DEF PersistIndex, Answer, InCall, IInv
<1>0. call.hash \in Hash /\ call.gain \in {0, 1} /\ ~Ready
  BY CallHash DEF Ready, Idle
<1>1. InvType'
  <2>1. refs' \in [Hash -> Nat]
    BY <1>0 DEF InvType
  <2>2. orphaned' \subseteq Hash
    BY DEF InvType
  <2> QED BY <2>1, <2>2 DEF InvType
<1>2. \A h \in Hash : refs'[h] = refs[h] + Promised(h)
  BY <1>0 DEF Promised, InvType
<1>3. Ready' /\ call'.op = "idle"
  BY DEF Ready, Idle
<1>4. MemoryCovers' /\ CallConsistent'
  <2>1. \A h \in Hash : Promised(h)' = 0
    BY <1>3 DEF Promised
  <2>2. MemoryCovers'
    BY <1>1, <1>2, <2>1 DEF MemoryCovers, InvType
  <2> QED BY <1>3, <2>2 DEF CallConsistent
<1>5. OnDisk' = counts /\ index_file' # NoFile
  BY DEF OnDisk, File, NoFile
<1>6. DiskCovers'
  <2>1. ~index_cut => \A h \in Hash \ forked : refs'[h] <= counts[h]
    BY <1>2 DEF MemoryCovers
  <2> QED BY <1>5, <2>1 DEF DiskCovers
<1>7. MemoryListed'
  BY <1>3 DEF MemoryListed, Releasing, InvType
<1>8. DiskListed'
  BY <1>3, <1>5, <1>7 DEF DiskListed, MemoryListed, Releasing, StillListed
<1> QED BY <1>1, <1>4, <1>6, <1>7, <1>8

\* A write of the index that ends early leaves a file that is unchanged or one
\* marked as cut.
LEMMA WriteCutFile ==
    ASSUME InvType, WriteCut
    PROVE  /\ file_cut' \in BOOLEAN
           /\ \/ index_file' = index_file /\ file_cut' = file_cut
              \/ file_cut' = TRUE /\ index_file' # NoFile
<1>1. CASE UNCHANGED <<index_file, file_cut>>
  BY <1>1 DEF InvType
<1>2. ASSUME NEW listed, index_file' = File(listed)
      PROVE  index_file' # NoFile
  BY <1>2 DEF File, NoFile
<1> QED BY <1>1, <1>2 DEF WriteCut

\* The call in progress ends with an error.
LEMMA OperationFailsIInv == ASSUME IInv, OperationFails PROVE IInv'
<1> USE DEF OperationFails, IInv
<1>0. call \in [op : {"put_meta", "release_meta", "persist"}, hash : Hash, gain : {0, 1}]
  BY CallHash
<1>1. /\ file_cut' \in BOOLEAN
      /\ \/ index_file' = index_file /\ file_cut' = file_cut
         \/ file_cut' = TRUE /\ index_file' # NoFile
  BY WriteCutFile
<1>2. Ready' /\ call'.op = "idle"
  BY DEF Ready, Idle
<1>3. InvType'
  BY <1>0, <1>1 DEF InvType, OrphanedBy, StillListed, InCall
<1>4. MemoryCovers' /\ CallConsistent'
  BY <1>0, <1>2 DEF MemoryCovers, CallConsistent, Promised, InCall, InvType
<1>5. DiskCovers'
  BY <1>1 DEF DiskCovers, OnDisk
<1>6. MemoryListed'
  BY <1>2 DEF MemoryListed, Releasing, OrphanedBy, InCall
<1>7. DiskListed'
  BY <1>1, <1>2 DEF DiskListed, Releasing, StillListed, OrphanedBy, InCall, OnDisk
<1> QED BY <1>3, <1>4, <1>5, <1>6, <1>7

\* The process ends and the store is opened again.
LEMMA RestartIInv == ASSUME IInv, Restart PROVE IInv'
<1> USE DEF Restart, IInv
<1>1. /\ file_cut' \in BOOLEAN
      /\ \/ index_file' = index_file /\ file_cut' = file_cut
         \/ file_cut' = TRUE /\ index_file' # NoFile
  BY WriteCutFile
<1>2. Ready' /\ call'.op = "idle"
  BY DEF Ready, Idle
<1>3. InvType'
  <2>1. OrphanedBy(call) \cup StillListed \subseteq Hash
    BY CallHash DEF InvType, OrphanedBy, StillListed, InCall, Ready, Idle
  <2>2. counts' \in [Hash -> Int]
    BY DEF OnDisk, InvType
  <2> QED BY <1>1, <2>1, <2>2 DEF InvType
<1>4. ASSUME ~index_cut'
      PROVE  ~index_cut /\ ~file_cut /\ ~file_cut' /\ index_file' = index_file /\ OnDisk' = OnDisk
  BY <1>1, <1>4 DEF OnDisk, InvType
<1>5. MemoryCovers' /\ CallConsistent'
  BY <1>2, <1>4 DEF MemoryCovers, DiskCovers, CallConsistent, Promised, InCall, InvType
<1>6. DiskCovers'
  BY <1>1, <1>4 DEF DiskCovers
<1>7. MemoryListed'
  BY <1>2, <1>4 DEF MemoryListed, DiskListed, Releasing, OrphanedBy, InCall
<1>8. DiskListed'
  BY <1>2, <1>4, <1>7 DEF DiskListed, MemoryListed, Releasing, StillListed, InCall
<1> QED BY <1>3, <1>5, <1>6, <1>7, <1>8

\* IInv is an invariant of the store, whatever the tree finds.
THEOREM StoreInvariant == Spec => []IInv
<1>1. ASSUME IInv, [Next]_vars PROVE IInv'
  <2>1. CASE UNCHANGED vars
    BY <1>1, <2>1 DEF vars, files, marks, IInv, InvType, MemoryCovers, DiskCovers,
       CallConsistent, MemoryListed, DiskListed, Promised, Releasing, StillListed, InCall,
       Ready, OnDisk
  <2>2. ASSUME NEW h \in Hash, PutExisting(h) PROVE IInv'
    BY <1>1, <2>2, PutExistingIInv
  <2>3. ASSUME NEW h \in Hash, Retain(h) PROVE IInv'
    BY <1>1, <2>3, PutExistingIInv DEF Retain
  <2>4. ASSUME NEW h \in Hash, PutBlob(h) PROVE IInv'
    BY <1>1, <2>4, PutBlobIInv
  <2>5. ASSUME NEW h \in Hash, ReleaseCounted(h) PROVE IInv'
    BY <1>1, <2>5, ReleaseCountedIInv
  <2>6. ASSUME NEW h \in Hash, ReleaseBlob(h) PROVE IInv'
    BY <1>1, <2>6, ReleaseBlobIInv
  <2>7. CASE PutMeta
    BY <1>1, <2>7, PutMetaIInv
  <2>8. CASE ReleaseMeta
    BY <1>1, <2>8, ReleaseMetaIInv
  <2>9. CASE PersistIndex
    BY <1>1, <2>9, PersistIndexIInv
  <2>10. CASE OperationFails
    BY <1>1, <2>10, OperationFailsIInv
  <2>11. CASE Restart
    BY <1>1, <2>11, RestartIInv
  <2> QED
    BY <1>1, <2>1, <2>2, <2>3, <2>4, <2>5, <2>6, <2>7, <2>8, <2>9, <2>10, <2>11 DEF Next
<1> QED BY <1>1, InitIInv, PTL DEF Spec

\* Where the tree finds what the calls have put, it never finds a count below
\* the references that tables hold, through failures and restarts.
THEOREM CountsCover == Spec => []CountCovers
<1>1. ASSUME IInv, ~index_cut, NEW h \in Hash \ forked, ~Astray(h)
      PROVE  refs[h] <= IndexGet(index, h)
  <2>1. Promised(h) \in {0, 1} /\ refs[h] \in Nat /\ counts[h] \in Int
    BY <1>1, CallHash DEF IInv, InvType, Promised, InCall, Ready, Idle
  <2>2. refs[h] + Promised(h) <= counts[h]
    BY <1>1 DEF IInv, MemoryCovers
  <2> QED BY <1>1, <2>1, <2>2 DEF Astray
<1>2. IInv => CountCovers
  BY <1>1 DEF CountCovers
<1> QED BY <1>2, StoreInvariant, PTL

\* The file of a referenced blob is there, and found unless a lookup is led
\* astray, but for the exceptions in the statement.
THEOREM ReferencedBlobsReadable == Spec => []ReferencedReadable
<1>1. ASSUME IInv, ~index_cut, NEW h \in Hash \ (orphaned \cup forked), refs[h] > 0
      PROVE  h \in blob /\ (Astray(h) \/ IndexGet(index, h) > 0)
  <2>1. Promised(h) \in {0, 1} /\ refs[h] \in Nat /\ counts[h] \in Int
    BY <1>1, CallHash DEF IInv, InvType, Promised, InCall, Ready, Idle
  <2>2. counts[h] > 0
    BY <1>1, <2>1 DEF IInv, MemoryCovers
  <2>3. h \notin Releasing
    BY <1>1 DEF IInv, InvType, CallConsistent, Releasing, InCall, Ready, Idle
  <2> QED BY <1>1, <2>2, <2>3 DEF IInv, MemoryListed, Astray
<1>2. IInv => ReferencedReadable
  BY <1>1 DEF ReferencedReadable
<1> QED BY <1>2, StoreInvariant, PTL

-----------------------------------------------------------------------------
(* Without failures the counts are exact: the same statement for the steps *)
(* inside a call, where the index, the files and the references that       *)
(* tables hold are changed one after the other.                            *)

\* The counts are of the references held, the one a put or retain has still to
\* answer for, and, until its entry goes, the last one of a release.
CountsExact == \A h \in Hash \ forked :
    counts[h] = refs[h] + (IF h \notin Releasing THEN Promised(h) ELSE 1)

\* The file of a new blob is there before its entry and gone before it is.
Storing == IF InCall("put_meta") THEN {call.hash} ELSE {}

FilesExact == /\ \A h \in Hash \ forked : h \in blob <=> (counts[h] > 0 /\ h \notin Releasing)
                                                         \/ h \in Storing
              /\ \A h \in Hash \ forked : h \in meta <=> counts[h] > 0
              /\ InCall("persist") \/ index_file \in {File(IndexIter(index)), NoFile}
              /\ ~Ready /\ call.hash \notin forked =>
                   /\ InCall("put_meta") => counts[call.hash] = 0
                   /\ InCall("release_meta") => refs[call.hash] = 0

ExactInv == faults = 0 => CountsExact /\ FilesExact

LEMMA ExactPutExisting ==
    ASSUME IInv, CountsExact, FilesExact, NEW h \in Hash, PutExisting(h)
    PROVE  CountsExact' /\ FilesExact'
<1> USE DEF PutExisting, CallTo, files, MarkForked, Releasing, Promised, Storing, InCall
<1>1. counts \in [Hash -> Int] /\ refs \in [Hash -> Nat] /\ call.op = "idle"
  BY DEF IInv, InvType, Ready, Idle
<1>2. forked \subseteq forked' /\ (h \notin forked' => counts[h] > 0)
  BY DEF Astray
<1>3. CountsExact'
  BY <1>1, <1>2 DEF CountsExact
<1>4. FilesExact'
  BY <1>1, <1>2 DEF FilesExact
<1> QED BY <1>3, <1>4

LEMMA ExactPutBlob ==
    ASSUME IInv, CountsExact, FilesExact, NEW h \in Hash, PutBlob(h)
    PROVE  CountsExact' /\ FilesExact'
<1> USE DEF PutBlob, CallTo, MarkForked, Releasing, Promised, Storing, InCall
<1>1. counts \in [Hash -> Int] /\ refs \in [Hash -> Nat] /\ call.op = "idle"
  BY DEF IInv, InvType, Ready, Idle
<1>2. forked \subseteq forked' /\ (h \notin forked' => counts[h] = 0)
  BY DEF Astray
<1>3. CountsExact'
  BY <1>1, <1>2 DEF CountsExact
<1>4. FilesExact'
  BY <1>1, <1>2 DEF FilesExact
<1> QED BY <1>3, <1>4

LEMMA ExactPutMeta ==
    ASSUME IInv, CountsExact, FilesExact, PutMeta
    PROVE  CountsExact' /\ FilesExact'
<1> USE DEF PutMeta, CallTo, marks, Releasing, Promised, Storing, InCall
<1>1. /\ counts \in [Hash -> Int] /\ refs \in [Hash -> Nat]
      /\ call.hash \in Hash /\ ~Ready
  BY CallHash DEF IInv, InvType, Ready, Idle
<1>2. call.hash \notin forked => counts[call.hash] = 0 /\ refs[call.hash] = 0
  BY <1>1 DEF FilesExact, CountsExact
<1>3. CountsExact'
  BY <1>1, <1>2 DEF CountsExact
<1>4. FilesExact'
  BY <1>1, <1>2 DEF FilesExact
<1> QED BY <1>3, <1>4

LEMMA ExactReleaseCounted ==
    ASSUME IInv, CountsExact, FilesExact, NEW h \in Hash, ReleaseCounted(h)
    PROVE  CountsExact' /\ FilesExact'
<1> USE DEF ReleaseCounted, HasReference, GiveUp, CallTo, files, MarkForked, Releasing,
            Promised, Storing, InCall
<1>1. counts \in [Hash -> Int] /\ refs \in [Hash -> Nat] /\ call.op = "idle"
  BY DEF IInv, InvType, Ready, Idle
<1>2. forked \subseteq forked' /\ (h \notin forked' => counts[h] > 1)
  BY DEF Astray
<1>3. CountsExact'
  BY <1>1, <1>2 DEF CountsExact
<1>4. FilesExact'
  BY <1>1, <1>2 DEF FilesExact
<1> QED BY <1>3, <1>4

LEMMA ExactReleaseBlob ==
    ASSUME IInv, CountsExact, FilesExact, NEW h \in Hash, ReleaseBlob(h)
    PROVE  CountsExact' /\ FilesExact'
<1> USE DEF ReleaseBlob, HasReference, GiveUp, CallTo, MarkForked, Releasing, Promised,
            Storing, InCall
<1>1. counts \in [Hash -> Int] /\ refs \in [Hash -> Nat] /\ call.op = "idle"
  BY DEF IInv, InvType, Ready, Idle
<1>2. forked \subseteq forked' /\ (h \notin forked' => counts[h] <= 1)
  BY DEF Astray
<1>3. CountsExact'
  BY <1>1, <1>2 DEF CountsExact
<1>4. h \notin forked' => refs'[h] = 0
  BY <1>1, <1>2 DEF CountsExact
<1>5. FilesExact'
  BY <1>1, <1>2, <1>4 DEF FilesExact, CountsExact
<1> QED BY <1>3, <1>5

LEMMA ExactReleaseMeta ==
    ASSUME IInv, CountsExact, FilesExact, ReleaseMeta
    PROVE  CountsExact' /\ FilesExact'
<1> USE DEF ReleaseMeta, CallTo, Releasing, Promised, Storing, InCall
<1>1. /\ counts \in [Hash -> Int] /\ refs \in [Hash -> Nat]
      /\ call.hash \in Hash /\ ~Ready
  BY CallHash DEF IInv, InvType, Ready, Idle
<1>2. call.hash \notin forked => refs[call.hash] = 0
  BY <1>1 DEF FilesExact
<1>3. CountsExact'
  BY <1>1, <1>2 DEF CountsExact
<1>4. FilesExact'
  BY <1>1, <1>2 DEF FilesExact
<1> QED BY <1>3, <1>4

LEMMA ExactPersistIndex ==
    ASSUME IInv, CountsExact, FilesExact, PersistIndex
    PROVE  CountsExact' /\ FilesExact'
<1> USE DEF PersistIndex, Answer, Releasing, Promised, Storing, InCall
<1>1. /\ counts \in [Hash -> Int] /\ refs \in [Hash -> Nat]
      /\ call.hash \in Hash
      /\ call.gain \in {0, 1}
      /\ Ready' /\ call'.op = "idle"
  BY CallHash DEF IInv, InvType, Ready, Idle
<1>2. CountsExact'
  BY <1>1 DEF CountsExact
<1>3. FilesExact'
  BY <1>1 DEF FilesExact
<1> QED BY <1>2, <1>3

LEMMA ExactStep == ASSUME IInv, ExactInv, [Next]_vars PROVE ExactInv'
<1>0. faults \in Nat
  BY DEF IInv, InvType
<1>1. CASE UNCHANGED vars
  BY <1>1 DEF vars, files, marks, ExactInv, CountsExact, FilesExact, Promised, Releasing,
     Storing, InCall, Ready
<1>2. CASE OperationFails \/ Restart
  <2>1. faults' # 0
    BY <1>0, <1>2 DEF OperationFails, Restart
  <2> QED BY <2>1 DEF ExactInv
<1>3. ASSUME ~OperationFails, ~Restart, Next, faults' = 0
      PROVE  CountsExact' /\ FilesExact'
  <2>1. \/ \E h \in Hash : \/ PutExisting(h)
                           \/ PutBlob(h)
                           \/ ReleaseCounted(h)
                           \/ ReleaseBlob(h)
        \/ PutMeta
        \/ ReleaseMeta
        \/ PersistIndex
    BY <1>3 DEF Next, Retain
  <2>2. faults = 0
    BY <1>3, <2>1 DEF PutExisting, PutBlob, ReleaseCounted, ReleaseBlob, PutMeta, ReleaseMeta,
       PersistIndex, marks
  <2>3. CountsExact /\ FilesExact
    BY <2>2 DEF ExactInv
  <2> QED
    BY <2>1, <2>3, ExactPutExisting, ExactPutBlob, ExactReleaseCounted, ExactReleaseBlob,
       ExactPutMeta, ExactReleaseMeta, ExactPersistIndex
<1> QED BY <1>1, <1>2, <1>3 DEF ExactInv

\* As long as no operation fails and nothing restarts, between two calls a blob
\* has its two files if and only if a table references it, also while the tree
\* does not find it; where the tree finds what the calls have put, that is the
\* number of references; and the file is what an iteration of the tree meets.
THEOREM CountsAreExact == Spec => []CountExact
<1>1. Init => ExactInv
  <2> SUFFICES ASSUME Init PROVE CountsExact /\ FilesExact
    BY DEF ExactInv
  <2>1. Ready /\ call.op = "idle"
    BY DEF Init, Ready, Idle
  <2> QED BY <2>1 DEF Init, CountsExact, FilesExact, Releasing, Promised, Storing, InCall, Empty
<1>2. IInv /\ ExactInv => CountExact
  <2> SUFFICES ASSUME IInv, CountsExact, FilesExact, Ready
               PROVE  /\ \A h \in Hash \ forked : /\ ~Astray(h) => IndexGet(index, h) = refs[h]
                                                  /\ counts[h] = refs[h]
                                                  /\ (h \in blob) = (refs[h] > 0)
                                                  /\ (h \in meta) = (refs[h] > 0)
                      /\ index_file \in {File(IndexIter(index)), NoFile}
    BY DEF ExactInv, CountExact
  <2>0. call.op = "idle"
    BY DEF Ready, Idle
  <2> USE <2>0 DEF InCall, Releasing, Promised, Storing
  <2>1. counts \in [Hash -> Int] /\ refs \in [Hash -> Nat]
    BY DEF IInv, InvType
  <2>2. \A h \in Hash \ forked : counts[h] = refs[h]
    BY <2>1 DEF CountsExact
  <2>3. \A h \in Hash \ forked : (h \in blob <=> refs[h] > 0) /\ (h \in meta <=> refs[h] > 0)
    BY <2>2 DEF FilesExact
  <2>4. index_file \in {File(IndexIter(index)), NoFile}
    BY DEF FilesExact
  <2> QED BY <2>2, <2>3, <2>4 DEF Astray
<1>3. Spec => []ExactInv
  BY <1>1, StoreInvariant, ExactStep, PTL DEF Spec
<1> QED BY <1>2, <1>3, StoreInvariant, PTL

-----------------------------------------------------------------------------
\* A nonempty set of natural numbers has a least element.
LEMMA LeastNat ==
    ASSUME NEW T \in SUBSET Nat, T # {}
    PROVE  \E x \in T : \A y \in T : x <= y
<1> DEFINE R == {ss \in Nat \X Nat : ss[1] < ss[2]}
<1>1. IsWellFoundedOn(R, Nat)
  BY NatLessThanWellFounded DEF OpToRel
<1>2. \A x, y \in Nat : x < y => <<x, y>> \in R
  OBVIOUS
<1> HIDE DEF R
<1>3. PICK x \in T : \A y \in T : ~ (<<y, x>> \in R)
  BY <1>1, WFMin, Zenon
<1>4. \A y \in T : x \in Nat /\ y \in Nat /\ ~ (y < x)
  BY <1>2, <1>3
<1>5. \A y \in T : x <= y
  BY <1>4
<1> QED BY <1>5

\* Min of a nonempty set of natural numbers is the least of them.
LEMMA MinIsLeast ==
    ASSUME NEW T \in SUBSET Nat, T # {}
    PROVE  /\ Min(T) \in T
           /\ \A y \in T : Min(T) <= y
<1>1. \E x \in T : \A y \in T : x <= y
  BY LeastNat
<1> QED BY <1>1 DEF Min

\* Max of a nonempty set of natural numbers that are at most n.
LEMMA MaxIsGreatest ==
    ASSUME NEW T \in SUBSET Nat, T # {}, NEW n \in Nat, \A y \in T : y <= n
    PROVE  /\ Max(T) \in T
           /\ \A y \in T : Max(T) >= y
<1> DEFINE U == {m \in Nat : \E y \in T : m = n - y}
<1>1. U \in SUBSET Nat /\ U # {}
  <2>1. PICK y \in T : TRUE
    OBVIOUS
  <2>2. n - y \in U
    BY <2>1
  <2> QED BY <2>2
<1>2. PICK m \in U : \A k \in U : m <= k
  <2> HIDE DEF U
  <2> QED BY <1>1, LeastNat
<1>3. PICK x \in T : m = n - x
  BY <1>2
<1>4. \A y \in T : n - y \in U
  OBVIOUS
<1>5. \A y \in T : x >= y
  BY <1>2, <1>3, <1>4
<1>6. \E z \in T : \A y \in T : z >= y
  BY <1>5
<1> QED BY <1>6 DEF Max

-----------------------------------------------------------------------------
(* Snippets. *)

SnipInv == text \in Seq(Char \cup {Gap})

LEMMA SnipBegins == SnipInit => SnipInv
BY DEF SnipInit, SnipInv

LEMMA SnipKeeps == SnipInv /\ [SnipNext]_text => SnipInv'
BY DEF SnipNext, SnipInv

\* The starts of matches are positions in the text.
LEMMA StartsInText ==
    ASSUME SnipInv
    PROVE  /\ Len(text) \in Nat /\ DOMAIN text = 1..Len(text)
           /\ Starts \subseteq 1..Len(text) /\ \A s \in Starts : s \in Nat /\ s \in Int /\ s >= 1 /\ s <= Len(text)
           /\ \A m \in Matches : m = <<m[1], m[2]>> /\ m[1] \in Starts /\ m[1] \in 1..Len(text) /\ m[2] \in 2..(Len(text) + 1) /\ m[1] < m[2]
<1>1. Len(text) \in Nat /\ DOMAIN text = 1..Len(text)
  BY DEF SnipInv
<1>2. \A m \in Matches : m = <<m[1], m[2]>> /\ m[1] \in 1..Len(text) /\ m[2] \in 2..(Len(text) + 1) /\ m[1] < m[2]
  BY <1>1 DEF Matches
<1>3. Starts \subseteq 1..Len(text)
  BY <1>2 DEF Starts
<1>4. \A s \in Starts : s \in Nat /\ s \in Int /\ s >= 1 /\ s <= Len(text)
  BY <1>1, <1>3
<1> QED  BY <1>1, <1>2, <1>3, <1>4 DEF Starts

Window(start, max) == {s \in Starts : s >= start /\ s < start + max}

LEMMA WindowFinite ==
    ASSUME SnipInv, NEW start \in Int, NEW max \in Nat
    PROVE  /\ IsFiniteSet(Window(start, max)) /\ Window(start, max) \subseteq 1..Len(text)
           /\ InWindow(start, max) = Cardinality(Window(start, max))
           /\ InWindow(start, max) \in Nat /\ InWindow(start, max) <= Len(text)
<1>1. Window(start, max) \subseteq 1..Len(text) /\ Len(text) \in Nat
  BY StartsInText DEF Window
<1>2. IsFiniteSet(1..Len(text)) /\ Cardinality(1..Len(text)) = Len(text)
  <2>1. IsFiniteSet(1..Len(text)) /\ Cardinality(1..Len(text)) = IF 1 > Len(text) THEN 0 ELSE Len(text) - 1 + 1
    BY <1>1, FS_Interval
  <2> QED  BY <1>1, <2>1
<1>3. /\ IsFiniteSet(Window(start, max)) /\ Cardinality(Window(start, max)) <= Len(text)
      /\ Cardinality(Window(start, max)) \in Nat
  BY <1>1, <1>2, FS_Subset, FS_CardinalityType
<1> QED  BY <1>1, <1>3 DEF InWindow, Window

\* The window that is chosen has as many starts as any other.
LEMMA BestIsBest ==
    ASSUME SnipInv, NEW max \in Nat, max > 0, Matches # {}
    PROVE  /\ BestStart(max) \in 1..Len(text)
           /\ InWindow(BestStart(max), max) > 0
           /\ \A from \in Nat : InWindow(from, max) <= InWindow(BestStart(max), max)
<1> DEFINE totals == {InWindow(s, max) : s \in Starts}
           best == Max(totals)
           firsts == {s \in Starts : InWindow(s, max) = best}
           n == Len(text)
<1>1. /\ n \in Nat /\ Starts \subseteq 1..n /\ Starts # {}
      /\ \A s \in Starts : s \in Nat /\ s \in Int /\ s >= 1 /\ s <= n
      /\ \A s \in Int : InWindow(s, max) \in Nat /\ InWindow(s, max) <= n
  BY StartsInText, WindowFinite DEF Starts
<1>2. best \in totals /\ \A y \in totals : best >= y
  <2>1. totals \in SUBSET Nat /\ totals # {} /\ \A y \in totals : y <= n
    BY <1>1
  <2> HIDE DEF totals
  <2> QED  BY <1>1, <2>1, MaxIsGreatest
<1>3. best \in Nat /\ (\A s \in Starts : InWindow(s, max) <= best) /\ firsts # {}
  BY <1>1, <1>2
<1>4. Min(firsts) \in firsts
  <2>1. firsts \subseteq Starts /\ Starts \subseteq Nat
    BY <1>1
  <2> HIDE DEF firsts
  <2> QED  BY <1>3, <2>1, MinIsLeast
<1> HIDE DEF totals
<1>5. BestStart(max) = IF InWindow(1, max) > best THEN 1 ELSE Min(firsts)
  BY DEF BestStart, totals
<1>6. Min(firsts) \in Starts /\ InWindow(Min(firsts), max) = best
  BY <1>4
<1> HIDE DEF best, firsts
<1>7. /\ BestStart(max) \in 1..n /\ InWindow(BestStart(max), max) \in Nat
      /\ \A s \in Starts : InWindow(s, max) <= InWindow(BestStart(max), max)
  <2>1. 1 \in 1..n /\ InWindow(1, max) \in Nat /\ \A s \in Starts : s \in 1..n /\ InWindow(s, max) \in Nat
    <3>1. PICK s \in Starts : s \in Nat /\ s >= 1 /\ s <= n
      BY <1>1
    <3>2. n \in Nat
      BY <1>1
    <3> HIDE DEF n
    <3>3. 1 \in 1..n
      BY <3>1, <3>2
    <3>4. 1 \in Int
      OBVIOUS
    <3> QED  BY <1>1, <3>3, <3>4
  <2>2. CASE InWindow(1, max) > best
    <3>1. BestStart(max) = 1
      BY <1>5, <2>2
    <3> QED  BY <1>3, <2>1, <2>2, <3>1
  <2>3. CASE ~ (InWindow(1, max) > best)
    <3>1. BestStart(max) = Min(firsts)
      BY <1>5, <2>3
    <3> QED  BY <1>3, <1>6, <2>1, <3>1
  <2> QED  BY <2>2, <2>3
<1>8. ASSUME NEW from \in Nat, Window(from, max) # {}
      PROVE  /\ \E s \in Starts : InWindow(from, max) <= InWindow(s, max)
             /\ InWindow(from, max) > 0
  <2>1. Window(from, max) \in SUBSET Nat
    BY <1>1 DEF Window
  <2>2. PICK s \in Window(from, max) : \A y \in Window(from, max) : s <= y
    BY <1>8, <2>1, LeastNat
  <2>3. s \in Starts /\ s \in Nat /\ s >= from
    BY <1>1, <2>2 DEF Window
  <2>4. Window(from, max) \subseteq Window(s, max)
    <3> SUFFICES ASSUME NEW x \in Window(from, max) PROVE x \in Window(s, max)
      OBVIOUS
    <3>1. x \in Starts /\ x \in Nat /\ x < from + max /\ s <= x
      BY <1>1, <2>2 DEF Window
    <3> QED  BY <2>3, <3>1 DEF Window
  <2>5. /\ IsFiniteSet(Window(s, max)) /\ IsFiniteSet(Window(from, max))
        /\ InWindow(s, max) = Cardinality(Window(s, max)) /\ InWindow(from, max) = Cardinality(Window(from, max))
    BY <2>3, WindowFinite
  <2>6. Cardinality(Window(from, max)) <= Cardinality(Window(s, max))
    BY <2>4, <2>5, FS_Subset
  <2>7. Cardinality(Window(from, max)) # 0 /\ Cardinality(Window(from, max)) \in Nat
    BY <1>8, <2>5, FS_EmptySet, FS_CardinalityType
  <2> QED  BY <2>3, <2>5, <2>6, <2>7
<1>9. ASSUME NEW from \in Nat, Window(from, max) = {} PROVE InWindow(from, max) = 0
  BY <1>9, WindowFinite, FS_EmptySet
<1>10. PICK s \in Starts : s \in Window(s, max)
  <2>1. PICK s \in Starts : s \in Nat
    BY <1>1
  <2>2. s >= s /\ s < s + max
    BY <2>1
  <2> QED  BY <2>1, <2>2 DEF Window
<1>11. InWindow(s, max) > 0
  BY <1>1, <1>8, <1>10
<1>12. InWindow(BestStart(max), max) > 0
  BY <1>1, <1>7, <1>10, <1>11
<1>13. ASSUME NEW from \in Nat PROVE InWindow(from, max) <= InWindow(BestStart(max), max)
  <2>1. CASE Window(from, max) = {}
    BY <1>7, <1>9, <2>1
  <2>2. CASE Window(from, max) # {}
    <3>1. PICK q \in Starts : InWindow(from, max) <= InWindow(q, max)
      BY <1>8, <2>2
    <3>2. InWindow(q, max) <= InWindow(BestStart(max), max)
      BY <1>7
    <3>3. InWindow(BestStart(max), max) \in Nat
      BY <1>7
    <3>4. from \in Int /\ q \in Int
      BY <1>1
    <3>5. InWindow(from, max) \in Nat /\ InWindow(q, max) \in Nat
      BY <1>1, <3>4
    <3> QED  BY <3>1, <3>2, <3>3, <3>5
  <2> QED  BY <2>1, <2>2
<1> QED  BY <1>7, <1>12, <1>13

\* Marks begin at the starts of the window, one for each.
LEMMA MarksCounted ==
    ASSUME SnipInv, NEW from \in Nat, NEW to \in Nat, NEW max \in Nat,
           \A s \in Starts : s >= from => (s < to <=> s < from + max),
           NEW marked, marked = {<<m[1], IF m[2] < to THEN m[2] ELSE to>> : m \in {n \in Matches : n[1] >= from /\ n[1] < to}}
    PROVE  /\ InWindow(from, max) <= Cardinality(marked)
           /\ Cardinality(marked) \in Nat
<1> DEFINE shown == {n \in Matches : n[1] >= from /\ n[1] < to}
           End(m) == IF m[2] < to THEN m[2] ELSE to
<1>1. /\ Len(text) \in Nat
      /\ \A m \in Matches : m[1] \in Starts /\ m[1] \in 1..Len(text) /\ m[2] \in 2..(Len(text) + 1)
  BY StartsInText
<1>2. marked \subseteq (1..Len(text)) \X (0..(Len(text) + 1 + to))
  <2>1. ASSUME NEW m \in shown PROVE m[1] \in 1..Len(text) /\ End(m) \in 0..(Len(text) + 1 + to)
    <3>1. m \in Matches /\ Len(text) \in Nat /\ m[1] \in 1..Len(text) /\ m[2] \in 2..(Len(text) + 1)
      BY <1>1
    <3>2. m[2] \in Nat /\ m[2] <= Len(text) + 1
      BY <3>1
    <3>3. CASE m[2] < to
      BY <3>1, <3>2, <3>3
    <3>4. CASE ~ (m[2] < to)
      <4>1. End(m) = to
        BY <3>4
      <4>2. to \in 0..(Len(text) + 1 + to)
        BY <3>1
      <4> QED  BY <3>1, <4>1, <4>2
    <3> QED  BY <3>3, <3>4
  <2>2. marked = {<<m[1], End(m)>> : m \in shown}
    OBVIOUS
  <2> HIDE DEF shown, End
  <2> QED  BY <2>1, <2>2
<1>3. IsFiniteSet(marked)
  <2>1. IsFiniteSet(1..Len(text)) /\ IsFiniteSet(0..(Len(text) + 1 + to))
    BY <1>1, FS_Interval
  <2>2. IsFiniteSet((1..Len(text)) \X (0..(Len(text) + 1 + to)))
    BY <2>1, FS_Product
  <2> QED  BY <1>2, <2>2, FS_Subset
<1>4. \A s \in Window(from, max) : \E mark \in marked : mark[1] = s
  <2> SUFFICES ASSUME NEW s \in Window(from, max) PROVE \E mark \in marked : mark[1] = s
    OBVIOUS
  <2>1. s \in Starts /\ s >= from /\ s < to
    BY DEF Window
  <2>2. PICK m \in Matches : m[1] = s
    BY <2>1 DEF Starts
  <2>3. m \in shown /\ marked = {<<n[1], End(n)>> : n \in shown}
    BY <2>1, <2>2
  <2> HIDE DEF shown, End
  <2>4. <<m[1], End(m)>> \in marked
    BY <2>3
  <2> QED  BY <2>2, <2>4
<1> HIDE DEF shown, End
<1> DEFINE f == [s \in Window(from, max) |-> CHOOSE mark \in marked : mark[1] = s]
<1>5. \A s \in Window(from, max) : f[s] \in marked /\ f[s][1] = s
  BY <1>4
<1>6. f \in Injection(Window(from, max), marked)
  <2>1. f \in [Window(from, max) -> marked]
    BY <1>5
  <2> HIDE DEF f
  <2> QED  BY <1>5, <2>1 DEF Injection, IsInjective
<1> HIDE DEF f
<1>7. Cardinality(Window(from, max)) <= Cardinality(marked)
  BY <1>3, <1>6, FS_Injection
<1> QED  BY <1>3, <1>7, WindowFinite, FS_CardinalityType

\* A match ends before the next one begins: a needle has no gap.
LEMMA MatchesApart ==
    ASSUME SnipInv, NEW a \in Matches, NEW b \in Matches, a[1] < b[1]
    PROVE  a[2] <= b[1]
<1>1. /\ Len(text) \in Nat
      /\ a[1] \in 1..Len(text) /\ a[2] \in 2..(Len(text) + 1) /\ a[1] < a[2]
      /\ b[1] \in 1..Len(text) /\ b[2] \in 2..(Len(text) + 1) /\ b[1] < b[2]
  BY StartsInText
<1> SUFFICES ASSUME b[1] < a[2] PROVE FALSE
  BY <1>1
<1>2. text[b[1] - 1] = Gap
  BY <1>1 DEF Matches
<1> DEFINE word == SubSeq(text, a[1], a[2] - 1)
           i == b[1] - a[1]
<1>3. word \in Seq(Char)
  BY SnippetAssumption DEF Matches
<1>4. a[1] \in Int /\ a[2] \in Int /\ b[1] \in Int /\ 1 <= a[1] /\ a[2] <= Len(text) + 1
  BY <1>1
<1>5. /\ i \in 1..(a[2] - 1 - a[1] + 1) /\ a[1] + i - 1 = b[1] - 1 /\ a[1] <= a[2] - 1
      /\ a[1] \in 1..(Len(text) + 1) /\ a[2] - 1 \in (a[1] - 1)..Len(text)
  <2> DEFINE p == a[1]
             q == a[2]
             r == b[1]
             n == Len(text)
  <2>1. n \in Nat /\ p \in Int /\ q \in Int /\ r \in Int /\ 1 <= p /\ p < r /\ r < q /\ q <= n + 1
    BY <1>1, <1>4
  <2> HIDE DEF p, q, r, n
  <2>2. /\ r - p \in 1..(q - 1 - p + 1) /\ p + (r - p) - 1 = r - 1 /\ p <= q - 1
        /\ p \in 1..(n + 1) /\ q - 1 \in (p - 1)..n
    BY <2>1
  <2> QED  BY <2>2 DEF p, q, r, n
<1>6. Len(word) = a[2] - 1 - a[1] + 1 /\ word[i] = text[a[1] + i - 1]
  <2>1. text \in Seq(Char \cup {Gap})
    BY DEF SnipInv
  <2> HIDE DEF i
  <2> QED  BY <1>5, <2>1, SubSeqProperties
<1> HIDE DEF word, i
<1>7. word[i] \in Char
  BY <1>3, <1>5, <1>6
<1> QED  BY <1>2, <1>5, <1>6, <1>7, SnippetAssumption

\* What generate_snippet returns for a text with a match.
LEMMA SnippetHolds ==
    ASSUME SnipInv, NEW max \in Nat, NEW s, s = GenerateSnippet(max), max > 0, Matches # {}
    PROVE  /\ s # Nothing
           /\ s.to - s.from \in 1..max /\ s.to <= Len(text) + 1
           /\ \A from \in DOMAIN text : InWindow(from, max) <= Cardinality(s.marked)
           /\ s.marked # {}
           /\ \A m \in s.marked : \E n \in Matches : n[1] = m[1] /\ m[2] = IF n[2] < s.to THEN n[2] ELSE s.to
           /\ \A m, n \in s.marked : m[1] < n[1] => m[2] <= n[1]
<1> DEFINE L == Len(text)
           w == IF max < L THEN max ELSE L
           from == BestStart(w)
           to == IF from + w <= L + 1 THEN from + w ELSE L + 1
           marked == {<<m[1], IF m[2] < to THEN m[2] ELSE to>> : m \in {n \in Matches : n[1] >= from /\ n[1] < to}}
<1>1. L \in Nat /\ L > 0 /\ \A x \in Starts : x \in Nat /\ x \in Int /\ x >= 1 /\ x <= L
  <2>1. PICK m \in Matches : m[1] \in 1..L
    BY StartsInText
  <2> QED  BY <2>1, StartsInText
<1>2. text # <<>>
  BY <1>1
<1>3. s = [from |-> from, to |-> to, marked |-> marked]
  BY <1>2 DEF GenerateSnippet
<1>4. w \in Nat /\ w > 0 /\ w <= max /\ w <= L
  BY <1>1
<1>5. /\ from \in 1..L /\ InWindow(from, w) > 0
      /\ \A f \in Nat : InWindow(f, w) <= InWindow(from, w)
  <2> HIDE DEF w
  <2> QED  BY <1>4, BestIsBest
<1> HIDE DEF w, from
<1>6. from \in Nat /\ to \in Nat /\ to - from \in 1..w /\ to <= L + 1 /\ from >= 1
  <2> HIDE DEF L
  <2> QED  BY <1>1, <1>4, <1>5
<1>7. to - from \in 1..max
  <2> HIDE DEF L, to
  <2> QED  BY <1>4, <1>6
<1>8. s # Nothing
  BY <1>3, <1>6 DEF Nothing
<1>9. \A x \in Starts : x >= from => (x < to <=> x < from + w)
  <2> HIDE DEF L
  <2> QED  BY <1>1, <1>4, <1>5
<1> DEFINE End(m) == IF m[2] < to THEN m[2] ELSE to
           shown == {n \in Matches : n[1] >= from /\ n[1] < to}
<1>10. InWindow(from, w) <= Cardinality(marked) /\ Cardinality(marked) \in Nat
  <2> HIDE DEF to
  <2> QED  BY <1>4, <1>6, <1>9, MarksCounted
<1>11. marked = {<<m[1], End(m)>> : m \in shown}
  OBVIOUS
<1>12. \A m \in Matches : m[1] \in Int /\ m[2] \in Int
  BY StartsInText
<1> HIDE DEF to, marked
<1>13. InWindow(from, w) \in Nat
  <2>1. from \in Int
    BY <1>6
  <2> QED  BY <1>4, <2>1, WindowFinite
<1>14. marked # {}
  <2>1. Cardinality(marked) # 0
    BY <1>5, <1>10, <1>13
  <2> HIDE DEF from
  <2> QED  BY <2>1, FS_EmptySet
<1>15. ASSUME NEW f \in DOMAIN text PROVE InWindow(f, max) <= Cardinality(marked)
  <2>1. f \in Nat /\ f >= 1
    BY StartsInText
  <2>2. \A x \in Starts : x < f + max <=> x < f + w
    <3> HIDE DEF L
    <3> QED  BY <1>1, <2>1 DEF w
  <2>3. InWindow(f, max) = InWindow(f, w)
    <3>1. {x \in Starts : x >= f /\ x < f + max} = {x \in Starts : x >= f /\ x < f + w}
      BY <2>2
    <3> QED  BY <3>1 DEF InWindow
  <2>4. InWindow(f, w) <= InWindow(from, w) /\ InWindow(f, w) \in Nat
    BY <1>4, <1>5, <2>1, WindowFinite
  <2> QED  BY <1>10, <1>13, <2>3, <2>4
<1>16. \A m \in marked : \E n \in Matches : n[1] = m[1] /\ m[2] = End(n)
  <2> HIDE DEF End
  <2> QED  BY <1>11
<1>17. ASSUME NEW m \in marked, NEW n \in marked, m[1] < n[1] PROVE m[2] <= n[1]
  <2>1. PICK a \in Matches : a[1] = m[1] /\ m[2] = End(a)
    BY <1>16
  <2>2. PICK b \in Matches : b[1] = n[1]
    BY <1>16
  <2>3. a[2] <= b[1]
    BY <1>17, <2>1, <2>2, MatchesApart
  <2>4. End(a) <= a[2]
    BY <1>6, <1>12
  <2>5. End(a) \in Int /\ a[2] \in Int /\ b[1] \in Int
    BY <1>6, <1>12
  <2> HIDE DEF End
  <2> QED  BY <2>1, <2>2, <2>3, <2>4, <2>5
<1>18. s.from = from /\ s.to = to /\ s.marked = marked
  BY <1>3
<1> QED  BY <1>6, <1>7, <1>8, <1>14, <1>15, <1>16, <1>17, <1>18

LEMMA SnipIsSafe ==
    ASSUME SnipInv PROVE SnippetSafe
<1> SUFFICES ASSUME NEW max \in 0..(MaxText + 1), NEW s, s = GenerateSnippet(max)
             PROVE  IF s = Nothing THEN max = 0 \/ Matches = {}
                    ELSE /\ s.to - s.from \in 1..max /\ s.to <= Len(text) + 1
                         /\ \A from \in DOMAIN text : InWindow(from, max) <= Cardinality(s.marked)
                         /\ s.marked # {}
                         /\ \A m \in s.marked : \E n \in Matches : n[1] = m[1] /\ m[2] = IF n[2] < s.to THEN n[2] ELSE s.to
                         /\ \A m, n \in s.marked : m[1] < n[1] => m[2] <= n[1]
  BY DEF SnippetSafe
<1>1. max \in Nat
  BY SnippetAssumption
<1>2. CASE max = 0 \/ Matches = {}
  <2>1. s = Nothing
    BY <1>2 DEF GenerateSnippet
  <2> QED  BY <1>2, <2>1
<1>3. CASE max > 0 /\ Matches # {}
  BY <1>1, <1>3, SnippetHolds
<1> QED  BY <1>1, <1>2, <1>3

-----------------------------------------------------------------------------
(* Secondary indexes. *)

Version == [value : Int, slot : Slot, begin : Nat]
IndexEntry == [value : Int, slot : Slot, begin : Nat, end : Nat]

\* The entry is of that version of a row.
Of(e, w) == e.value = w.value /\ e.begin = w.begin
ShowsIn(h, e, t, r) == r \in DOMAIN h[t] /\ Of(e, h[t][r])
Shows(e, t, r) == ShowsIn(history, e, t, r)

SecType ==
    /\ ts \in 0..MaxCommits /\ cutoff \in 0..ts /\ shared \in BOOLEAN /\ strayed \in BOOLEAN
    /\ DOMAIN history = 0..ts
    /\ \A t \in 0..ts : \A r \in DOMAIN history[t] :
          r \in Row /\ history[t][r] \in Version /\ history[t][r].begin \in 1..t
    /\ entries \subseteq IndexEntry
    /\ \A e \in entries : e.begin \in 1..ts /\ e.end > e.begin /\ (e.end <= ts \/ e.end = Never)

\* A version is in the table from its commit on until another takes its place.
Lasting == \A t \in 0..ts : \A r \in DOMAIN history[t] : \A u \in history[t][r].begin..t :
              r \in DOMAIN history[u] /\ history[u][r] = history[t][r]

\* A value and a commit name one row.
OneRow == \A t, u \in 0..ts : \A r \in DOMAIN history[t], q \in DOMAIN history[u] :
             history[t][r].value = history[u][q].value /\ history[t][r].begin = history[u][q].begin => r = q

\* An entry is visible exactly while its version is in the table, ...
EntriesTrue == \A e \in entries : \E r : \A t \in 0..ts : Visible(e, t) <=> Shows(e, t, r)

\* ... and since the cutoff every version has an entry.
EntriesAll == \A t \in cutoff..ts : \A r \in DOMAIN history[t] : \E e \in entries : Of(e, history[t][r])

\* An entry says where its version is.
SlotsTrue == \A e \in entries : \A t \in 0..ts : \A r \in DOMAIN history[t] :
                Of(e, history[t][r]) => e.slot = history[t][r].slot

SecInv == SecType /\ (~ shared => Lasting /\ OneRow /\ EntriesTrue /\ EntriesAll /\ (~ strayed => SlotsTrue))

\* An entry with the value and the begin of a version in the table is its
\* entry, and visible.
LEMMA EntryOfVersion ==
    ASSUME SecType, Lasting, OneRow,
           NEW e \in entries, NEW r, \A t \in 0..ts : Visible(e, t) <=> Shows(e, t, r),
           NEW u \in 0..ts, NEW q \in DOMAIN history[u],
           history[u][q].value = e.value, history[u][q].begin = e.begin
    PROVE  q = r /\ Of(e, history[u][q]) /\ Visible(e, u)
<1>1. e \in IndexEntry /\ e.begin \in 1..ts /\ e.end > e.begin /\ ts \in Nat /\ e.begin \in 0..ts
  BY SecondaryAssumption DEF SecType
<1>2. Visible(e, e.begin)
  BY <1>1 DEF Visible, IndexEntry
<1>3. r \in DOMAIN history[e.begin] /\ Of(e, history[e.begin][r])
  BY <1>1, <1>2 DEF Shows, ShowsIn
<1>4. q = r
  BY <1>1, <1>3 DEF OneRow, Of
<1>5. history[u][q].begin \in 1..u
  BY DEF SecType
<1>6. e.begin \in history[u][q].begin..u
  BY <1>1, <1>5
<1>7. history[e.begin][q] = history[u][q]
  BY <1>6 DEF Lasting
<1>8. Of(e, history[u][q])
  BY <1>3, <1>4, <1>7
<1> QED  BY <1>4, <1>8 DEF Shows, ShowsIn

LEMMA SecBegins == SecInit => SecInv
<1> SUFFICES ASSUME SecInit PROVE SecInv
  OBVIOUS
<1>1. entries = {} /\ ts = 0 /\ cutoff = 0 /\ shared = FALSE /\ strayed = FALSE /\ DOMAIN history = {0} /\ history[0] = <<>> /\ DOMAIN <<>> = {}
  BY DEF SecInit
<1>2. \A t \in 0..ts : DOMAIN history[t] = {}
  BY <1>1
<1>3. SecType
  BY <1>1, <1>2, SecondaryAssumption DEF SecType
<1>4. Lasting /\ OneRow /\ EntriesTrue /\ EntriesAll /\ SlotsTrue
  BY <1>1, <1>2 DEF Lasting, OneRow, EntriesTrue, EntriesAll, SlotsTrue
<1> QED  BY <1>3, <1>4 DEF SecInv

\* What a lookup finds is what the table had: an entry for each version, and
\* each version where it is.
LEMMA LookupsExact ==
    ASSUME SecInv, ~ shared, NEW t \in cutoff..ts, NEW vs
    PROVE  LET having == {history[t][r] : r \in {q \in DOMAIN history[t] : history[t][q].value \in vs}}
               found  == {e \in entries : e.value \in vs /\ Visible(e, t)}
           IN  /\ {e.begin : e \in found} = {w.begin : w \in having}
               /\ ~ strayed => {e.slot : e \in found} = {w.slot : w \in having}
<1> DEFINE having == {history[t][r] : r \in {q \in DOMAIN history[t] : history[t][q].value \in vs}}
           found == {e \in entries : e.value \in vs /\ Visible(e, t)}
<1>1. t \in 0..ts /\ SecType /\ Lasting /\ OneRow /\ EntriesTrue /\ EntriesAll
  BY SecondaryAssumption DEF SecInv, SecType
<1>2. ASSUME NEW e \in found
      PROVE  \E w \in having : Of(e, w) /\ (~ strayed => e.slot = w.slot)
  <2>1. PICK r \in DOMAIN history[t] : Of(e, history[t][r])
    BY <1>1 DEF EntriesTrue, Shows, ShowsIn
  <2>2. history[t][r] \in having
    BY <2>1 DEF Of
  <2>3. ~ strayed => e.slot = history[t][r].slot
    BY <1>1, <2>1 DEF SecInv, SlotsTrue
  <2> QED  BY <2>1, <2>2, <2>3
<1>3. ASSUME NEW w \in having
      PROVE  \E e \in found : Of(e, w) /\ (~ strayed => e.slot = w.slot)
  <2>1. PICK r \in DOMAIN history[t] : w = history[t][r] /\ w.value \in vs
    OBVIOUS
  <2>2. PICK e \in entries : Of(e, w)
    BY <1>1, <2>1 DEF EntriesAll
  <2>3. PICK q : \A u \in 0..ts : Visible(e, u) <=> Shows(e, u, q)
    BY <1>1 DEF EntriesTrue
  <2>4. Visible(e, t)
    BY <1>1, <2>1, <2>2, <2>3, EntryOfVersion DEF Of
  <2>5. ~ strayed => e.slot = w.slot
    BY <1>1, <2>1, <2>2 DEF SecInv, SlotsTrue
  <2> QED  BY <2>1, <2>2, <2>4, <2>5 DEF Of
<1> HIDE DEF having, found
<1>4. {e.begin : e \in found} = {w.begin : w \in having}
  BY <1>2, <1>3 DEF Of
<1>5. ~ strayed => {e.slot : e \in found} = {w.slot : w \in having}
  BY <1>2, <1>3
<1> QED  BY <1>4, <1>5 DEF having, found

LEMMA SecIsExact == SecInv => SecondaryExact
<1> SUFFICES ASSUME SecInv, ~ shared, NEW t \in cutoff..ts PROVE
      LET having(vs) == {history[t][r] : r \in {q \in DOMAIN history[t] : history[t][q].value \in vs}}
          found(vs)  == {e \in entries : e.value \in vs /\ Visible(e, t)}
          slots(vs)  == {w.slot : w \in having(vs)}
      IN  /\ \A v \in Value : {e.begin : e \in found({v})} = {w.begin : w \in having({v})}
          /\ ~strayed => /\ \A v \in Value : Lookup(v, t) = slots({v})
                         /\ \A lo, hi \in Value : LookupRange(lo, hi, t) = slots(lo..hi)
  BY DEF SecondaryExact
<1> DEFINE having(vs) == {history[t][r] : r \in {q \in DOMAIN history[t] : history[t][q].value \in vs}}
           found(vs) == {e \in entries : e.value \in vs /\ Visible(e, t)}
           slots(vs) == {w.slot : w \in having(vs)}
<1>1. \A vs : /\ {e.begin : e \in found(vs)} = {w.begin : w \in having(vs)}
              /\ ~ strayed => {e.slot : e \in found(vs)} = slots(vs)
  BY LookupsExact
<1>2. ASSUME NEW v \in Value PROVE Lookup(v, t) = {e.slot : e \in found({v})}
  BY DEF Lookup
<1>3. ASSUME NEW lo \in Value, NEW hi \in Value PROVE LookupRange(lo, hi, t) = {e.slot : e \in found(lo..hi)}
  <2>1. lo \in Int /\ hi \in Int /\ \A f \in entries : f.value \in Int
    BY SecondaryAssumption DEF SecInv, SecType, IndexEntry
  <2>2. \A f \in entries : f.value \in lo..hi <=> f.value >= lo /\ f.value <= hi
    BY <2>1
  <2> QED  BY <2>2 DEF LookupRange
<1> HIDE DEF having, found, slots
<1>4. /\ \A v \in Value : {e.begin : e \in found({v})} = {w.begin : w \in having({v})}
      /\ ~strayed => /\ \A v \in Value : Lookup(v, t) = slots({v})
                     /\ \A lo, hi \in Value : LookupRange(lo, hi, t) = slots(lo..hi)
  BY <1>1, <1>2, <1>3
<1> QED  BY <1>4 DEF having, found, slots

\* The collector removes only entries that ended before its argument.
LEMMA GcKeeps ==
    ASSUME SecInv, NEW min \in 1..ts, Gc(min)
    PROVE  SecInv'
<1>1. /\ min > cutoff /\ cutoff' = min /\ ts' = ts /\ history' = history /\ shared' = shared /\ strayed' = strayed
      /\ entries' = {e \in entries : e.end >= min \/ e.end = Never}
      /\ ts \in Nat /\ cutoff \in Nat
  BY SecondaryAssumption DEF Gc, SecInv, SecType
<1>2. SecType'
  BY <1>1 DEF SecInv, SecType, Never
<1>3. ASSUME ~ shared PROVE Lasting' /\ OneRow' /\ EntriesTrue' /\ EntriesAll' /\ (~ strayed => SlotsTrue')
  <2>1. SecType /\ Lasting /\ OneRow /\ EntriesTrue /\ EntriesAll /\ (~ strayed => SlotsTrue)
    BY <1>3 DEF SecInv
  <2>2. Lasting' /\ OneRow' /\ (~ strayed => SlotsTrue')
    BY <1>1, <2>1 DEF Lasting, OneRow, SlotsTrue
  <2>3. EntriesTrue'
    BY <1>1, <2>1 DEF EntriesTrue, Shows, ShowsIn, Visible
  <2>4. ASSUME NEW t \in min..ts, NEW r \in DOMAIN history[t]
        PROVE  \E e \in entries' : Of(e, history[t][r])
    <3>1. t \in cutoff..ts /\ t \in 0..ts /\ t >= min
      BY <1>1
    <3>2. PICK e \in entries : Of(e, history[t][r])
      BY <2>1, <3>1 DEF EntriesAll
    <3>3. PICK q : \A u \in 0..ts : Visible(e, u) <=> Shows(e, u, q)
      BY <2>1 DEF EntriesTrue
    <3>4. Visible(e, t)
      BY <2>1, <3>1, <3>2, <3>3, EntryOfVersion DEF Of
    <3>5. e.end >= min
      BY <1>1, <2>1, <3>1, <3>4 DEF Visible, SecType, IndexEntry
    <3> QED  BY <1>1, <3>2, <3>5
  <2>5. EntriesAll'
    BY <1>1, <2>4 DEF EntriesAll
  <2> QED  BY <2>2, <2>3, <2>5
<1> QED  BY <1>1, <1>2, <1>3 DEF SecInv

\* A move changes slots and nothing else.
LEMMA MovedVersion ==
    ASSUME NEW w \in Version, NEW old, NEW new \in Slot
    PROVE  /\ Moved(w, old, new) \in Version
           /\ Moved(w, old, new).value = w.value /\ Moved(w, old, new).begin = w.begin
           /\ Moved(w, old, new).slot = IF w.slot = old THEN new ELSE w.slot
BY DEF Moved, Version

LEMMA RedirectedEntry ==
    ASSUME NEW e \in IndexEntry, NEW old, NEW new \in Slot
    PROVE  /\ Redirected(e, old, new) \in IndexEntry
           /\ Redirected(e, old, new).value = e.value /\ Redirected(e, old, new).begin = e.begin
           /\ Redirected(e, old, new).end = e.end
           /\ Redirected(e, old, new).slot = IF SamePlace(e.slot, old) THEN new ELSE e.slot
BY DEF Redirected, IndexEntry

LEMMA RelocateKeeps ==
    ASSUME SecInv, NEW old, NEW new \in FreeSlots, Relocate(old, new)
    PROVE  SecInv'
<1> DEFINE M(w) == Moved(w, old, new)
           R(e) == Redirected(e, old, new)
<1>1. /\ entries' = {R(e) : e \in entries}
      /\ history' = [t \in 0..ts |-> [r \in DOMAIN history[t] |-> M(history[t][r])]]
      /\ ts' = ts /\ cutoff' = cutoff /\ shared' = shared /\ new \in Slot
      /\ strayed' = (strayed \/ \E e \in entries : SamePlace(e.slot, old) /\ e.slot # old)
  BY DEF Relocate, FreeSlots
<1>2. SecType
  BY DEF SecInv
<1>3. \A t \in 0..ts : \A r \in DOMAIN history[t] :
        /\ M(history[t][r]) \in Version
        /\ M(history[t][r]).value = history[t][r].value /\ M(history[t][r]).begin = history[t][r].begin
        /\ M(history[t][r]).slot = IF history[t][r].slot = old THEN new ELSE history[t][r].slot
  BY <1>1, <1>2, MovedVersion DEF SecType
<1>4. \A e \in entries :
        /\ R(e) \in IndexEntry /\ R(e).value = e.value /\ R(e).begin = e.begin /\ R(e).end = e.end
        /\ R(e).slot = IF SamePlace(e.slot, old) THEN new ELSE e.slot
  BY <1>1, <1>2, RedirectedEntry DEF SecType
<1> HIDE DEF M, R
<1>5. /\ DOMAIN history' = 0..ts
      /\ \A t \in 0..ts : DOMAIN history'[t] = DOMAIN history[t] /\ \A r \in DOMAIN history[t] : history'[t][r] = M(history[t][r])
  BY <1>1
<1>6. SecType'
  <2>1. \A t \in 0..ts : \A r \in DOMAIN history'[t] :
          r \in Row /\ history'[t][r] \in Version /\ history'[t][r].begin \in 1..t
    BY <1>2, <1>3, <1>5 DEF SecType
  <2>2. \A e \in entries' : e \in IndexEntry /\ e.begin \in 1..ts /\ e.end > e.begin /\ (e.end <= ts \/ e.end = Never)
    BY <1>1, <1>2, <1>4 DEF SecType, Never
  <2>3. strayed' \in BOOLEAN
    BY <1>1, <1>2 DEF SecType
  <2> QED  BY <1>1, <1>2, <1>5, <2>1, <2>2, <2>3 DEF SecType, Never
<1>7. ASSUME ~ shared PROVE Lasting' /\ OneRow' /\ EntriesTrue' /\ EntriesAll' /\ (~ strayed' => SlotsTrue')
  <2>1. Lasting /\ OneRow /\ EntriesTrue /\ EntriesAll /\ (~ strayed => SlotsTrue)
    BY <1>7 DEF SecInv
  <2>2. Lasting'
    <3> SUFFICES ASSUME NEW t \in 0..ts, NEW r \in DOMAIN history[t], NEW u \in history'[t][r].begin..t
                 PROVE  r \in DOMAIN history'[u] /\ history'[u][r] = history'[t][r]
      BY <1>1, <1>5 DEF Lasting
    <3>1. u \in history[t][r].begin..t /\ history[t][r].begin \in 1..t
      BY <1>2, <1>3, <1>5 DEF SecType
    <3>2. u \in 0..ts
      BY <1>2, <3>1 DEF SecType
    <3>3. r \in DOMAIN history[u] /\ history[u][r] = history[t][r]
      BY <2>1, <3>1 DEF Lasting
    <3> QED  BY <1>5, <3>2, <3>3
  <2>3. OneRow'
    <3> SUFFICES ASSUME NEW t \in 0..ts', NEW u \in 0..ts', NEW r \in DOMAIN history'[t], NEW q \in DOMAIN history'[u],
                        history'[t][r].value = history'[u][q].value, history'[t][r].begin = history'[u][q].begin
                 PROVE  r = q
      BY DEF OneRow
    <3>1. t \in 0..ts /\ u \in 0..ts
      BY <1>1
    <3>2. r \in DOMAIN history[t] /\ q \in DOMAIN history[u]
      BY <1>5, <3>1
    <3>3. history[t][r].value = history[u][q].value /\ history[t][r].begin = history[u][q].begin
      BY <1>3, <1>5, <3>1, <3>2
    <3> QED  BY <2>1, <3>1, <3>2, <3>3 DEF OneRow
  <2>4. ASSUME NEW e \in entries, NEW t \in 0..ts, NEW r \in DOMAIN history[t]
        PROVE  Of(R(e), history'[t][r]) <=> Of(e, history[t][r])
    BY <1>3, <1>4, <1>5 DEF Of
  <2>5. ASSUME NEW e \in entries PROVE \E r : \A t \in 0..ts : Visible(R(e), t) <=> ShowsIn(history', R(e), t, r)
    <3>1. PICK r : \A t \in 0..ts : Visible(e, t) <=> Shows(e, t, r)
      BY <2>1 DEF EntriesTrue
    <3>2. ASSUME NEW t \in 0..ts PROVE Visible(R(e), t) <=> ShowsIn(history', R(e), t, r)
      <4>1. Visible(R(e), t) <=> Visible(e, t)
        BY <1>4 DEF Visible
      <4>2. ShowsIn(history', R(e), t, r) <=> Shows(e, t, r)
        BY <1>5, <2>4 DEF Shows, ShowsIn
      <4> QED  BY <3>1, <4>1, <4>2
    <3> QED  BY <3>2
  <2>6. EntriesTrue'
    <3> SUFFICES ASSUME NEW f \in entries' PROVE \E r : \A t \in 0..ts : Visible(f, t) <=> ShowsIn(history', f, t, r)
      BY <1>1 DEF EntriesTrue, Visible, Shows
    <3>1. PICK e \in entries : f = R(e)
      BY <1>1
    <3> QED  BY <2>5, <3>1
  <2>7. EntriesAll'
    <3> SUFFICES ASSUME NEW t \in cutoff..ts, NEW r \in DOMAIN history'[t] PROVE \E f \in entries' : Of(f, history'[t][r])
      BY <1>1 DEF EntriesAll
    <3>1. t \in 0..ts /\ r \in DOMAIN history[t]
      BY <1>2, <1>5 DEF SecType
    <3>2. PICK e \in entries : Of(e, history[t][r])
      BY <2>1, <3>1 DEF EntriesAll
    <3> QED  BY <1>1, <2>4, <3>1, <3>2
  <2>8. ASSUME ~ strayed' PROVE SlotsTrue'
    <3> SUFFICES ASSUME NEW f \in entries', NEW t \in 0..ts, NEW r \in DOMAIN history'[t], Of(f, history'[t][r])
                 PROVE  f.slot = history'[t][r].slot
      BY <1>1 DEF SlotsTrue
    <3>1. PICK e \in entries : f = R(e)
      BY <1>1
    <3>2. r \in DOMAIN history[t] /\ history'[t][r] = M(history[t][r])
      BY <1>5
    <3>3. e.slot = history[t][r].slot
      BY <1>1, <2>1, <2>4, <2>8, <3>1, <3>2 DEF SlotsTrue
    <3>4. SamePlace(e.slot, old) <=> e.slot = old
      BY <1>1, <2>8 DEF SamePlace
    <3> QED  BY <1>3, <1>4, <3>1, <3>2, <3>3, <3>4
  <2> QED  BY <2>2, <2>3, <2>6, <2>7, <2>8
<1> QED  BY <1>1, <1>6, <1>7 DEF SecInv

\* A commit ends the entries of the versions it replaces, and adds one for each
\* that it writes.
LEMMA CommitKeeps ==
    ASSUME SecInv, NEW rs \in SUBSET Row, NEW writes, DOMAIN writes = rs,
           \A r \in rs : writes[r].value \in Int /\ writes[r].slot \in Slot,
           Commit(writes)
    PROVE  SecInv'
<1> DEFINE Fresh(r) == [value |-> writes[r].value, slot |-> writes[r].slot, begin |-> ts + 1]
           Replaced == DOMAIN Table \cap rs
           Hit(e) == \E r \in Replaced : e.value = Table[r].value /\ e.begin = Table[r].begin
           After(e) == IF Hit(e) THEN [e EXCEPT !.end = ts + 1] ELSE e
           Added(r) == [value |-> writes[r].value, slot |-> writes[r].slot, begin |-> ts + 1, end |-> Never]
<1>1. /\ ts < MaxCommits /\ ts' = ts + 1 /\ cutoff' = cutoff
      /\ ts \in Nat /\ cutoff \in Nat /\ MaxCommits \in Nat /\ cutoff <= ts /\ Never = MaxCommits + 1
      /\ shared' = (shared \/ \E r, q \in rs : r # q /\ writes[r].value = writes[q].value)
      /\ SecType /\ shared \in BOOLEAN /\ strayed' = strayed
  BY SecondaryAssumption DEF Commit, SecInv, SecType, Never
<1>2. /\ DOMAIN history' = 0..(ts + 1)
      /\ \A t \in 0..ts : history'[t] = history[t]
      /\ DOMAIN history'[ts + 1] = DOMAIN history[ts] \cup rs
      /\ \A r \in DOMAIN history[ts] \cup rs : history'[ts + 1][r] = IF r \in rs THEN Fresh(r) ELSE history[ts][r]
  BY <1>1 DEF Commit, Table
<1>3. entries' = {After(e) : e \in entries} \cup {Added(r) : r \in rs}
  <2> DEFINE new == [r \in rs |-> Fresh(r)]
             old == {Table[r] : r \in Replaced}
             news == {new[r] : r \in rs}
  <2>1. entries' = InsertAll(Supersede(entries, old, ts + 1), news)
    BY DEF Commit
  <2>2. \A e : Hit(e) <=> \E w \in old : e.value = w.value /\ e.begin = w.begin
    OBVIOUS
  <2>3. Supersede(entries, old, ts + 1) = {After(e) : e \in entries}
    BY <2>2 DEF Supersede
  <2>4. {[value |-> w.value, slot |-> w.slot, begin |-> w.begin, end |-> Never] : w \in news} = {Added(r) : r \in rs}
    <3>1. \A r \in rs : new[r].value = writes[r].value /\ new[r].slot = writes[r].slot /\ new[r].begin = ts + 1
      OBVIOUS
    <3> HIDE DEF new
    <3> QED  BY <3>1
  <2> QED  BY <2>1, <2>3, <2>4 DEF InsertAll
<1>4. \A r \in rs : /\ r \in Row /\ Fresh(r) \in Version
                    /\ Fresh(r).value = writes[r].value /\ Fresh(r).slot = writes[r].slot /\ Fresh(r).begin = ts + 1
  BY <1>1 DEF Version
<1>5. \A r \in rs : /\ Added(r) \in IndexEntry
                    /\ Added(r).value = writes[r].value /\ Added(r).slot = writes[r].slot
                    /\ Added(r).begin = ts + 1 /\ Added(r).end = Never
  BY <1>1 DEF IndexEntry
<1>6. \A e \in entries : /\ e \in IndexEntry /\ e.begin \in 1..ts /\ e.end > e.begin /\ (e.end <= ts \/ e.end = Never)
                         /\ e.begin \in Nat /\ e.end \in Nat
  BY <1>1 DEF SecType, IndexEntry
<1>7. \A e \in entries : /\ After(e) \in IndexEntry
                         /\ After(e).value = e.value /\ After(e).slot = e.slot /\ After(e).begin = e.begin
                         /\ After(e).end = IF Hit(e) THEN ts + 1 ELSE e.end
  BY <1>1, <1>6 DEF IndexEntry
<1> HIDE DEF After, Added, Fresh
<1>8. SecType'
  <2>1. ASSUME NEW t \in 0..(ts + 1), NEW r \in DOMAIN history'[t]
        PROVE  r \in Row /\ history'[t][r] \in Version /\ history'[t][r].begin \in 1..t
    <3>1. CASE t \in 0..ts
      BY <1>1, <1>2, <3>1 DEF SecType
    <3>2. CASE t = ts + 1 /\ r \in rs
      BY <1>1, <1>2, <1>4, <3>2
    <3>3. CASE t = ts + 1 /\ r \notin rs
      <4>1. r \in DOMAIN history[ts] /\ history'[t][r] = history[ts][r]
        BY <1>2, <3>3
      <4>2. r \in Row /\ history[ts][r] \in Version /\ history[ts][r].begin \in 1..ts
        BY <1>1, <4>1 DEF SecType
      <4> QED  BY <1>1, <3>3, <4>1, <4>2
    <3> QED  BY <1>1, <3>1, <3>2, <3>3
  <2>2. ASSUME NEW e \in entries'
        PROVE  e \in IndexEntry /\ e.begin \in 1..(ts + 1) /\ e.end > e.begin /\ (e.end <= ts + 1 \/ e.end = Never)
    <3>1. CASE \E f \in entries : e = After(f)
      BY <1>1, <1>6, <1>7, <3>1
    <3>2. CASE \E r \in rs : e = Added(r)
      BY <1>1, <1>5, <3>2
    <3> QED  BY <1>3, <3>1, <3>2
  <2>3. ts' \in 0..MaxCommits /\ cutoff' \in 0..ts' /\ shared' \in BOOLEAN /\ strayed' \in BOOLEAN /\ Never' = Never
    BY <1>1 DEF Never, SecType
  <2> QED  BY <1>1, <1>2, <2>1, <2>2, <2>3 DEF SecType
<1>9. ASSUME ~ shared' PROVE Lasting' /\ OneRow' /\ EntriesTrue' /\ EntriesAll' /\ (~ strayed => SlotsTrue')
  <2>1. SecType /\ Lasting /\ OneRow /\ EntriesTrue /\ EntriesAll /\ (~ strayed => SlotsTrue)
    BY <1>1, <1>9 DEF SecInv
  <2>2. \A r, q \in rs : writes[r].value = writes[q].value => r = q
    BY <1>1, <1>9
  <2>3. \A t \in 0..ts : \A r \in DOMAIN history[t] : history[t][r].begin \in 1..t /\ history[t][r].begin <= ts
    BY <1>1, <2>1 DEF SecType
  <2>4. \A t \in 0..(ts + 1) : t \in 0..ts \/ t = ts + 1
    BY <1>1
  <2>5. ts \in 0..ts /\ ts' = ts + 1
    BY <1>1
  <2>6. \A r \in DOMAIN history'[ts + 1] : \/ r \in rs /\ history'[ts + 1][r] = Fresh(r)
                                           \/ r \in DOMAIN history[ts] /\ r \notin rs /\ history'[ts + 1][r] = history[ts][r]
    BY <1>2
  <2>7. Lasting'
    <3> SUFFICES ASSUME NEW t \in 0..(ts + 1), NEW r \in DOMAIN history'[t], NEW u \in history'[t][r].begin..t
                 PROVE  r \in DOMAIN history'[u] /\ history'[u][r] = history'[t][r]
      BY <2>5 DEF Lasting
    <3>1. CASE t \in 0..ts
      <4>1. history'[t] = history[t] /\ r \in DOMAIN history[t] /\ history[t][r].begin \in 1..t
        BY <1>2, <2>3, <3>1
      <4>2. u \in 0..ts /\ u \in history[t][r].begin..t
        BY <1>1, <3>1, <4>1
      <4>3. history'[u] = history[u] /\ r \in DOMAIN history[u] /\ history[u][r] = history[t][r]
        BY <1>2, <2>1, <3>1, <4>1, <4>2 DEF Lasting
      <4> QED  BY <4>1, <4>3
    <3>2. CASE t = ts + 1 /\ r \in rs /\ history'[t][r] = Fresh(r)
      <4>1. u = t
        BY <1>1, <1>4, <3>2
      <4> QED  BY <4>1
    <3>3. CASE t = ts + 1 /\ r \in DOMAIN history[ts] /\ r \notin rs /\ history'[t][r] = history[ts][r]
      <4>1. CASE u = t
        BY <4>1
      <4>2. CASE u # t
        <5>1. history[ts][r].begin \in 1..ts
          BY <2>3, <2>5, <3>3
        <5>2. u \in history[ts][r].begin..ts /\ u \in 0..ts
          BY <1>1, <3>3, <4>2, <5>1
        <5>3. r \in DOMAIN history[u] /\ history[u][r] = history[ts][r]
          BY <2>1, <2>5, <3>3, <5>2 DEF Lasting
        <5> QED  BY <1>2, <3>3, <5>2, <5>3
      <4> QED  BY <4>1, <4>2
    <3> QED  BY <2>4, <2>6, <3>1, <3>2, <3>3
  \* A version after the commit is one of the new ones or one of before.
  <2>8. ASSUME NEW t \in 0..(ts + 1), NEW r \in DOMAIN history'[t]
        PROVE  \/ r \in rs /\ history'[t][r] = Fresh(r)
               \/ \E u \in 0..ts : r \in DOMAIN history[u] /\ history'[t][r] = history[u][r]
    BY <1>2, <2>4, <2>5, <2>6
  <2>9. OneRow'
    <3> SUFFICES ASSUME NEW t \in 0..(ts + 1), NEW u \in 0..(ts + 1), NEW r \in DOMAIN history'[t], NEW q \in DOMAIN history'[u],
                        history'[t][r].value = history'[u][q].value, history'[t][r].begin = history'[u][q].begin
                 PROVE  r = q
      BY <2>5 DEF OneRow
    <3> DEFINE Old(x, v) == \E w \in 0..ts : x \in DOMAIN history[w] /\ v = history[w][x]
    <3>1. ASSUME NEW x, NEW v, Old(x, v) PROVE v.begin <= ts /\ v.begin # ts + 1
      BY <1>1, <2>3, <3>1
    <3>2. ASSUME NEW x, NEW v, Old(x, v), NEW y, NEW w, Old(y, w), v.value = w.value, v.begin = w.begin PROVE x = y
      BY <2>1, <3>2 DEF OneRow
    <3>3. /\ (r \in rs /\ history'[t][r] = Fresh(r)) \/ Old(r, history'[t][r])
          /\ (q \in rs /\ history'[u][q] = Fresh(q)) \/ Old(q, history'[u][q])
      BY <2>8
    <3> HIDE DEF Old
    <3> QED  BY <1>4, <2>2, <3>1, <3>2, <3>3
  <2>10. ASSUME NEW e \in entries PROVE \E r : \A t \in 0..(ts + 1) : Visible(After(e), t) <=> ShowsIn(history', After(e), t, r)
    <3>1. PICK r : \A t \in 0..ts : Visible(e, t) <=> Shows(e, t, r)
      BY <2>1 DEF EntriesTrue
    <3>2. Visible(e, ts) <=> e.end = Never
      BY <1>1, <1>6 DEF Visible
    <3>3. ASSUME Hit(e) PROVE e.end = Never /\ r \in rs
      <4>1. PICK q \in DOMAIN history[ts] \cap rs : e.value = history[ts][q].value /\ e.begin = history[ts][q].begin
        BY <3>3 DEF Table
      <4>2. q = r /\ Visible(e, ts)
        BY <2>1, <2>5, <3>1, <4>1, EntryOfVersion
      <4> QED  BY <3>2, <4>1, <4>2
    <3>4. ASSUME NEW t \in 0..ts PROVE Visible(After(e), t) <=> ShowsIn(history', After(e), t, r)
      <4>1. Visible(After(e), t) <=> Visible(e, t)
        <5>1. CASE Hit(e)
          BY <1>1, <1>6, <1>7, <3>3, <5>1 DEF Visible
        <5>2. CASE ~ Hit(e)
          BY <1>7, <5>2 DEF Visible
        <5> QED  BY <5>1, <5>2
      <4>2. ShowsIn(history', After(e), t, r) <=> Shows(e, t, r)
        BY <1>2, <1>7 DEF Shows, ShowsIn, Of
      <4> QED  BY <3>1, <4>1, <4>2
    <3>5. Visible(After(e), ts + 1) <=> e.end = Never /\ ~ Hit(e)
      BY <1>1, <1>6, <1>7 DEF Visible
    <3>6. ASSUME r \in rs PROVE ~ ShowsIn(history', After(e), ts + 1, r)
      <4>1. history'[ts + 1][r].begin = ts + 1
        BY <1>2, <1>4, <3>6
      <4>2. After(e).begin # ts + 1
        BY <1>1, <1>6, <1>7
      <4> QED  BY <4>1, <4>2 DEF Shows, ShowsIn, Of
    <3>7. ASSUME r \in rs, e.end = Never PROVE Hit(e)
      BY <2>5, <3>1, <3>2, <3>7 DEF Shows, ShowsIn, Of, Table
    <3>8. ASSUME r \notin rs PROVE ShowsIn(history', After(e), ts + 1, r) <=> e.end = Never
      <4>1. ShowsIn(history', After(e), ts + 1, r) <=> Shows(e, ts, r)
        BY <1>2, <1>7, <3>8 DEF Shows, ShowsIn, Of
      <4> QED  BY <2>5, <3>1, <3>2, <4>1
    <3>9. Visible(After(e), ts + 1) <=> ShowsIn(history', After(e), ts + 1, r)
      BY <3>3, <3>5, <3>6, <3>7, <3>8
    <3> QED  BY <2>4, <3>4, <3>9
  <2>11. ASSUME NEW r \in rs PROVE \A t \in 0..(ts + 1) : Visible(Added(r), t) <=> ShowsIn(history', Added(r), t, r)
    <3>1. ASSUME NEW t \in 0..ts PROVE ~ Visible(Added(r), t) /\ ~ ShowsIn(history', Added(r), t, r)
      <4>1. ~ Visible(Added(r), t)
        BY <1>1, <1>5 DEF Visible
      <4>2. r \in DOMAIN history[t] => history[t][r].begin # ts + 1
        BY <1>1, <2>3
      <4>3. ~ ShowsIn(history', Added(r), t, r)
        BY <1>2, <1>5, <4>2 DEF Shows, ShowsIn, Of
      <4> QED  BY <4>1, <4>3
    <3>2. Visible(Added(r), ts + 1)
      BY <1>1, <1>5 DEF Visible
    <3>3. ShowsIn(history', Added(r), ts + 1, r)
      BY <1>2, <1>4, <1>5 DEF Shows, ShowsIn, Of
    <3> QED  BY <2>4, <3>1, <3>2, <3>3
  <2>12. EntriesTrue'
    <3>1. ASSUME NEW f \in entries' PROVE \E r : \A t \in 0..(ts + 1) : Visible(f, t) <=> ShowsIn(history', f, t, r)
      <4>1. CASE \E e \in entries : f = After(e)
        BY <2>10, <4>1
      <4>2. CASE \E r \in rs : f = Added(r)
        BY <2>11, <4>2
      <4> QED  BY <1>3, <4>1, <4>2
    <3> QED  BY <1>1, <3>1 DEF EntriesTrue, Shows, Visible, Never
  <2>13. ASSUME NEW t \in cutoff..(ts + 1), NEW r \in DOMAIN history'[t]
         PROVE  \E f \in entries' : Of(f, history'[t][r])
    <3>1. CASE t \in 0..ts \/ r \notin rs
      <4>1. PICK u \in cutoff..ts : u \in 0..ts /\ r \in DOMAIN history[u] /\ history'[t][r] = history[u][r]
        <5>1. CASE t \in 0..ts
          BY <1>1, <1>2, <5>1
        <5>2. CASE t = ts + 1 /\ r \notin rs
          BY <1>1, <2>5, <2>6, <5>2
        <5> QED  BY <1>1, <3>1, <5>1, <5>2
      <4>2. PICK e \in entries : Of(e, history[u][r])
        BY <2>1, <4>1 DEF EntriesAll
      <4>3. Of(After(e), history'[t][r]) /\ After(e) \in entries'
        BY <1>3, <1>7, <4>1, <4>2 DEF Of
      <4> QED  BY <4>3
    <3>2. CASE t = ts + 1 /\ r \in rs
      <4>1. Of(Added(r), history'[t][r]) /\ Added(r) \in entries'
        BY <1>2, <1>3, <1>4, <1>5, <3>2 DEF Of
      <4> QED  BY <4>1
    <3> QED  BY <1>1, <3>1, <3>2
  <2>14. EntriesAll'
    BY <1>1, <2>5, <2>13, Zenon DEF EntriesAll
  <2>15. ASSUME ~ strayed PROVE SlotsTrue'
    <3> SUFFICES ASSUME NEW f \in entries', NEW t \in 0..(ts + 1), NEW r \in DOMAIN history'[t], Of(f, history'[t][r])
                 PROVE  f.slot = history'[t][r].slot
      BY <1>1 DEF SlotsTrue
    <3>1. CASE \E e \in entries : f = After(e)
      <4>1. PICK e \in entries : f = After(e)
        BY <3>1
      <4>2. f.slot = e.slot /\ f.value = e.value /\ f.begin = e.begin /\ f.begin # ts + 1
        BY <1>1, <1>6, <1>7, <4>1
      <4>3. ~ (r \in rs /\ history'[t][r] = Fresh(r))
        BY <1>4, <4>2 DEF Of
      <4>4. PICK u \in 0..ts : r \in DOMAIN history[u] /\ history'[t][r] = history[u][r]
        BY <2>8, <4>3
      <4> QED  BY <2>1, <2>15, <4>2, <4>4 DEF SlotsTrue, Of
    <3>2. CASE \E q \in rs : f = Added(q)
      <4>1. PICK q \in rs : f = Added(q)
        BY <3>2
      <4>2. history'[t][r].begin = ts + 1 /\ history'[t][r].value = writes[q].value
        BY <1>5, <4>1 DEF Of
      <4>3. r \in rs /\ history'[t][r] = Fresh(r)
        BY <1>1, <2>3, <2>8, <4>2
      <4>4. r = q
        BY <1>4, <2>2, <4>2, <4>3
      <4> QED  BY <1>4, <1>5, <4>1, <4>3, <4>4
    <3> QED  BY <1>3, <3>1, <3>2
  <2> QED  BY <2>7, <2>9, <2>12, <2>14, <2>15
<1> QED  BY <1>1, <1>8, <1>9 DEF SecInv

LEMMA SecKeeps == SecInv /\ [SecNext]_sec_vars => SecInv'
<1> SUFFICES ASSUME SecInv, [SecNext]_sec_vars PROVE SecInv'
  OBVIOUS
<1>1. CASE UNCHANGED sec_vars
  <2>1. /\ entries' = entries /\ ts' = ts /\ history' = history
        /\ cutoff' = cutoff /\ shared' = shared /\ strayed' = strayed
    BY <1>1 DEF sec_vars
  <2>2. SecType' /\ (Lasting => Lasting') /\ (OneRow => OneRow') /\ (EntriesAll => EntriesAll')
    BY <2>1 DEF SecInv, SecType, Lasting, OneRow, EntriesAll
  <2>3. (EntriesTrue => EntriesTrue') /\ (SlotsTrue => SlotsTrue')
    BY <2>1 DEF EntriesTrue, SlotsTrue, Shows, ShowsIn, Visible
  <2> QED  BY <2>1, <2>2, <2>3 DEF SecInv
<1>2. CASE \E rs \in (SUBSET Row) \ {{}} : \E vs \in [rs -> Value], ss \in [rs -> FreeSlots] :
              (\A r, q \in rs : r # q => ss[r] # ss[q]) /\ Commit([r \in rs |-> [value |-> vs[r], slot |-> ss[r]]])
  <2>1. PICK rs \in SUBSET Row : \E vs \in [rs -> Value], ss \in [rs -> FreeSlots] :
                                    Commit([r \in rs |-> [value |-> vs[r], slot |-> ss[r]]])
    BY <1>2
  <2>2. PICK vs \in [rs -> Value], ss \in [rs -> FreeSlots] : Commit([r \in rs |-> [value |-> vs[r], slot |-> ss[r]]])
    BY <2>1
  <2> DEFINE writes == [r \in rs |-> [value |-> vs[r], slot |-> ss[r]]]
  <2>3. DOMAIN writes = rs /\ \A r \in rs : writes[r].value \in Int /\ writes[r].slot \in Slot
    BY SecondaryAssumption DEF FreeSlots
  <2>4. Commit(writes)
    BY <2>2
  <2> HIDE DEF writes
  <2> QED  BY <2>3, <2>4, CommitKeeps
<1>3. CASE \E min \in 1..ts : Gc(min)
  BY <1>3, GcKeeps
<1>4. CASE \E old \in {e.slot : e \in entries}, new \in FreeSlots : Relocate(old, new)
  BY <1>4, RelocateKeeps
<1> QED  BY <1>1, <1>2, <1>3, <1>4, Zenon DEF SecNext

-----------------------------------------------------------------------------
LEMMA SearchKeeps == SnipInv /\ SecInv /\ [SearchNext]_<<text, sec_vars>> => SnipInv' /\ SecInv'
<1> SUFFICES ASSUME SnipInv, SecInv, [SearchNext]_<<text, sec_vars>> PROVE SnipInv' /\ SecInv'
  OBVIOUS
<1>1. [SnipNext]_text /\ [SecNext]_sec_vars
  BY DEF SearchNext
<1> QED  BY <1>1, SnipKeeps, SecKeeps

\* A snippet is a piece of the text no longer than asked that shows as many
\* matches as any piece of that length, with marks that begin at matches and
\* do not overlap; and as long as no transaction gives one value to two rows a
\* secondary index has, for every commit since the gc cutoff, an entry for each
\* row that had the value then, through updates, gc and compaction, and gives
\* their places as long as no row is moved while another segment has one at the
\* same block and slot.
THEOREM SearchIsSafe == SearchSpec => []SearchSafe
<1>1. SnipInit /\ SecInit => SnipInv /\ SecInv
  BY SnipBegins, SecBegins
<1>2. SnipInv /\ SecInv => SearchSafe
  BY SnipIsSafe, SecIsExact DEF SearchSafe
<1> QED  BY <1>1, <1>2, SearchKeeps, PTL DEF SearchSpec
=============================================================================
