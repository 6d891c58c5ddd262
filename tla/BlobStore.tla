------------------------------ MODULE BlobStore ------------------------------
(***************************************************************************)
(* BlobStore of cendb-cas/src/blob.rs: reference-counted, content-         *)
(* addressed files with an index that is rewritten after every change.     *)
(* Every call takes &mut self; its file operations are steps, so that the  *)
(* process may end, or an operation fail, in between.                      *)
(*                                                                         *)
(* A blob is its hash.  A .blob or .meta file is there or not: one that    *)
(* was cut short is never read, because its hash is not in the index.      *)
(* Sizes and compression travel with the metadata and decide nothing.      *)
(* What the file system loses of files that were not fsynced is left out.  *)
(*                                                                         *)
(* The index is a radix tree of hashes with their counts, known here by    *)
(* its operations alone.  The tree of ArtTree forgets where some hashes    *)
(* are when the removal of another one collapses a node: an operation may  *)
(* then fail to find a hash that the calls have put.                       *)
(*                                                                         *)
(* What follows index_file and call is not in the code.  refs counts the   *)
(* references that tables hold: those put and retain answered Ok for, less *)
(* those they began to release.  counts is what the calls have made of     *)
(* each count, whatever the tree finds.                                    *)
(***************************************************************************)
EXTENDS Integers, Sequences, SequencesExt

CONSTANTS Hash,
          NewIndex,              \* the tree without hashes
          IndexGet(_, _),        \* the count the tree finds for a hash, or 0
          IndexInsert(_, _, _),  \* the tree with a count for a hash
          IndexRemove(_, _),     \* the tree after the removal of a hash
          Collapses(_, _),       \* whether that removal collapses an inner node
          IndexIter(_),          \* <<hash, count>> for each leaf, from left to right
          MaxRefs,     \* bound: the references to a blob
          MaxFaults    \* bound: failed operations and restarts

VARIABLES index,       \* the tree
          blob, meta,  \* hashes with a .blob file, with a .meta file
          index_file,  \* the entries of _index.cdb, or NoFile
          call,        \* the call in progress
          counts,      \* hash -> count, 0 when it has none
          saved,       \* counts when index_file was written
          refs,        \* references held by tables
          orphaned,    \* hashes an index lists although their release began
          forked,      \* hashes changed while the tree found another count for them
          file_cut,    \* index_file was cut short
          index_cut,   \* and has been loaded
          collapsed_index,  \* a removal has collapsed a node since the store was opened
          faults       \* failed operations and restarts so far

files == <<blob, meta, index_file>>
marks == <<orphaned, forked, file_cut, index_cut, collapsed_index, faults>>
vars == <<index, files, call, counts, saved, refs, marks>>

NoFile == <<>>
File(entries) == <<entries>>
Empty == [h \in Hash |-> 0]
Idle == [op |-> "idle"]

Init == /\ index = NewIndex
        /\ blob = {} /\ meta = {}
        /\ index_file = NoFile
        /\ call = Idle
        /\ counts = Empty /\ saved = Empty
        /\ refs = Empty
        /\ orphaned = {} /\ forked = {}
        /\ file_cut = FALSE /\ index_cut = FALSE
        /\ collapsed_index = FALSE
        /\ faults = 0

Ready == call = Idle
InCall(op) == call.op = op
CallTo(op, h, gain) == call' = [op |-> op, hash |-> h, gain |-> gain]

\* The tree does not find what the calls have made of the count of h.
Astray(h) == IndexGet(index, h) # counts[h]
MarkForked(h) == forked' = IF Astray(h) THEN forked \cup {h} ELSE forked

-----------------------------------------------------------------------------
(* put and retain *)

\* put of content that is in the index, and retain: count it, then persist.
PutExisting(h) ==
    /\ Ready
    /\ refs[h] < MaxRefs
    /\ IndexGet(index, h) > 0
    /\ index' = IndexInsert(index, h, IndexGet(index, h) + 1)
    /\ counts' = [counts EXCEPT ![h] = @ + 1]
    /\ MarkForked(h)
    /\ CallTo("persist", h, 1)
    /\ UNCHANGED <<files, saved, refs, orphaned, file_cut, index_cut, collapsed_index, faults>>

Retain(h) == refs[h] > 0 /\ PutExisting(h)

\* put of content that is not found: the data is written and fsynced ...
PutBlob(h) ==
    /\ Ready
    /\ refs[h] < MaxRefs
    /\ IndexGet(index, h) = 0
    /\ blob' = blob \cup {h}
    /\ orphaned' = orphaned \ {h}
    /\ MarkForked(h)
    /\ CallTo("put_meta", h, 1)
    /\ UNCHANGED <<index, meta, index_file, counts, saved, refs, file_cut, index_cut, collapsed_index, faults>>

\* Fault: the new entry has no reference yet.
PutMeta_CountsZero ==
    /\ InCall("put_meta")
    /\ meta' = meta \cup {call.hash}
    /\ index' = IndexInsert(index, call.hash, 0)
    /\ counts' = [counts EXCEPT ![call.hash] = 0]
    /\ CallTo("persist", call.hash, 1)
    /\ UNCHANGED <<blob, index_file, saved, refs, marks>>

\* ... then the metadata; then the index knows it.
PutMeta ==
    /\ InCall("put_meta")
    /\ meta' = meta \cup {call.hash}
    /\ index' = IndexInsert(index, call.hash, 1)
    /\ counts' = [counts EXCEPT ![call.hash] = 1]
    /\ CallTo("persist", call.hash, 1)
    /\ UNCHANGED <<blob, index_file, saved, refs, marks>>

-----------------------------------------------------------------------------
(* release *)

HasReference(h) == Ready /\ refs[h] > 0 /\ IndexGet(index, h) > 0
GiveUp(h) == refs' = [refs EXCEPT ![h] = @ - 1]

ReleaseCounted(h) ==
    /\ HasReference(h)
    /\ IndexGet(index, h) > 1
    /\ GiveUp(h)
    /\ index' = IndexInsert(index, h, IndexGet(index, h) - 1)
    /\ counts' = [counts EXCEPT ![h] = @ - 1]
    /\ MarkForked(h)
    /\ CallTo("persist", h, 0)
    /\ UNCHANGED <<files, saved, orphaned, file_cut, index_cut, collapsed_index, faults>>

\* Fault: the blob is deleted while one reference is left.
ReleaseBlob_Early(h) ==
    /\ HasReference(h)
    /\ IndexGet(index, h) <= 2
    /\ GiveUp(h)
    /\ blob' = blob \ {h}
    /\ MarkForked(h)
    /\ CallTo("release_meta", h, 0)
    /\ UNCHANGED <<index, meta, index_file, counts, saved, orphaned, file_cut, index_cut, collapsed_index, faults>>

\* The last reference: the data goes first ...
ReleaseBlob(h) ==
    /\ HasReference(h)
    /\ IndexGet(index, h) <= 1
    /\ GiveUp(h)
    /\ blob' = blob \ {h}
    /\ MarkForked(h)
    /\ CallTo("release_meta", h, 0)
    /\ UNCHANGED <<index, meta, index_file, counts, saved, orphaned, file_cut, index_cut, collapsed_index, faults>>

\* ... then the metadata and the entry, which may collapse a node of the tree.
ReleaseMeta ==
    /\ InCall("release_meta")
    /\ meta' = meta \ {call.hash}
    /\ index' = IndexRemove(index, call.hash)
    /\ counts' = [counts EXCEPT ![call.hash] = 0]
    /\ orphaned' = orphaned \ {call.hash}
    /\ collapsed_index' = (collapsed_index \/ Collapses(index, call.hash))
    /\ CallTo("persist", call.hash, 0)
    /\ UNCHANGED <<blob, index_file, saved, refs, forked, file_cut, index_cut, faults>>

-----------------------------------------------------------------------------
(* persist_index, failures and restarts *)

Answer == refs' = IF call.gain = 1 THEN [refs EXCEPT ![call.hash] = @ + 1] ELSE refs

\* Fault: the index is written for new blobs only.
PersistIndex_NewOnly ==
    /\ InCall("persist")
    /\ IF index_file = NoFile \/ saved[call.hash] = 0
       THEN index_file' = File(IndexIter(index)) /\ saved' = counts
       ELSE UNCHANGED <<index_file, saved>>
    /\ file_cut' = FALSE
    /\ Answer
    /\ call' = Idle
    /\ UNCHANGED <<index, blob, meta, counts, orphaned, forked, index_cut, collapsed_index, faults>>

\* fs::write truncates the file and writes all of it.
PersistIndex ==
    /\ InCall("persist")
    /\ index_file' = File(IndexIter(index))
    /\ saved' = counts
    /\ file_cut' = FALSE
    /\ orphaned' = {h \in orphaned : counts[h] > 0}
    /\ Answer
    /\ call' = Idle
    /\ UNCHANGED <<index, blob, meta, counts, forked, index_cut, collapsed_index, faults>>

\* The release of call.hash was cut between its first and its last step.
OrphanedBy(c) == IF c.op = "release_meta" THEN orphaned \cup {c.hash} ELSE orphaned

\* Hashes that a persist in progress has already taken out of the index while
\* the file still lists them.
StillListed == IF InCall("persist") /\ counts[call.hash] = 0 THEN {call.hash} ELSE {}

\* The write of the index ends early: the file was not opened, or it has the
\* first entries only; load_index stops at an incomplete one.
WriteCut == \/ UNCHANGED <<index_file, file_cut>>
            \/ /\ InCall("persist")
               /\ \E n \in 0..Len(IndexIter(index)) : index_file' = File(SubSeq(IndexIter(index), 1, n))
               /\ file_cut' = TRUE

\* The file operation of the current step fails; the caller has an error and
\* whatever the call has done so far stays.
OperationFails ==
    /\ ~Ready
    /\ faults < MaxFaults
    /\ faults' = faults + 1
    /\ WriteCut
    /\ orphaned' = OrphanedBy(call) \cup StillListed
    /\ call' = Idle
    /\ UNCHANGED <<index, blob, meta, counts, saved, refs, forked, index_cut, collapsed_index>>

\* load_index: the entries one after the other; a later one replaces an
\* earlier one of the same hash.
LoadIndex(entries) == FoldLeft(LAMBDA tree, e : IndexInsert(tree, e[1], e[2]), NewIndex, entries)

\* scan_existing: the index file if there is one, else every blob with
\* metadata, whose reference count is still the 1 it was written with.
ScanExisting(file) == IF file # NoFile THEN LoadIndex(file[1])
                      ELSE LoadIndex(SetToSeq({<<h, 1>> : h \in blob \cap meta}))

\* What a restart makes of the counts, but for a file that was cut short
OnDisk == IF index_file # NoFile THEN saved
          ELSE [h \in Hash |-> IF h \in blob \cap meta THEN 1 ELSE 0]

\* The process ends, at any moment; its successor opens the directory.  A
\* persist in progress has not begun, or was cut.
Restart ==
    /\ faults < MaxFaults
    /\ faults' = faults + 1
    /\ WriteCut
    /\ index' = ScanExisting(index_file')
    /\ index_cut' = (index_cut \/ file_cut')
    /\ counts' = OnDisk
    /\ orphaned' = {h \in OrphanedBy(call) \cup StillListed : counts'[h] > 0}
    /\ collapsed_index' = FALSE
    /\ call' = Idle
    /\ UNCHANGED <<blob, meta, saved, refs, forked>>

Next == \/ \E h \in Hash : \/ PutExisting(h)
                           \/ Retain(h)
                           \/ PutBlob(h)
                           \/ ReleaseCounted(h)
                           \/ ReleaseBlob(h)
        \/ PutMeta
        \/ ReleaseMeta
        \/ PersistIndex
        \/ OperationFails
        \/ Restart

Spec == Init /\ [][Next]_vars
-----------------------------------------------------------------------------
(* Properties.  Nothing is said of what follows after a cut index was loaded, *)
(* nor of a hash that was put again because the tree no longer found it: the  *)
(* tree has two leaves for it then, with a count each.                        *)

\* The file of a blob that a table references is there, and the tree finds its
\* entry unless a collapse led the lookup astray, whatever failed or restarted
\* on the way.  The exception are hashes whose last release was cut short: the
\* next put of that content finds the entry and writes nothing.
ReferencedReadable ==
    ~index_cut => \A h \in Hash \ (orphaned \cup forked) :
        refs[h] > 0 => h \in blob /\ (Astray(h) \/ IndexGet(index, h) > 0)

\* What the tree finds for a hash, unless the lookup is led astray, is never
\* less than the references that tables hold, so no release deletes a blob that
\* another table needs; a failure can only leave the count high.
CountCovers ==
    ~index_cut => \A h \in Hash \ forked : ~Astray(h) => refs[h] <= IndexGet(index, h)

\* Without failures the count is exact between calls, on disk as in memory,
\* and a blob has its files as long as a table references it: also while the
\* tree does not find it.
CountExact ==
    Ready /\ faults = 0 =>
        /\ \A h \in Hash \ forked : /\ ~Astray(h) => IndexGet(index, h) = refs[h]
                                   /\ counts[h] = refs[h]
                                   /\ (h \in blob) = (refs[h] > 0)
                                   /\ (h \in meta) = (refs[h] > 0)
        /\ index_file \in {File(IndexIter(index)), NoFile}

\* No lookup is led astray before a removal has collapsed an inner node of the
\* tree, and none after the store is opened again from a whole index file: the
\* leaves a collapse hides are still written and loaded.
IndexFaithful ==
    LET reopened == ScanExisting(index_file)
    IN  ~index_cut => \A h \in Hash \ forked :
            /\ ~collapsed_index => ~Astray(h)
            /\ ~file_cut => OnDisk[h] = IndexGet(reopened, h)
-----------------------------------------------------------------------------
(* The inductive invariant behind the safety properties.                   *)

InvType == /\ counts \in [Hash -> Int]
           /\ saved \in [Hash -> Int]
           /\ blob \subseteq Hash
           /\ meta \subseteq Hash
           /\ call = Idle \/ call \in [op : {"put_meta", "release_meta", "persist"}, hash : Hash, gain : {0, 1}]
           /\ refs \in [Hash -> Nat]
           /\ orphaned \subseteq Hash
           /\ forked \subseteq Hash
           /\ file_cut \in BOOLEAN
           /\ index_cut \in BOOLEAN
           /\ faults \in Nat

\* The reference that the call in progress will answer for.
Promised(h) == IF InCall("persist") /\ call.hash = h THEN call.gain ELSE 0

\* The counts cover the references held and promised, in memory ...
MemoryCovers == ~index_cut => \A h \in Hash \ forked : refs[h] + Promised(h) <= counts[h]

\* ... and, for the references held, on disk.
DiskCovers == /\ ~index_cut /\ ~file_cut => \A h \in Hash \ forked : refs[h] <= OnDisk[h]
              /\ index_file = NoFile => \A h \in Hash : refs[h] = 0

\* A release under way is the last one, a put of new content the first.
CallConsistent == ~index_cut /\ ~Ready /\ call.hash \notin forked =>
    /\ InCall("release_meta") => refs[call.hash] = 0
    /\ InCall("put_meta") => counts[call.hash] = 0 /\ call.hash \in blob

\* Listed hashes have a file, but for a release that was cut or is under way.
Releasing == IF InCall("release_meta") THEN {call.hash} ELSE {}
MemoryListed == ~index_cut =>
    \A h \in Hash \ (orphaned \cup forked \cup Releasing) : counts[h] > 0 => h \in blob
DiskListed == ~index_cut /\ ~file_cut =>
    \A h \in Hash \ (orphaned \cup forked \cup Releasing \cup StillListed) : OnDisk[h] > 0 => h \in blob

IInv == /\ InvType
        /\ MemoryCovers
        /\ DiskCovers
        /\ CallConsistent
        /\ MemoryListed
        /\ DiskListed
=============================================================================
