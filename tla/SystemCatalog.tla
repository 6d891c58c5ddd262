--------------------------- MODULE SystemCatalog ----------------------------
(***************************************************************************)
(* The catalog of a database and the hot backup of its files               *)
(* (cendb-system).                                                         *)
(***************************************************************************)
EXTENDS Integers, Sequences, SequencesExt, FiniteSetsExt

(***************************************************************************)
(* The system catalog (cendb-system/src/catalog.rs): tables with their     *)
(* columns, indexes, views and procedures.  Views and procedures are maps  *)
(* from names to definitions.                                              *)
(***************************************************************************)
CONSTANTS Table, Col, IndexName, ViewName, MaxColumns, MaxIndexes

VARIABLES tables,      \* name -> sequence of column names
          indexes,     \* sequence of [name, table, column]
          views,       \* names in use
          procedures,
          loose        \* indexes whose column the catalog lost or never had

catalog_vars == <<tables, indexes, views, procedures, loose>>

Anchored(ts, i) == i.table \in DOMAIN ts /\ Contains(ts[i.table], i.column)
LooseIn(ts, is) == {i \in ToSet(is) : ~Anchored(ts, i)}

\* Vec::retain: the elements that are not dropped, in the order they were in.
Retain(list, dropped) ==
    LET kept == {i \in DOMAIN list : list[i] \notin dropped}
        Place(i) == Cardinality({j \in kept : j <= i})
    IN  [k \in 1..Cardinality(kept) |-> list[CHOOSE i \in kept : Place(i) = k]]

CatalogInit == tables = <<>> /\ indexes = <<>> /\ views = {} /\ procedures = {} /\ loose = {}

\* A table of the name that is there already is replaced
RegisterTable(t, cols) == /\ tables' = [u \in DOMAIN tables \cup {t} |-> IF u = t THEN cols ELSE tables[u]]
                          /\ loose' = loose \cup LooseIn(tables', indexes)
                          /\ UNCHANGED <<indexes, views, procedures>>

\* A mutant: the indexes of the table are not removed with it.
DropTableOnly(t) == /\ t \in DOMAIN tables
                    /\ tables' = [u \in DOMAIN tables \ {t} |-> tables[u]]
                    /\ UNCHANGED <<indexes, views, procedures, loose>>

DropTable(t) == /\ t \in DOMAIN tables
                /\ tables' = [u \in DOMAIN tables \ {t} |-> tables[u]]
                /\ indexes' = Retain(indexes, {i \in ToSet(indexes) : i.table = t})
                /\ loose' = loose \cap ToSet(indexes')
                /\ UNCHANGED <<views, procedures>>

AddColumn(t, c) == /\ t \in DOMAIN tables /\ Len(tables[t]) < MaxColumns
                   /\ tables' = [tables EXCEPT ![t] = Append(@, c)]
                   /\ UNCHANGED <<indexes, views, procedures, loose>>

DropColumn(t, c) == /\ t \in DOMAIN tables
                    /\ tables' = [tables EXCEPT ![t] = Retain(@, {c})]
                    /\ loose' = loose \cup LooseIn(tables', indexes)
                    /\ UNCHANGED <<indexes, views, procedures>>

\* The first column of the name
RenameColumn(t, c, d) == /\ t \in DOMAIN tables /\ Contains(tables[t], c)
                         /\ tables' = [tables EXCEPT ![t] = [@ EXCEPT ![SelectInSeq(@, LAMBDA e : e = c)] = d]]
                         /\ loose' = loose \cup LooseIn(tables', indexes)
                         /\ UNCHANGED <<indexes, views, procedures>>

RegisterIndex(i) == /\ Len(indexes) < MaxIndexes
                    /\ indexes' = Append(indexes, i)
                    /\ loose' = loose \cup LooseIn(tables, <<i>>)
                    /\ UNCHANGED <<tables, views, procedures>>

DropIndex(n) == /\ indexes' = Retain(indexes, {i \in ToSet(indexes) : i.name = n})
                /\ loose' = loose \cap ToSet(indexes')
                /\ UNCHANGED <<tables, views, procedures>>

IndexesForTable(t) == Retain(indexes, {i \in ToSet(indexes) : i.table # t})

CreateView(v) == views' = views \cup {v} /\ UNCHANGED <<tables, indexes, procedures, loose>>
DropView(v) == views' = views \ {v} /\ UNCHANGED <<tables, indexes, procedures, loose>>
CreateProcedure(p) == procedures' = procedures \cup {p} /\ UNCHANGED <<tables, indexes, views, loose>>
DropProcedure(p) == procedures' = procedures \ {p} /\ UNCHANGED <<tables, indexes, views, loose>>

CatalogNext == \/ \E t \in Table : \/ \E cols \in SeqOf(Col, MaxColumns) : RegisterTable(t, cols)
                                   \/ DropTable(t)
                                   \/ \E c \in Col : AddColumn(t, c) \/ DropColumn(t, c) \/ \E d \in Col : RenameColumn(t, c, d)
               \/ \E n \in IndexName : DropIndex(n) \/ \E t \in Table, c \in Col : RegisterIndex([name |-> n, table |-> t, column |-> c])
               \/ \E v \in ViewName : CreateView(v) \/ DropView(v) \/ CreateProcedure(v) \/ DropProcedure(v)

CatalogSpec == CatalogInit /\ [][CatalogNext]_catalog_vars

-----------------------------------------------------------------------------
\* After any sequence of schema changes an index stands on a column of a table
\* of the catalog, except where it was registered without one, or its column
\* was dropped, renamed or left out of a new definition of the table: dropping
\* a table never leaves one of its indexes behind.
IndexesAnchored == /\ \A i \in ToSet(indexes) \ loose : Anchored(tables, i)
                   /\ \A t \in Table : t \notin DOMAIN tables => ToSet(IndexesForTable(t)) \subseteq loose

-----------------------------------------------------------------------------
(***************************************************************************)
(* The hot backup (cendb-system/src/backup.rs): the files of the database  *)
(* are copied one after the other, buffer by buffer, while writers go on.  *)
(* A file is a sequence of buffers; the checksum is the sequence of all    *)
(* buffers hashed, in the order in which the directory lists the files.    *)
(* A directory that holds an earlier backup is taken as it is: files and   *)
(* metadata stay until they are written over.  Files do not come or go.    *)
(***************************************************************************)
CONSTANTS File, MaxVersions   \* bound: writes, each of a new content

ASSUME BackupAssumption == IsFiniteSet(File) /\ File # {} /\ MaxVersions \in Nat

VARIABLES db,        \* file -> buffers
          version,
          dest,      \* file -> buffers copied, for the files created by this backup
          former,    \* what the directory held when it began
          todo,      \* files still to copy, in the order listed
          checksum,  \* the buffers hashed so far
          meta,      \* <<checksum>> of the metadata file, <<>> if it has none
          phase,     \* "idle", "copying", "done" or "failed"
          moments,   \* states of the database since the backup began
          damaged,   \* the copy was changed afterwards
          places,    \* the file and the place of every write
          complete   \* the copy the last backup to succeed had made

backup_vars == <<db, version, dest, former, todo, checksum, meta, phase, moments, damaged, places, complete>>

BackupInit == /\ db = [f \in File |-> <<0, 0>>] /\ version = 0 /\ places = <<>>
              /\ dest = <<>> /\ former = <<>> /\ todo = <<>> /\ checksum = <<>> /\ meta = <<>>
              /\ phase = "idle" /\ moments = {} /\ damaged = FALSE /\ complete = <<>>

\* The files of the backup directory: new ones, and those still to be replaced
Directory == [f \in DOMAIN dest \cup DOMAIN former |-> IF f \in DOMAIN dest THEN dest[f] ELSE former[f]]

\* A writer of the database: a buffer changed or appended
WriteFile(f, i) == /\ version < MaxVersions /\ version' = version + 1
                   /\ i \in 1..(Len(db[f]) + 1)
                   /\ db' = [db EXCEPT ![f] = IF i > Len(@) THEN Append(@, version + 1) ELSE [@ EXCEPT ![i] = version + 1]]
                   /\ places' = Append(places, <<f, i>>)
                   /\ moments' = IF phase = "copying" THEN moments \cup {db'} ELSE moments
                   /\ UNCHANGED <<dest, former, todo, checksum, meta, phase, damaged, complete>>

Listings == {order \in [1..Cardinality(File) -> File] : IsInjective(order)}

BeginBackup(order) == /\ phase # "copying" /\ phase' = "copying"
                      /\ todo' = order /\ moments' = {db} /\ checksum' = <<>>
                      /\ former' = Directory /\ dest' = [f \in {order[1]} |-> <<>>]
                      /\ damaged' = FALSE
                      /\ UNCHANGED <<db, version, meta, places, complete>>

\* One turn of the inner loop: the next buffer of the file as it is now
CopyBuffer == LET f == Head(todo)
                  n == Len(dest[f]) + 1
              IN  /\ phase = "copying" /\ todo # <<>> /\ n <= Len(db[f])
                  /\ dest' = [dest EXCEPT ![f] = Append(@, db[f][n])]
                  /\ checksum' = Append(checksum, db[f][n])
                  /\ UNCHANGED <<db, version, former, todo, meta, phase, moments, damaged, places, complete>>

\* End of a file: the next one is created
FileDone == /\ phase = "copying" /\ todo # <<>> /\ Len(dest[Head(todo)]) >= Len(db[Head(todo)])
            /\ todo' = Tail(todo)
            /\ dest' = [f \in DOMAIN dest \cup {todo[i] : i \in {2} \cap DOMAIN todo} |-> IF f \in DOMAIN dest THEN dest[f] ELSE <<>>]
            /\ UNCHANGED <<db, version, former, checksum, meta, phase, moments, damaged, places, complete>>

WriteMeta == /\ phase = "copying" /\ todo = <<>>
             /\ phase' = "done" /\ meta' = <<checksum>> /\ complete' = dest
             /\ UNCHANGED <<db, version, dest, former, todo, checksum, moments, damaged, places>>

\* A mutant: the metadata is written on the way out of a failure too.
FailWithMeta == /\ phase = "copying" /\ phase' = "failed" /\ meta' = <<checksum>>
                /\ UNCHANGED <<db, version, dest, former, todo, checksum, moments, damaged, places, complete>>

\* An I/O error: backup returns it and leaves what it has copied; the metadata
\* file may be left cut short, without its checksum
Fail == /\ phase = "copying" /\ phase' = "failed"
        /\ meta' \in {meta} \cup (IF todo = <<>> THEN {<<>>} ELSE {})
        /\ UNCHANGED <<db, version, dest, former, todo, checksum, moments, damaged, places, complete>>

\* The copy loses or changes a buffer later
Damage(f, i) == /\ phase = "done" /\ ~damaged /\ damaged' = TRUE
                /\ i \in DOMAIN dest[f]
                /\ dest' \in {[dest EXCEPT ![f][i] = MaxVersions + 1], [dest EXCEPT ![f] = SubSeq(@, 1, i - 1)]}
                /\ UNCHANGED <<db, version, former, todo, checksum, meta, phase, moments, places, complete>>

\* The buffers of the files of a directory, in the order in which it is listed
Contents(order, files) == FlattenSeq([i \in DOMAIN order |-> IF order[i] \in DOMAIN files THEN files[order[i]] ELSE <<>>])

Verify(order) == meta # <<>> /\ <<Contents(order, Directory)>> = meta

BackupNext == \/ CopyBuffer \/ FileDone \/ WriteMeta \/ Fail
              \/ \E order \in Listings : BeginBackup(order)
              \/ \E f \in File : \E i \in 1..(MaxVersions + 2) : WriteFile(f, i) \/ (f \in DOMAIN dest /\ Damage(f, i))

BackupSpec == BackupInit /\ [][BackupNext]_backup_vars

-----------------------------------------------------------------------------
\* A backup during which nothing was written is the database as it was, and
\* some listing verifies it; every buffer of a copy is one the file had at
\* that place while the backup ran.
CopiedSafe ==
    /\ phase = "done" /\ ~damaged => /\ \E order \in Listings : Verify(order)
                                     /\ \A m \in moments : Cardinality(moments) = 1 => dest = m
    /\ ~damaged => \A f \in DOMAIN dest : \A i \in DOMAIN dest[f] : \E m \in moments : i \in DOMAIN m[f] /\ m[f][i] = dest[f][i]

\* What is under way or failed half way verifies only where the directory is,
\* buffer for buffer, what the last backup to succeed had left there: its
\* metadata may still be there, but files of two backups are never taken for
\* one.
FailedFound == phase \in {"copying", "failed"} =>
                 \A order \in Listings : Verify(order) => Directory = complete

\* A buffer changed or lost after the backup is found, however the directories
\* are listed.
DamageFound == damaged => \A order \in Listings : ~Verify(order)

BackupSafe == CopiedSafe /\ FailedFound /\ DamageFound
=============================================================================
