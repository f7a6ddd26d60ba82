----------------------------- MODULE ChunkStore -----------------------------
(***************************************************************************)
(* crates/storage: the durable chunk store.  A store is a PAIR of files, a *)
(* SQLite database of chunk metadata and a memory-mapped matrix with one   *)
(* embedding per row; row r of the matrix is the vector of the record with *)
(* rowid r.  Nothing ties the two files together except the order in which *)
(* they are written: insert_batch appends matrix rows first and commits    *)
(* the metadata afterwards, compact builds a second pair and switches to   *)
(* it by renaming a manifest, and open repairs what a kill left behind.    *)
(*                                                                         *)
(* A generation names a pair.  DefaultGen is chunks.db / embeddings.f16,   *)
(* the pair used while there is no manifest.  A crash is a process kill:   *)
(* writes to the mapped matrix and committed SQLite transactions survive   *)
(* it in program order, an open transaction does not.                      *)
(***************************************************************************)
EXTENDS Integers, Sequences

CONSTANTS
    Hashes,        \* content hashes; a vector is named by the content it embeds
    Files,         \* repository-relative paths
    Commits,       \* commit identifiers recorded by set_indexed_commit
    NoCommit,      \* no indexed_commit row in the meta table
    NoRec,         \* no metadata row with this rowid
    ZeroVec,       \* a matrix row that was never written
    Generations,   \* names of store pairs
    DefaultGen,    \* the pair of a store that has no manifest
    Batches,       \* the batches a caller may insert
    MaxRows,       \* bound on the rows of one matrix
    Faults,        \* the failures the environment may produce
    KeepHandle     \* does a caller go on with its store handle after an error?

FaultKinds == {"kill", "kill_in_create", "append", "commit", "rollback", "compact", "reopen",
               "remove"}

RowIds == 0 .. (MaxRows - 1)

Input == [hash : Hashes, file : Files]

Records == [hash : Hashes, file : Files, live : BOOLEAN]

ASSUME ConstantsAssumption ==
    /\ MaxRows \in Nat
    /\ DefaultGen \in Generations
    /\ NoRec \notin Records
    /\ ZeroVec \notin Hashes
    /\ NoCommit \notin Commits
    /\ \A b \in Batches : b \in Seq(Input) /\ b # << >>
    /\ Faults \subseteq FaultKinds
    /\ KeepHandle \in BOOLEAN

VARIABLES
    matrixFiles,   \* generations whose matrix file exists
    dbState,       \* "absent", "unversioned" or "ready", per generation
    rows,          \* header.rows of each matrix file
    data,          \* the vectors in each matrix file
    chunks,        \* the chunks table of each database
    indexed,       \* indexed_commit in the meta table of each database
    manifest,      \* the generation the manifest (or its absence) selects
    pc,            \* where the process is
    cur,           \* the generation the open handle has mapped
    target,        \* the generation being built by compact
    batch,         \* insert_batch: its argument
    result,        \* insert_batch: the rows resolved so far
    pending,       \* insert_batch: new_rows, the records not yet committed
    before,        \* insert_batch: rows_before
    oldDb,         \* compact: old_db_path, the generation whose database is retired
    mapping        \* compact: row_mapping, as a function from new rows to old ones

diskVars == <<matrixFiles, dbState, rows, data, chunks, indexed, manifest>>

insertVars == <<batch, result, pending, before>>

compactVars == <<target, oldDb, mapping>>

vars == <<diskVars, pc, cur, insertVars, compactVars>>

-----------------------------------------------------------------------------
\* Queries on one generation.

\* rowids with metadata, live or dead
MetaRows(g) == { r \in RowIds : chunks[g][r] # NoRec }

LiveRows(g) == { r \in RowIds : chunks[g][r] # NoRec /\ chunks[g][r].live }

\* Slip: the lookup forgets `live = 1`.
RowsOfHashAnyState(g, h) == { r \in MetaRows(g) : chunks[g][r].hash = h }

\* get_by_hash: the live rows carrying a content hash
RowsOfHash(g, h) == { r \in LiveRows(g) : chunks[g][r].hash = h }

\* MAX(rowid) + 1, 0 for an empty table
ExpectedRows(g) ==
    IF MetaRows(g) = {}
    THEN 0
    ELSE 1 + (CHOOSE m \in MetaRows(g) : \A r \in MetaRows(g) : r <= m)

\* COUNT(*) = MAX(rowid) + 1 and every id below is present
DensePrefix(g) == MetaRows(g) = 0 .. (ExpectedRows(g) - 1)

\* reclaim_trailing_orphans: the header row count after it ran
ReclaimedRows(g) ==
    IF DensePrefix(g) /\ rows[g] > ExpectedRows(g) THEN ExpectedRows(g) ELSE rows[g]

OrphanRows(g, n) == { r \in RowIds : r < n /\ r \notin MetaRows(g) }

MissingRows(g, n) == { r \in MetaRows(g) : r >= n }

DuplicateRows(g) ==
    { r \in LiveRows(g) : \E q \in LiveRows(g) : q # r /\ chunks[g][q].hash = chunks[g][r].hash }

\* verify with n matrix rows: Integrity::Ok
VerifyOk(g, n) ==
    /\ OrphanRows(g, n) = {}
    /\ MissingRows(g, n) = {}
    /\ DuplicateRows(g) = {}

EmptyTable == [r \in RowIds |-> NoRec]

EmptyMatrix == [r \in RowIds |-> ZeroVec]

-----------------------------------------------------------------------------
Init ==
    /\ matrixFiles = {}
    /\ dbState = [g \in Generations |-> "absent"]
    /\ rows = [g \in Generations |-> 0]
    /\ data = [g \in Generations |-> EmptyMatrix]
    /\ chunks = [g \in Generations |-> EmptyTable]
    /\ indexed = [g \in Generations |-> NoCommit]
    /\ manifest = DefaultGen
    /\ pc = "closed"
    /\ cur = DefaultGen
    /\ target = DefaultGen
    /\ oldDb = DefaultGen
    /\ batch = << >>
    /\ result = << >>
    /\ pending = EmptyTable
    /\ before = 0
    /\ mapping = << >>

-----------------------------------------------------------------------------
\* create: the matrix file, then the database, its schema, its version row.
\* create itself refuses a directory that has either file; that there is no manifest
\* is checked by its caller, Resident::load.

CreateMatrix ==
    /\ pc = "closed"
    /\ manifest = DefaultGen
    /\ DefaultGen \notin matrixFiles
    /\ dbState[DefaultGen] = "absent"
    /\ matrixFiles' = matrixFiles \cup {DefaultGen}
    /\ cur' = DefaultGen
    /\ pc' = "create_db"
    /\ UNCHANGED <<dbState, rows, data, chunks, indexed, manifest, insertVars, compactVars>>

CreateDb ==
    /\ pc = "create_db"
    /\ dbState' = [dbState EXCEPT ![DefaultGen] = "unversioned"]
    /\ pc' = "create_version"
    /\ UNCHANGED <<matrixFiles, rows, data, chunks, indexed, manifest, cur, insertVars, compactVars>>

CreateVersion ==
    /\ pc = "create_version"
    /\ dbState' = [dbState EXCEPT ![DefaultGen] = "ready"]
    /\ pc' = "idle"
    /\ UNCHANGED <<matrixFiles, rows, data, chunks, indexed, manifest, cur, insertVars, compactVars>>

\* open: follow the manifest, check the version row, reclaim, verify.  An open
\* that fails any check returns an error and changes nothing further.
Openable ==
    /\ dbState[manifest] = "ready"
    /\ manifest \in matrixFiles
    /\ VerifyOk(manifest, ReclaimedRows(manifest))

Open ==
    /\ pc = "closed"
    /\ Openable
    /\ rows' = [rows EXCEPT ![manifest] = ReclaimedRows(manifest)]
    /\ cur' = manifest
    /\ pc' = "idle"
    /\ UNCHANGED <<matrixFiles, dbState, data, chunks, indexed, manifest, insertVars, compactVars>>

\* the handle is dropped between two calls
Close ==
    /\ pc = "idle"
    /\ pc' = "closed"
    /\ UNCHANGED <<diskVars, cur, insertVars, compactVars>>

-----------------------------------------------------------------------------
\* insert_batch

ClearInsert ==
    /\ batch' = << >>
    /\ result' = << >>
    /\ pending' = EmptyTable
    /\ before' = 0

InsertBegin(b) ==
    /\ pc = "idle"
    /\ rows[cur] + Len(b) <= MaxRows
    /\ batch' = b
    /\ before' = rows[cur]
    /\ pc' = "append"
    /\ UNCHANGED <<diskVars, cur, result, pending, compactVars>>

\* the chunk the loop is at
Item == batch[Len(result) + 1]

Resolved == Len(result) = Len(batch)

\* Slip: content repeated inside the batch is not recognised.
KnownRowsInStore == RowsOfHash(cur, Item.hash)

\* batch_hash_to_row and get_by_hash, together: the rows that already stand for
\* the content of the current chunk
KnownRows ==
    { r \in RowIds : pending[r] # NoRec /\ pending[r].hash = Item.hash }
        \cup RowsOfHash(cur, Item.hash)

ReuseRow ==
    /\ pc = "append"
    /\ ~Resolved
    /\ \E r \in KnownRows : result' = Append(result, r)
    /\ UNCHANGED <<diskVars, pc, cur, batch, pending, before, compactVars>>

\* Slip: metadata is inserted row by row, outside a transaction.
AppendRowAutocommit ==
    /\ pc = "append"
    /\ ~Resolved
    /\ KnownRows = {}
    /\ LET r == rows[cur]
           rec == [hash |-> Item.hash, file |-> Item.file, live |-> TRUE]
       IN /\ r < MaxRows
          /\ data' = [data EXCEPT ![cur][r] = Item.hash]
          /\ rows' = [rows EXCEPT ![cur] = r + 1]
          /\ chunks' = [chunks EXCEPT ![cur][r] = rec]
          /\ pending' = [pending EXCEPT ![r] = rec]
          /\ result' = Append(result, r)
    /\ UNCHANGED <<matrixFiles, dbState, indexed, manifest, pc, cur, batch, before, compactVars>>

AppendRow ==
    /\ pc = "append"
    /\ ~Resolved
    /\ KnownRows = {}
    /\ LET r == rows[cur] IN
         /\ r < MaxRows
         /\ data' = [data EXCEPT ![cur][r] = Item.hash]
         /\ rows' = [rows EXCEPT ![cur] = r + 1]
         /\ pending' = [pending EXCEPT ![r] = [hash |-> Item.hash, file |-> Item.file, live |-> TRUE]]
         /\ result' = Append(result, r)
    /\ UNCHANGED <<matrixFiles, dbState, chunks, indexed, manifest, pc, cur, batch, before, compactVars>>

\* get_by_hash, append or flush fails: `?` leaves insert_batch at once
AppendError ==
    /\ "append" \in Faults
    /\ pc = "append"
    /\ pc' = IF KeepHandle THEN "idle" ELSE "closed"
    /\ ClearInsert
    /\ UNCHANGED <<diskVars, cur, compactVars>>

CommitBatch ==
    /\ pc = "append"
    /\ Resolved
    /\ chunks' = [chunks EXCEPT ![cur] =
                    [r \in RowIds |-> IF pending[r] # NoRec THEN pending[r] ELSE chunks[cur][r]]]
    /\ pc' = "idle"
    /\ ClearInsert
    /\ UNCHANGED <<matrixFiles, dbState, rows, data, indexed, manifest, cur, compactVars>>

\* the transaction fails; nothing of it is stored
CommitError ==
    /\ "commit" \in Faults
    /\ pc = "append"
    /\ Resolved
    /\ pc' = "rollback"
    /\ UNCHANGED <<diskVars, cur, insertVars, compactVars>>

\* the header is rewritten with rows_before and the error is returned
Rollback ==
    /\ pc = "rollback"
    /\ rows' = [rows EXCEPT ![cur] = before]
    /\ pc' = "idle"
    /\ ClearInsert
    /\ UNCHANGED <<matrixFiles, dbState, data, chunks, indexed, manifest, cur, compactVars>>

RollbackError ==
    /\ "rollback" \in Faults
    /\ pc = "rollback"
    /\ pc' = IF KeepHandle THEN "idle" ELSE "closed"
    /\ ClearInsert
    /\ UNCHANGED <<diskVars, cur, compactVars>>

-----------------------------------------------------------------------------
\* One-transaction operations on the metadata.

\* Slip: rows are deleted instead of marked dead.
TombstoneDeletes(gone) ==
    /\ pc = "idle"
    /\ chunks' = [chunks EXCEPT ![cur] =
                    [r \in RowIds |-> IF r \in gone \cap LiveRows(cur) THEN NoRec ELSE chunks[cur][r]]]
    /\ UNCHANGED <<matrixFiles, dbState, rows, data, indexed, manifest, pc, cur, insertVars, compactVars>>

Tombstone(gone) ==
    /\ pc = "idle"
    /\ chunks' = [chunks EXCEPT ![cur] =
                    [r \in RowIds |-> IF r \in gone \cap LiveRows(cur)
                                      THEN [chunks[cur][r] EXCEPT !.live = FALSE]
                                      ELSE chunks[cur][r]]]
    /\ UNCHANGED <<matrixFiles, dbState, rows, data, indexed, manifest, pc, cur, insertVars, compactVars>>

RekeyFile(from, to) ==
    /\ pc = "idle"
    /\ chunks' = [chunks EXCEPT ![cur] =
                    [r \in RowIds |-> IF r \in LiveRows(cur) /\ chunks[cur][r].file = from
                                      THEN [chunks[cur][r] EXCEPT !.file = to]
                                      ELSE chunks[cur][r]]]
    /\ UNCHANGED <<matrixFiles, dbState, rows, data, indexed, manifest, pc, cur, insertVars, compactVars>>

SetIndexedCommit(c) ==
    /\ pc = "idle"
    /\ indexed' = [indexed EXCEPT ![cur] = c]
    /\ UNCHANGED <<matrixFiles, dbState, rows, data, chunks, manifest, pc, cur, insertVars, compactVars>>

-----------------------------------------------------------------------------
\* compact

ClearCompact ==
    /\ target' = DefaultGen
    /\ oldDb' = DefaultGen
    /\ mapping' = << >>

\* Slip: the manifest is published before the pair is built.
CompactBeginPublishes(g) ==
    /\ pc = "idle"
    /\ g # DefaultGen
    /\ g \notin matrixFiles
    /\ dbState[g] = "absent"
    /\ matrixFiles' = matrixFiles \cup {g}
    /\ dbState' = [dbState EXCEPT ![g] = "unversioned"]
    /\ manifest' = g
    /\ target' = g
    /\ pc' = "copy"
    /\ UNCHANGED <<rows, data, chunks, indexed, cur, insertVars, oldDb, mapping>>

\* The new generation's files are created under a fresh name.
CompactBegin(g) ==
    /\ pc = "idle"
    /\ g # DefaultGen
    /\ g \notin matrixFiles
    /\ dbState[g] = "absent"
    /\ matrixFiles' = matrixFiles \cup {g}
    /\ dbState' = [dbState EXCEPT ![g] = "unversioned"]
    /\ rows' = [rows EXCEPT ![g] = 0]
    /\ data' = [data EXCEPT ![g] = EmptyMatrix]
    /\ chunks' = [chunks EXCEPT ![g] = EmptyTable]
    /\ indexed' = [indexed EXCEPT ![g] = NoCommit]
    /\ target' = g
    /\ pc' = "copy"
    /\ UNCHANGED <<manifest, cur, insertVars, oldDb, mapping>>

\* live_rows: the live rows of g in ascending order, indexed from 0
LiveRowsInOrder(g) ==
    { m \in UNION { [0 .. (n - 1) -> LiveRows(g)] : n \in 0 .. MaxRows } :
        /\ \A i, j \in DOMAIN m : i < j => m[i] < m[j]
        /\ \A r \in LiveRows(g) : \E i \in DOMAIN m : m[i] = r }

\* Slip: the vector is read at the new row number instead of the old one.
CompactCopyVectorsInPlace ==
    /\ pc = "copy"
    /\ \E m \in LiveRowsInOrder(cur) :
         /\ mapping' = m
         /\ chunks' = [chunks EXCEPT ![target] =
                         [r \in RowIds |-> IF r \in DOMAIN m THEN chunks[cur][m[r]] ELSE NoRec]]
         /\ data' = [data EXCEPT ![target] = data[cur]]
         /\ \E n \in 0 .. MaxRows :
              /\ DOMAIN m = 0 .. (n - 1)
              /\ rows' = [rows EXCEPT ![target] = n]
    /\ indexed' = [indexed EXCEPT ![target] = indexed[cur]]
    /\ dbState' = [dbState EXCEPT ![target] = "ready"]
    /\ pc' = "publish"
    /\ UNCHANGED <<matrixFiles, manifest, cur, insertVars, target, oldDb>>

\* Slip: the recorded commit is not carried into the new database.
CompactCopyDropsCommit ==
    /\ pc = "copy"
    /\ \E m \in LiveRowsInOrder(cur) :
         /\ mapping' = m
         /\ chunks' = [chunks EXCEPT ![target] =
                         [r \in RowIds |-> IF r \in DOMAIN m THEN chunks[cur][m[r]] ELSE NoRec]]
         /\ data' = [data EXCEPT ![target] =
                         [r \in RowIds |-> IF r \in DOMAIN m THEN data[cur][m[r]] ELSE ZeroVec]]
         /\ \E n \in 0 .. MaxRows :
              /\ DOMAIN m = 0 .. (n - 1)
              /\ rows' = [rows EXCEPT ![target] = n]
    /\ dbState' = [dbState EXCEPT ![target] = "ready"]
    /\ pc' = "publish"
    /\ UNCHANGED <<matrixFiles, indexed, manifest, cur, insertVars, target, oldDb>>

\* Every live record and its vector is copied, in row order, the commit is copied,
\* and the new database's transaction is committed.
CompactCopy ==
    /\ pc = "copy"
    /\ \E m \in LiveRowsInOrder(cur) :
         /\ mapping' = m
         /\ chunks' = [chunks EXCEPT ![target] =
                         [r \in RowIds |-> IF r \in DOMAIN m THEN chunks[cur][m[r]] ELSE NoRec]]
         /\ data' = [data EXCEPT ![target] =
                         [r \in RowIds |-> IF r \in DOMAIN m THEN data[cur][m[r]] ELSE ZeroVec]]
         /\ \E n \in 0 .. MaxRows :
              /\ DOMAIN m = 0 .. (n - 1)
              /\ rows' = [rows EXCEPT ![target] = n]
    /\ indexed' = [indexed EXCEPT ![target] = indexed[cur]]
    /\ dbState' = [dbState EXCEPT ![target] = "ready"]
    /\ pc' = "publish"
    /\ UNCHANGED <<matrixFiles, manifest, cur, insertVars, target, oldDb>>

\* Building or publishing fails: the half-built files stay, the handle does too.
CompactError ==
    /\ "compact" \in Faults
    /\ pc \in {"copy", "publish"}
    /\ pc' = "idle"
    /\ ClearCompact
    /\ UNCHANGED <<diskVars, cur, insertVars>>

\* old_db_path is read from the manifest still in place, then publish_manifest
\* renames: both halves of the new pair are selected at once.
PublishManifest ==
    /\ pc = "publish"
    /\ oldDb' = manifest
    /\ manifest' = target
    /\ pc' = "reopen"
    /\ UNCHANGED <<matrixFiles, dbState, rows, data, chunks, indexed, cur, insertVars, target, mapping>>

\* Slip: the handle is not switched to the new pair.
ReopenPairKeepsOld ==
    /\ pc = "reopen"
    /\ pc' = "cleanup"
    /\ UNCHANGED <<diskVars, cur, target, insertVars, oldDb, mapping>>

\* The new pair is opened and replaces the handle's; target keeps the old
\* generation for the cleanup.
ReopenPair ==
    /\ pc = "reopen"
    /\ cur' = target
    /\ target' = cur
    /\ pc' = "cleanup"
    /\ UNCHANGED <<diskVars, insertVars, oldDb, mapping>>

ReopenError ==
    /\ "reopen" \in Faults
    /\ pc = "reopen"
    /\ pc' = IF KeepHandle THEN "idle" ELSE "closed"
    /\ ClearCompact
    /\ UNCHANGED <<diskVars, cur, insertVars>>

\* The retired matrix and database are removed, each if the file system lets it
\* be, and compact returns its row mapping.
RemoveMatrix(g) ==
    /\ matrixFiles' = matrixFiles \ {g}
    /\ rows' = [rows EXCEPT ![g] = 0]
    /\ data' = [data EXCEPT ![g] = EmptyMatrix]

RemoveDb(g) ==
    /\ dbState' = [dbState EXCEPT ![g] = "absent"]
    /\ chunks' = [chunks EXCEPT ![g] = EmptyTable]
    /\ indexed' = [indexed EXCEPT ![g] = NoCommit]

RemoveOldPair ==
    /\ pc = "cleanup"
    /\ \/ RemoveMatrix(target)
       \/ "remove" \in Faults /\ UNCHANGED <<matrixFiles, rows, data>>
    /\ \/ RemoveDb(oldDb)
       \/ "remove" \in Faults /\ UNCHANGED <<dbState, chunks, indexed>>
    /\ pc' = "idle"
    /\ ClearCompact
    /\ UNCHANGED <<manifest, cur, insertVars>>

-----------------------------------------------------------------------------
\* The process is killed.
Kill ==
    /\ "kill" \in Faults
    /\ pc # "closed"
    /\ pc \in {"create_db", "create_version"} => "kill_in_create" \in Faults
    /\ pc' = "closed"
    /\ ClearInsert
    /\ ClearCompact
    /\ UNCHANGED <<diskVars, cur>>

Next ==
    \/ CreateMatrix \/ CreateDb \/ CreateVersion
    \/ Open \/ Close
    \/ \E b \in Batches : InsertBegin(b)
    \/ ReuseRow \/ AppendRow \/ AppendError
    \/ CommitBatch \/ CommitError \/ Rollback \/ RollbackError
    \/ \E gone \in SUBSET RowIds : Tombstone(gone)
    \/ \E from, to \in Files : RekeyFile(from, to)
    \/ \E c \in Commits : SetIndexedCommit(c)
    \/ \E g \in Generations : CompactBegin(g)
    \/ CompactCopy \/ CompactError
    \/ PublishManifest \/ ReopenPair \/ ReopenError \/ RemoveOldPair
    \/ Kill

Spec == Init /\ [][Next]_vars

-----------------------------------------------------------------------------
(***************************************************************************)
(* Properties.                                                             *)
(***************************************************************************)

DiskType ==
    /\ matrixFiles \subseteq Generations
    /\ dbState \in [Generations -> {"absent", "unversioned", "ready"}]
    /\ rows \in [Generations -> 0 .. MaxRows]
    /\ data \in [Generations -> [RowIds -> Hashes \cup {ZeroVec}]]
    /\ chunks \in [Generations -> [RowIds -> Records \cup {NoRec}]]
    /\ indexed \in [Generations -> Commits \cup {NoCommit}]
    /\ manifest \in Generations

HandleType ==
    /\ pc \in {"closed", "create_db", "create_version", "idle", "append", "rollback",
               "copy", "publish", "reopen", "cleanup"}
    /\ cur \in Generations

InsertType ==
    /\ batch \in Batches \cup {<< >>}
    /\ result \in Seq(RowIds)
    /\ Len(result) <= Len(batch)
    /\ pending \in [RowIds -> Records \cup {NoRec}]
    /\ before \in 0 .. MaxRows

CompactType ==
    /\ target \in Generations
    /\ oldDb \in Generations
    /\ \E n \in 0 .. MaxRows : mapping \in [0 .. (n - 1) -> RowIds]

\* Every variable holds a value of its type; in particular row numbers stay inside
\* the matrix, insert_batch never resolves more rows than it was given, and the
\* row mapping of compact names rows of the matrix.
TypeOK == DiskType /\ HandleType /\ InsertType /\ CompactType

\* The two files agree: in the published pair the vector at row r is the vector of
\* the content the metadata puts at row r, whatever was interrupted, rolled back,
\* reclaimed or compacted before (insert_batch, reclaim_trailing_orphans, compact).
VectorsMatchRecords ==
    \A r \in MetaRows(manifest) :
        r < rows[manifest] /\ data[manifest][r] = chunks[manifest][r].hash

\* A content hash is live in at most one row, across batches with repeated content,
\* re-insertion of tombstoned content and compaction (insert_batch, chunks_live_hash).
OneLiveRowPerHash == DuplicateRows(manifest) = {}

\* Whatever moment the process was killed at, and whatever failed before, a store
\* that was once created opens again: open finds a published pair, reclaims what an
\* interrupted batch left and verify accepts the rest.
OpenNeverRefused ==
    (pc = "closed" /\ (manifest \in matrixFiles \/ dbState[manifest] # "absent")) => Openable

\* Between two calls an open store verifies, and its handle is on the pair a
\* restart would open: no accepted write goes to a pair that open will not read.
IdleHandleIsSound ==
    pc = "idle" => cur = manifest /\ VerifyOk(cur, rows[cur])

\* While compact still holds both pairs, its row mapping is a bijection of the live
\* rows onto the new pair's rows that carries record and vector along.
CompactionMapsRows ==
    pc \in {"reopen", "cleanup"} =>
        LET old == IF pc = "reopen" THEN cur ELSE target
            new == IF pc = "reopen" THEN target ELSE cur
        IN  /\ DOMAIN mapping = MetaRows(new)
            /\ { mapping[i] : i \in DOMAIN mapping } = LiveRows(old)
            /\ \A i, j \in DOMAIN mapping : i # j => mapping[i] # mapping[j]
            /\ \A i \in DOMAIN mapping :
                 /\ chunks[new][i] = chunks[old][mapping[i]]
                 /\ data[new][i] = data[old][mapping[i]]

\* While the same pair stays published, a row keeps its content and its vector, a
\* tombstoned row stays dead, and no metadata row disappears: row numbers handed
\* out by insert_batch stay good until a compaction.
RowsNeverMove ==
    [][manifest' = manifest =>
         \A r \in MetaRows(manifest) :
            /\ chunks'[manifest][r] # NoRec
            /\ chunks'[manifest][r].hash = chunks[manifest][r].hash
            /\ chunks'[manifest][r].live => chunks[manifest][r].live
            /\ data'[manifest][r] = data[manifest][r]]_vars

\* When insert_batch commits, the row it returns for each input is live and carries
\* that input's content, also for inputs repeated in the batch or stored before,
\* and for a batch that stores nothing new.
InsertReturnsRows ==
    [][(pc = "append" /\ Resolved /\ pc' = "idle") =>
         \A i \in DOMAIN batch :
            /\ result[i] \in LiveRows(cur)'
            /\ chunks'[cur][result[i]].hash = batch[i].hash]_vars

-----------------------------------------------------------------------------
(***************************************************************************)
(* The inductive invariant behind the safety properties, for callers that  *)
(* give up their handle after an error (KeepHandle = FALSE).               *)
(***************************************************************************)

Inserting == pc \in {"append", "rollback"}

Creating == pc \in {"create_db", "create_version"}

\* the metadata of g is exactly the rows below n
Prefix(g, n) == \A r \in RowIds : chunks[g][r] # NoRec <=> r < n

Matching(g) == \A r \in RowIds : chunks[g][r] # NoRec => data[g][r] = chunks[g][r].hash

Unique(g) ==
    \A r, q \in RowIds :
        (/\ chunks[g][r] # NoRec /\ chunks[g][r].live
         /\ chunks[g][q] # NoRec /\ chunks[g][q].live
         /\ chunks[g][r].hash = chunks[g][q].hash) => r = q

\* which pair the handle and the compaction in progress are on
HandlePart ==
    /\ pc \notin {"closed", "reopen"} => cur = manifest
    /\ Creating => manifest = DefaultGen /\ manifest \in matrixFiles /\ dbState[manifest] # "ready"
    /\ pc \in {"copy", "publish"} => target # manifest /\ target \in matrixFiles
    /\ pc = "reopen" => target = manifest /\ cur # manifest /\ oldDb = cur
    /\ pc = "cleanup" => target # manifest /\ oldDb = target

\* the published pair is complete, or nothing was ever stored in it
FilesPart ==
    /\ (pc # "closed" /\ ~Creating) => dbState[manifest] = "ready" /\ manifest \in matrixFiles
    /\ dbState[manifest] # "ready" => Prefix(manifest, 0) /\ rows[manifest] = 0
    /\ dbState[manifest] = "ready" => manifest \in matrixFiles
    /\ (pc = "closed" /\ "kill_in_create" \notin Faults) =>
          \/ dbState[manifest] = "ready"
          \/ dbState[manifest] = "absent" /\ manifest \notin matrixFiles

\* how far the metadata of the published pair reaches into its matrix
RowsPart ==
    /\ pc = "closed" => \E n \in 0 .. MaxRows : n <= rows[manifest] /\ Prefix(manifest, n)
    /\ Inserting => before <= rows[manifest] /\ Prefix(manifest, before)
    /\ (pc # "closed" /\ ~Inserting) => Prefix(manifest, rows[manifest])

\* the batch in progress owns exactly the rows past the metadata
PendingPart ==
    /\ ~Inserting => batch = << >> /\ result = << >> /\ pending = EmptyTable
    /\ Inserting =>
         /\ batch # << >>
         /\ \A r \in RowIds : pending[r] # NoRec <=> (before <= r /\ r < rows[manifest])
         /\ \A r \in RowIds : pending[r] # NoRec =>
              /\ pending[r].live
              /\ data[manifest][r] = pending[r].hash
              /\ \A q \in RowIds : (pending[q] # NoRec /\ pending[q].hash = pending[r].hash) => q = r
              /\ \A q \in RowIds : (chunks[manifest][q] # NoRec /\ chunks[manifest][q].live)
                                    => chunks[manifest][q].hash # pending[r].hash

\* the pair about to be published is complete and sound on its own
TargetPart ==
    pc = "publish" =>
        /\ dbState[target] = "ready"
        /\ Prefix(target, rows[target])
        /\ Matching(target)
        /\ Unique(target)

Consistent ==
    /\ HandlePart
    /\ FilesPart
    /\ RowsPart
    /\ Matching(manifest)
    /\ Unique(manifest)
    /\ PendingPart
    /\ TargetPart

\* What the published pair needs to stay sound, on its own inductive.
PairInv == TypeOK /\ Consistent

\* insert_batch so far: each input has a row that carries its content, in the
\* store or in the batch, and each queued record is that of the first input with
\* its content.
ResultPart ==
    Inserting =>
        /\ \A i \in DOMAIN result :
             \/ /\ pending[result[i]] # NoRec
                /\ pending[result[i]].hash = batch[i].hash
             \/ result[i] \in RowsOfHash(manifest, batch[i].hash)
        /\ \A r \in RowIds : pending[r] # NoRec =>
             \E k \in DOMAIN result :
                /\ pending[r] = [hash |-> batch[k].hash, file |-> batch[k].file, live |-> TRUE]
                /\ \A j \in 1 .. (k - 1) : batch[j].hash # batch[k].hash

\* the new pair holds the live rows of the old one, through the row mapping, and
\* its commit
Copied(old, new) ==
    /\ DOMAIN mapping = MetaRows(new)
    /\ { mapping[i] : i \in DOMAIN mapping } = LiveRows(old)
    /\ \A i, j \in DOMAIN mapping : i # j => mapping[i] # mapping[j]
    /\ \A i \in DOMAIN mapping :
         /\ chunks[new][i] = chunks[old][mapping[i]]
         /\ data[new][i] = data[old][mapping[i]]
    /\ indexed[new] = indexed[old]

CopyPart ==
    /\ pc \in {"publish", "reopen"} => Copied(cur, target)
    /\ pc = "cleanup" => Copied(target, cur)

\* The strengthening of the safety properties that every step of the store keeps:
\* it relates how far the metadata reaches, the rows of the batch in progress, what
\* they will answer to the caller, and the pair compact is building and switching
\* to (insert_batch, compact, open).
StoreInv == PairInv /\ ResultPart /\ CopyPart

-----------------------------------------------------------------------------
\* The store implements the abstract set of live chunks: batches land entirely or
\* not at all, crash recovery loses at most the batch in progress, and compaction
\* changes nothing a client can see (insert_batch, open, compact).
Abstract ==
    INSTANCE ChunkSet WITH
        live <- { [hash |-> chunks[manifest][r].hash,
                   file |-> chunks[manifest][r].file,
                   vec  |-> data[manifest][r]] : r \in LiveRows(manifest) },
        commit <- indexed[manifest],
        req <- batch

ImplementsChunkSet == Abstract!Spec
=============================================================================
