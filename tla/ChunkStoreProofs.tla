-------------------------- MODULE ChunkStoreProofs --------------------------
(***************************************************************************)
(* Proofs about ChunkStore, for callers that drop a handle that returned   *)
(* an error and for any number of rows, hashes, files and generations.     *)
(*                                                                         *)
(* The first half: PairInv is inductive, the published pair is sound.  The *)
(* second half: ChunkStore implements ChunkSet, and what its callers are   *)
(* promised step by step: row numbers that stay good, the rows an insert   *)
(* returns and the row mapping of a compaction.  There StoreInv adds what  *)
(* a batch in progress has resolved (ResultPart), which decides what lands *)
(* when it commits, and what the pair under construction was copied from   *)
(* (CopyPart), which makes the switch of the manifest invisible.  Each     *)
(* step then maps to one step of ChunkSet or to none.                      *)
(***************************************************************************)
EXTENDS ChunkStore, TLAPS

USE ConstantsAssumption DEF diskVars, insertVars, compactVars

-----------------------------------------------------------------------------
\* What the small building blocks of the actions preserve.

\* The state insert_batch leaves behind when it returns is well typed.
LEMMA ClearInsertType ==
    ASSUME ClearInsert PROVE InsertType'
<1>1. << >> \in Seq(RowIds) /\ Len(<< >>) = 0
  OBVIOUS
<1>2. EmptyTable \in [RowIds -> Records \cup {NoRec}]
  BY DEF EmptyTable
<1> QED
  BY <1>1, <1>2 DEF ClearInsert, InsertType

\* The state compact leaves behind when it returns is well typed.
LEMMA ClearCompactType ==
    ASSUME ClearCompact PROVE CompactType'
<1>1. << >> \in [0 .. (0 - 1) -> RowIds]
  BY SMT
<1>2. 0 \in 0 .. MaxRows
  OBVIOUS
<1>3. \E n \in 0 .. MaxRows : << >> \in [0 .. (n - 1) -> RowIds]
  BY <1>1, <1>2, Zenon
<1> QED
  BY <1>3, Zenon DEF ClearCompact, CompactType

\* At every moment the metadata of the published pair is a prefix of its matrix:
\* this is what a kill leaves for open to find.
LEMMA SomePrefix ==
    ASSUME PairInv
    PROVE  \E n \in 0 .. MaxRows : n <= rows[manifest] /\ Prefix(manifest, n)
<1>1. rows[manifest] \in 0 .. MaxRows /\ rows[manifest] <= rows[manifest]
  BY DEF PairInv, TypeOK, DiskType
<1>2. before \in 0 .. MaxRows
  BY DEF PairInv, TypeOK, InsertType
<1> QED
  BY <1>1, <1>2 DEF PairInv, Consistent, RowsPart

\* reclaim_trailing_orphans cuts the matrix to exactly the rows that have metadata.
LEMMA ReclaimCutsToMetadata ==
    ASSUME DiskType, NEW n \in 0 .. MaxRows, n <= rows[manifest], Prefix(manifest, n)
    PROVE  ReclaimedRows(manifest) = n
<1>1. MetaRows(manifest) = 0 .. (n - 1)
  BY DEF MetaRows, Prefix, RowIds
<1>2. ExpectedRows(manifest) = n
  <2>1. CASE n = 0
    BY <1>1, <2>1 DEF ExpectedRows
  <2>2. CASE n > 0
    <3>1. n - 1 \in MetaRows(manifest) /\ \A r \in MetaRows(manifest) : r <= n - 1
      BY <1>1, <2>2
    <3>2. \A m \in MetaRows(manifest) : (\A r \in MetaRows(manifest) : r <= m) => m = n - 1
      <4> SUFFICES ASSUME NEW m \in MetaRows(manifest), \A r \in MetaRows(manifest) : r <= m
                   PROVE  m = n - 1
        OBVIOUS
      <4>1. n - 1 <= m /\ m <= n - 1 /\ m \in Int
        BY <1>1, <3>1
      <4> QED
        BY <4>1
    <3>3. (CHOOSE m \in MetaRows(manifest) : \A r \in MetaRows(manifest) : r <= m) = n - 1
      BY <3>1, <3>2
    <3>4. MetaRows(manifest) # {} /\ 1 + (n - 1) = n
      BY <3>1
    <3> QED
      BY <3>3, <3>4, Zenon DEF ExpectedRows
  <2> QED
    BY <2>1, <2>2
<1>3. DensePrefix(manifest)
  BY <1>1, <1>2 DEF DensePrefix
<1> QED
  BY <1>2, <1>3 DEF ReclaimedRows, DiskType

\* verify accepts a pair whose metadata is exactly its matrix rows and whose live
\* hashes are distinct.
LEMMA SoundPairVerifies ==
    ASSUME NEW g, NEW n \in 0 .. MaxRows, Prefix(g, n), Unique(g)
    PROVE  VerifyOk(g, n)
BY DEF VerifyOk, OrphanRows, MissingRows, DuplicateRows, MetaRows, LiveRows, Prefix, Unique, RowIds

-----------------------------------------------------------------------------
\* One lemma per action: the step keeps PairInv.

\* create writes the matrix file first.
LEMMA CreateMatrixStep ==
    ASSUME PairInv, CreateMatrix, KeepHandle = FALSE
    PROVE  PairInv'
<1>1. DiskType' /\ HandleType'
  BY DEF PairInv, TypeOK, DiskType, HandleType, CreateMatrix
<1>2. InsertType'
  BY ClearInsertType DEF PairInv, TypeOK, InsertType, CreateMatrix
<1>3. CompactType'
  BY ClearCompactType DEF PairInv, TypeOK, CompactType, CreateMatrix
<1>4. Consistent'
  BY <1>1, <1>2 DEF PairInv, TypeOK, DiskType, HandleType, InsertType, CompactType, CreateMatrix, ClearInsert, ClearCompact, EmptyTable, Consistent, HandlePart, FilesPart, RowsPart, PendingPart, TargetPart, Prefix, Matching, Unique, Inserting, Creating
<1> QED
  BY <1>1, <1>2, <1>3, <1>4 DEF PairInv, TypeOK

\* create opens the database and creates its schema.
LEMMA CreateDbStep ==
    ASSUME PairInv, CreateDb, KeepHandle = FALSE
    PROVE  PairInv'
<1>1. DiskType' /\ HandleType'
  BY DEF PairInv, TypeOK, DiskType, HandleType, CreateDb
<1>2. InsertType'
  BY ClearInsertType DEF PairInv, TypeOK, InsertType, CreateDb
<1>3. CompactType'
  BY ClearCompactType DEF PairInv, TypeOK, CompactType, CreateDb
<1>4. Consistent'
  BY <1>1, <1>2 DEF PairInv, TypeOK, DiskType, HandleType, InsertType, CompactType, CreateDb, ClearInsert, ClearCompact, EmptyTable, Consistent, HandlePart, FilesPart, RowsPart, PendingPart, TargetPart, Prefix, Matching, Unique, Inserting, Creating
<1> QED
  BY <1>1, <1>2, <1>3, <1>4 DEF PairInv, TypeOK

\* create writes the schema version, which makes the store openable.
LEMMA CreateVersionStep ==
    ASSUME PairInv, CreateVersion, KeepHandle = FALSE
    PROVE  PairInv'
<1>1. DiskType' /\ HandleType'
  BY DEF PairInv, TypeOK, DiskType, HandleType, CreateVersion
<1>2. InsertType'
  BY ClearInsertType DEF PairInv, TypeOK, InsertType, CreateVersion
<1>3. CompactType'
  BY ClearCompactType DEF PairInv, TypeOK, CompactType, CreateVersion
<1>4. Consistent'
  BY <1>1, <1>2 DEF PairInv, TypeOK, DiskType, HandleType, InsertType, CompactType, CreateVersion, ClearInsert, ClearCompact, EmptyTable, Consistent, HandlePart, FilesPart, RowsPart, PendingPart, TargetPart, Prefix, Matching, Unique, Inserting, Creating
<1> QED
  BY <1>1, <1>2, <1>3, <1>4 DEF PairInv, TypeOK

\* open cuts the matrix to the metadata and takes the published pair.
LEMMA OpenStep ==
    ASSUME PairInv, Open, KeepHandle = FALSE
    PROVE  PairInv'
<1>1. PICK n \in 0 .. MaxRows : n <= rows[manifest] /\ Prefix(manifest, n)
  BY SomePrefix
<1>2. ReclaimedRows(manifest) = n
  BY <1>1, ReclaimCutsToMetadata DEF PairInv, TypeOK
<1>3. rows' = [rows EXCEPT ![manifest] = n] /\ rows'[manifest] = n
  BY <1>2 DEF Open, PairInv, TypeOK, DiskType
<1>4. TypeOK'
  BY <1>3 DEF PairInv, TypeOK, DiskType, HandleType, InsertType, CompactType, Open
<1>5. Consistent'
  BY <1>1, <1>3 DEF PairInv, TypeOK, DiskType, HandleType, InsertType, CompactType, Open, Openable, Consistent, HandlePart, FilesPart, RowsPart, PendingPart, TargetPart, Prefix, Matching, Unique, Inserting, Creating
<1> QED
  BY <1>4, <1>5 DEF PairInv

\* The handle is dropped.
LEMMA CloseStep ==
    ASSUME PairInv, Close, KeepHandle = FALSE
    PROVE  PairInv'
<1>1. DiskType' /\ HandleType'
  BY DEF PairInv, TypeOK, DiskType, HandleType, Close
<1>2. InsertType'
  BY ClearInsertType DEF PairInv, TypeOK, InsertType, Close
<1>3. CompactType'
  BY ClearCompactType DEF PairInv, TypeOK, CompactType, Close
<1>4. Consistent'
  BY <1>1, <1>2, SomePrefix, SMTT(30) DEF PairInv, TypeOK, DiskType, HandleType, InsertType, CompactType, Close, ClearInsert, ClearCompact, EmptyTable, Consistent, HandlePart, FilesPart, RowsPart, PendingPart, TargetPart, Prefix, Matching, Unique, Inserting, Creating
<1> QED
  BY <1>1, <1>2, <1>3, <1>4 DEF PairInv, TypeOK

\* insert_batch reads rows_before.
LEMMA InsertBeginStep ==
    ASSUME PairInv, NEW b \in Batches, InsertBegin(b), KeepHandle = FALSE
    PROVE  PairInv'
<1>1. DiskType' /\ HandleType'
  BY DEF PairInv, TypeOK, DiskType, HandleType, InsertBegin
<1>2. result = << >> /\ pending = EmptyTable /\ cur = manifest /\ pc' = "append"
  BY DEF InsertBegin, PairInv, Consistent, PendingPart, HandlePart, Inserting
<1>3. Len(b) \in Nat /\ b # << >>
  OBVIOUS
<1>4. before' \in 0 .. MaxRows
  BY DEF PairInv, TypeOK, DiskType, HandleType, InsertBegin
<1>5. InsertType'
  BY <1>2, <1>3, <1>4 DEF PairInv, TypeOK, InsertType, InsertBegin
<1>6. CompactType'
  BY DEF PairInv, TypeOK, CompactType, InsertBegin
<1>7. HandlePart' /\ FilesPart' /\ RowsPart' /\ Matching(manifest)' /\ Unique(manifest)' /\ TargetPart'
  BY <1>2 DEF PairInv, TypeOK, DiskType, InsertBegin, Consistent, HandlePart, FilesPart, RowsPart, PendingPart, TargetPart, Prefix, Matching, Unique, Inserting, Creating
<1>8. PendingPart'
  <2>1. batch' # << >>
    BY <1>3 DEF InsertBegin
  <2>2. \A r \in RowIds : ~(before' <= r /\ r < rows'[manifest'])
    BY <1>2 DEF InsertBegin, RowIds, PairInv, TypeOK, DiskType
  <2>3. \A r \in RowIds : pending'[r] = NoRec
    BY <1>2 DEF InsertBegin, EmptyTable
  <2> QED
    BY <1>2, <2>1, <2>2, <2>3 DEF PendingPart, Inserting
<1> QED
  BY <1>1, <1>5, <1>6, <1>7, <1>8 DEF PairInv, TypeOK, Consistent

\* insert_batch finds the content in the batch or among the live rows.
LEMMA ReuseRowStep ==
    ASSUME PairInv, ReuseRow, KeepHandle = FALSE
    PROVE  PairInv'
<1>1. DiskType' /\ HandleType'
  BY DEF PairInv, TypeOK, DiskType, HandleType, ReuseRow
<1>2. InsertType'
  BY ClearInsertType DEF PairInv, TypeOK, InsertType, ReuseRow, KnownRows, Resolved, RowsOfHash, LiveRows
<1>3. CompactType'
  BY ClearCompactType DEF PairInv, TypeOK, CompactType, ReuseRow
<1>4. Consistent'
  BY <1>1, <1>2 DEF PairInv, TypeOK, DiskType, HandleType, InsertType, CompactType, ReuseRow, ClearInsert, ClearCompact, EmptyTable, Consistent, HandlePart, FilesPart, RowsPart, PendingPart, TargetPart, Prefix, Matching, Unique, Inserting, Creating
<1> QED
  BY <1>1, <1>2, <1>3, <1>4 DEF PairInv, TypeOK

\* insert_batch appends one vector and queues its record.
LEMMA AppendRowStep ==
    ASSUME PairInv, AppendRow, KeepHandle = FALSE
    PROVE  PairInv'
<1> DEFINE r0 == rows[cur]
           rec == [hash |-> Item.hash, file |-> Item.file, live |-> TRUE]
<1>1. /\ pc = "append" /\ cur = manifest /\ r0 \in RowIds /\ KnownRows = {}
      /\ data' = [data EXCEPT ![cur][r0] = Item.hash]
      /\ rows' = [rows EXCEPT ![cur] = r0 + 1]
      /\ pending' = [pending EXCEPT ![r0] = rec]
      /\ result' = Append(result, r0)
  BY DEF AppendRow, PairInv, TypeOK, DiskType, HandleType, RowIds, Consistent, HandlePart
<1>2. batch \in Seq(Input) /\ result \in Seq(RowIds) /\ Len(result) + 1 \in 1 .. Len(batch)
  BY <1>1 DEF AppendRow, Resolved, PairInv, TypeOK, InsertType, Consistent, PendingPart, Inserting
<1>3. Item \in Input
  BY <1>2 DEF Item
<1>4. Item.hash \in Hashes /\ rec \in Records
  BY <1>3 DEF Input, Records
<1> HIDE DEF rec
<1>5. DiskType'
  <2>1. data' \in [Generations -> [RowIds -> Hashes \cup {ZeroVec}]]
    BY <1>1, <1>4 DEF PairInv, TypeOK, DiskType
  <2>2. rows' \in [Generations -> 0 .. MaxRows]
    BY <1>1 DEF PairInv, TypeOK, DiskType, RowIds
  <2> QED
    BY <2>1, <2>2 DEF AppendRow, PairInv, TypeOK, DiskType
<1>6. InsertType'
  <2>1. pending' \in [RowIds -> Records \cup {NoRec}]
    BY <1>1, <1>4 DEF PairInv, TypeOK, InsertType
  <2>2. result' \in Seq(RowIds) /\ Len(result') <= Len(batch)
    BY <1>1, <1>2
  <2> QED
    BY <2>1, <2>2 DEF AppendRow, PairInv, TypeOK, InsertType
<1>7. HandleType' /\ CompactType'
  BY DEF AppendRow, PairInv, TypeOK, HandleType, CompactType
<1>8. HandlePart' /\ FilesPart' /\ RowsPart' /\ Unique(manifest)' /\ TargetPart'
  BY <1>1 DEF AppendRow, PairInv, TypeOK, DiskType, InsertType, RowIds, Consistent, HandlePart, FilesPart, RowsPart, PendingPart, TargetPart, Prefix, Matching, Unique, Inserting, Creating
<1>9. Prefix(manifest, before) /\ before <= r0
  BY <1>1 DEF PairInv, Consistent, RowsPart, Inserting
<1>10. Matching(manifest)'
  BY <1>1, <1>9 DEF AppendRow, PairInv, TypeOK, DiskType, InsertType, RowIds, Consistent, Matching, Prefix
<1>11. PendingPart'
  <2>1. pc' = "append" /\ batch' = batch /\ before' = before /\ chunks' = chunks /\ manifest' = manifest
    BY <1>1 DEF AppendRow
  <2>2. \A q \in RowIds : pending'[q] = IF q = r0 THEN rec ELSE pending[q]
    BY <1>1 DEF PairInv, TypeOK, InsertType
  <2>3. rows'[manifest] = r0 + 1 /\ r0 = rows[manifest] /\ r0 \in Nat /\ before \in Nat
    BY <1>1 DEF PairInv, TypeOK, DiskType, InsertType, RowIds
  <2>4. \A q \in RowIds : data'[manifest][q] = IF q = r0 THEN Item.hash ELSE data[manifest][q]
    BY <1>1 DEF PairInv, TypeOK, DiskType
  <2>5. rec # NoRec /\ rec.live /\ rec.hash = Item.hash
    BY <1>4 DEF rec
  <2>6. \A q \in RowIds : pending[q] # NoRec => pending[q].hash # Item.hash
    BY <1>1 DEF KnownRows
  <2>7. \A q \in RowIds : (chunks[manifest][q] # NoRec /\ chunks[manifest][q].live) => chunks[manifest][q].hash # Item.hash
    BY <1>1 DEF KnownRows, RowsOfHash, LiveRows
  <2>8. \A q \in RowIds : pending[q] # NoRec <=> (before <= q /\ q < r0)
    BY <1>1, <2>3 DEF PairInv, Consistent, PendingPart, Inserting
  <2>9. \A q \in RowIds : pending'[q] # NoRec <=> (before <= q /\ q < r0 + 1)
    BY <1>9, <2>2, <2>3, <2>5, <2>8 DEF RowIds
  <2>10. batch # << >> /\ \A r \in RowIds : pending[r] # NoRec =>
              /\ pending[r].live
              /\ data[manifest][r] = pending[r].hash
              /\ \A q \in RowIds : (pending[q] # NoRec /\ pending[q].hash = pending[r].hash) => q = r
              /\ \A q \in RowIds : (chunks[manifest][q] # NoRec /\ chunks[manifest][q].live)
                                    => chunks[manifest][q].hash # pending[r].hash
    BY <1>1 DEF PairInv, Consistent, PendingPart, Inserting
  <2>11. \A r \in RowIds : pending'[r] # NoRec =>
              /\ pending'[r].live
              /\ data'[manifest][r] = pending'[r].hash
              /\ \A q \in RowIds : (pending'[q] # NoRec /\ pending'[q].hash = pending'[r].hash) => q = r
              /\ \A q \in RowIds : (chunks[manifest][q] # NoRec /\ chunks[manifest][q].live)
                                    => chunks[manifest][q].hash # pending'[r].hash
    BY <2>2, <2>4, <2>5, <2>6, <2>7, <2>8, <2>10
  <2> QED
    BY <2>1, <2>3, <2>9, <2>10, <2>11 DEF PendingPart, Inserting
<1> QED
  BY <1>5, <1>6, <1>7, <1>8, <1>10, <1>11 DEF PairInv, TypeOK, Consistent

\* insert_batch fails while appending; the caller drops the handle.
LEMMA AppendErrorStep ==
    ASSUME PairInv, AppendError, KeepHandle = FALSE
    PROVE  PairInv'
<1>1. DiskType' /\ HandleType'
  BY DEF PairInv, TypeOK, DiskType, HandleType, AppendError
<1>2. InsertType'
  BY ClearInsertType DEF PairInv, TypeOK, InsertType, AppendError
<1>3. CompactType'
  BY ClearCompactType DEF PairInv, TypeOK, CompactType, AppendError
<1>4. Consistent'
  BY <1>1, <1>2, SomePrefix DEF PairInv, TypeOK, DiskType, HandleType, InsertType, CompactType, AppendError, ClearInsert, ClearCompact, EmptyTable, Consistent, HandlePart, FilesPart, RowsPart, PendingPart, TargetPart, Prefix, Matching, Unique, Inserting, Creating
<1> QED
  BY <1>1, <1>2, <1>3, <1>4 DEF PairInv, TypeOK

\* insert_batch commits the queued records.
LEMMA CommitBatchStep ==
    ASSUME PairInv, CommitBatch, KeepHandle = FALSE
    PROVE  PairInv'
<1>1. pc = "append" /\ pc' = "idle" /\ cur = manifest /\ rows' = rows /\ data' = data /\ manifest' = manifest
  BY DEF CommitBatch, PairInv, Consistent, HandlePart
<1>2. \A r \in RowIds : chunks'[manifest][r] = IF pending[r] # NoRec THEN pending[r] ELSE chunks[manifest][r]
  BY <1>1 DEF CommitBatch, PairInv, TypeOK, DiskType
<1>3. DiskType' /\ HandleType'
  BY DEF PairInv, TypeOK, DiskType, HandleType, InsertType, CommitBatch
<1>4. InsertType' /\ CompactType'
  BY ClearInsertType DEF PairInv, TypeOK, CompactType, CommitBatch
<1>5. HandlePart' /\ FilesPart' /\ PendingPart' /\ TargetPart'
  BY <1>1 DEF CommitBatch, ClearInsert, PairInv, Consistent, HandlePart, FilesPart, PendingPart, TargetPart, Inserting, Creating
<1>6. RowsPart'
  <2>1. rows[manifest] \in Nat /\ before \in Nat /\ before <= rows[manifest]
    BY <1>1 DEF PairInv, TypeOK, DiskType, InsertType, Consistent, RowsPart, Inserting
  <2>2. \A r \in RowIds : chunks[manifest][r] # NoRec <=> r < before
    BY <1>1 DEF PairInv, Consistent, RowsPart, Inserting, Prefix
  <2>3. \A r \in RowIds : pending[r] # NoRec <=> (before <= r /\ r < rows[manifest])
    BY <1>1 DEF PairInv, Consistent, PendingPart, Inserting
  <2>4. \A r \in RowIds : chunks'[manifest][r] # NoRec <=> r < rows[manifest]
    BY <1>2, <2>1, <2>2, <2>3 DEF RowIds
  <2> QED
    BY <1>1, <2>4 DEF RowsPart, Inserting, Prefix
<1>7. Matching(manifest)'
  BY <1>1, <1>2 DEF PairInv, Consistent, PendingPart, Inserting, Matching
<1>8. Unique(manifest)'
  BY <1>1, <1>2 DEF PairInv, Consistent, PendingPart, Inserting, Unique
<1> QED
  BY <1>3, <1>4, <1>5, <1>6, <1>7, <1>8 DEF PairInv, TypeOK, Consistent

\* The transaction of insert_batch fails.
LEMMA CommitErrorStep ==
    ASSUME PairInv, CommitError, KeepHandle = FALSE
    PROVE  PairInv'
<1>1. DiskType' /\ HandleType'
  BY DEF PairInv, TypeOK, DiskType, HandleType, CommitError
<1>2. InsertType'
  BY ClearInsertType DEF PairInv, TypeOK, InsertType, CommitError
<1>3. CompactType'
  BY ClearCompactType DEF PairInv, TypeOK, CompactType, CommitError
<1>4. Consistent'
  BY <1>1, <1>2 DEF PairInv, TypeOK, DiskType, HandleType, InsertType, CompactType, CommitError, ClearInsert, ClearCompact, EmptyTable, Consistent, HandlePart, FilesPart, RowsPart, PendingPart, TargetPart, Prefix, Matching, Unique, Inserting, Creating
<1> QED
  BY <1>1, <1>2, <1>3, <1>4 DEF PairInv, TypeOK

\* insert_batch truncates the matrix to rows_before.
LEMMA RollbackStep ==
    ASSUME PairInv, Rollback, KeepHandle = FALSE
    PROVE  PairInv'
<1>1. DiskType' /\ HandleType'
  BY DEF PairInv, TypeOK, DiskType, HandleType, Rollback, InsertType
<1>2. InsertType'
  BY ClearInsertType DEF PairInv, TypeOK, InsertType, Rollback
<1>3. CompactType'
  BY ClearCompactType DEF PairInv, TypeOK, CompactType, Rollback
<1>4. Consistent'
  BY <1>1, <1>2 DEF PairInv, TypeOK, DiskType, HandleType, InsertType, CompactType, Rollback, ClearInsert, ClearCompact, EmptyTable, Consistent, HandlePart, FilesPart, RowsPart, PendingPart, TargetPart, Prefix, Matching, Unique, Inserting, Creating
<1> QED
  BY <1>1, <1>2, <1>3, <1>4 DEF PairInv, TypeOK

\* The truncation fails; the caller drops the handle.
LEMMA RollbackErrorStep ==
    ASSUME PairInv, RollbackError, KeepHandle = FALSE
    PROVE  PairInv'
<1>1. DiskType' /\ HandleType'
  BY DEF PairInv, TypeOK, DiskType, HandleType, RollbackError
<1>2. InsertType'
  BY ClearInsertType DEF PairInv, TypeOK, InsertType, RollbackError
<1>3. CompactType'
  BY ClearCompactType DEF PairInv, TypeOK, CompactType, RollbackError
<1>4. Consistent'
  BY <1>1, <1>2, SomePrefix DEF PairInv, TypeOK, DiskType, HandleType, InsertType, CompactType, RollbackError, ClearInsert, ClearCompact, EmptyTable, Consistent, HandlePart, FilesPart, RowsPart, PendingPart, TargetPart, Prefix, Matching, Unique, Inserting, Creating
<1> QED
  BY <1>1, <1>2, <1>3, <1>4 DEF PairInv, TypeOK

\* A transaction that rewrites metadata in place keeps PairInv when it keeps every
\* row's content and brings no dead row back.
LEMMA MetadataUpdateStep ==
    ASSUME PairInv, pc = "idle",
           NEW t \in [RowIds -> Records \cup {NoRec}],
           \A r \in RowIds :
              /\ t[r] = NoRec <=> chunks[cur][r] = NoRec
              /\ t[r] # NoRec => /\ t[r].hash = chunks[cur][r].hash
                                 /\ t[r].live => chunks[cur][r].live,
           chunks' = [chunks EXCEPT ![cur] = t],
           UNCHANGED <<matrixFiles, dbState, rows, data, indexed, manifest, pc, cur, insertVars, compactVars>>
    PROVE  PairInv'
<1>1. cur = manifest
  BY DEF PairInv, Consistent, HandlePart
<1>2. \A r \in RowIds : chunks'[manifest][r] = t[r]
  BY <1>1 DEF PairInv, TypeOK, DiskType
<1>3. TypeOK'
  BY DEF PairInv, TypeOK, DiskType, HandleType, InsertType, CompactType
<1>4. Matching(manifest)' /\ Unique(manifest)'
  BY <1>1, <1>2 DEF PairInv, Consistent, Matching, Unique
<1>5. HandlePart' /\ FilesPart' /\ RowsPart' /\ PendingPart' /\ TargetPart'
  BY <1>1, <1>2 DEF PairInv, Consistent, HandlePart, FilesPart, RowsPart, PendingPart, TargetPart, Prefix, Inserting, Creating
<1> QED
  BY <1>3, <1>4, <1>5 DEF PairInv, Consistent

\* tombstone marks live rows dead.
LEMMA TombstoneStep ==
    ASSUME PairInv, NEW gone \in SUBSET RowIds, Tombstone(gone), KeepHandle = FALSE
    PROVE  PairInv'
<1> DEFINE old == chunks[cur]
           t == [r \in RowIds |-> IF r \in gone \cap LiveRows(cur)
                                 THEN [old[r] EXCEPT !.live = FALSE] ELSE old[r]]
<1>1. old \in [RowIds -> Records \cup {NoRec}]
  BY DEF PairInv, TypeOK, DiskType, HandleType
<1>2. \A r \in LiveRows(cur) : old[r] \in Records /\ [old[r] EXCEPT !.live = FALSE] \in Records
  BY <1>1 DEF LiveRows, Records
<1>3. t \in [RowIds -> Records \cup {NoRec}]
  BY <1>1, <1>2
<1>4. \A r \in RowIds :
         /\ t[r] = NoRec <=> old[r] = NoRec
         /\ t[r] # NoRec => /\ t[r].hash = old[r].hash
                            /\ t[r].live => old[r].live
  BY <1>1, <1>2 DEF LiveRows, Records
<1> QED
  BY <1>3, <1>4, MetadataUpdateStep DEF Tombstone

\* rekey_file changes the file of live rows.
LEMMA RekeyFileStep ==
    ASSUME PairInv, NEW from \in Files, NEW to \in Files, RekeyFile(from, to), KeepHandle = FALSE
    PROVE  PairInv'
<1> DEFINE old == chunks[cur]
           t == [r \in RowIds |-> IF r \in LiveRows(cur) /\ old[r].file = from
                                 THEN [old[r] EXCEPT !.file = to] ELSE old[r]]
<1>1. old \in [RowIds -> Records \cup {NoRec}]
  BY DEF PairInv, TypeOK, DiskType, HandleType
<1>2. \A r \in LiveRows(cur) : old[r] \in Records /\ [old[r] EXCEPT !.file = to] \in Records
  BY <1>1 DEF LiveRows, Records
<1>3. t \in [RowIds -> Records \cup {NoRec}]
  BY <1>1, <1>2
<1>4. \A r \in RowIds :
         /\ t[r] = NoRec <=> old[r] = NoRec
         /\ t[r] # NoRec => /\ t[r].hash = old[r].hash
                            /\ t[r].live => old[r].live
  BY <1>1, <1>2 DEF LiveRows, Records
<1> QED
  BY <1>3, <1>4, MetadataUpdateStep DEF RekeyFile

\* set_indexed_commit changes the meta table only.
LEMMA SetIndexedCommitStep ==
    ASSUME PairInv, NEW c \in Commits, SetIndexedCommit(c), KeepHandle = FALSE
    PROVE  PairInv'
<1>1. DiskType' /\ HandleType'
  BY DEF PairInv, TypeOK, DiskType, HandleType, SetIndexedCommit
<1>2. InsertType'
  BY ClearInsertType DEF PairInv, TypeOK, InsertType, SetIndexedCommit
<1>3. CompactType'
  BY ClearCompactType DEF PairInv, TypeOK, CompactType, SetIndexedCommit
<1>4. Consistent'
  BY <1>1, <1>2 DEF PairInv, TypeOK, DiskType, HandleType, InsertType, CompactType, SetIndexedCommit, ClearInsert, ClearCompact, EmptyTable, Consistent, HandlePart, FilesPart, RowsPart, PendingPart, TargetPart, Prefix, Matching, Unique, Inserting, Creating
<1> QED
  BY <1>1, <1>2, <1>3, <1>4 DEF PairInv, TypeOK

\* compact creates a pair that is not the published one.
LEMMA CompactBeginStep ==
    ASSUME PairInv, NEW g \in Generations, CompactBegin(g), KeepHandle = FALSE
    PROVE  PairInv'
<1>1. DiskType' /\ HandleType'
  BY DEF PairInv, TypeOK, DiskType, HandleType, CompactBegin, EmptyTable, EmptyMatrix
<1>2. InsertType'
  BY ClearInsertType DEF PairInv, TypeOK, InsertType, CompactBegin
<1>3. CompactType'
  BY ClearCompactType DEF PairInv, TypeOK, CompactType, CompactBegin
<1>4. Consistent'
  BY <1>1, <1>2 DEF PairInv, TypeOK, DiskType, HandleType, InsertType, CompactType, CompactBegin, ClearInsert, ClearCompact, EmptyTable, Consistent, HandlePart, FilesPart, RowsPart, PendingPart, TargetPart, Prefix, Matching, Unique, Inserting, Creating, EmptyMatrix
<1> QED
  BY <1>1, <1>2, <1>3, <1>4 DEF PairInv, TypeOK

\* compact builds a complete pair.
LEMMA CompactCopyStep ==
    ASSUME PairInv, CompactCopy, KeepHandle = FALSE
    PROVE  PairInv'
<1>1. PICK m \in LiveRowsInOrder(cur), n \in 0 .. MaxRows :
         /\ DOMAIN m = 0 .. (n - 1)
         /\ mapping' = m
         /\ chunks' = [chunks EXCEPT ![target] =
                         [r \in RowIds |-> IF r \in DOMAIN m THEN chunks[cur][m[r]] ELSE NoRec]]
         /\ data' = [data EXCEPT ![target] =
                         [r \in RowIds |-> IF r \in DOMAIN m THEN data[cur][m[r]] ELSE ZeroVec]]
         /\ rows' = [rows EXCEPT ![target] = n]
  BY DEF CompactCopy
<1>2. m \in [0 .. (n - 1) -> LiveRows(cur)]
  BY <1>1 DEF LiveRowsInOrder
<1>3. \A i, j \in 0 .. (n - 1) : i < j => m[i] < m[j]
  BY <1>1 DEF LiveRowsInOrder
<1>4. 0 .. (n - 1) \subseteq RowIds
  BY DEF RowIds
<1>5. pc = "copy" /\ pc' = "publish" /\ cur = manifest /\ target # manifest /\ target \in Generations
      /\ manifest' = manifest /\ target' = target /\ cur' = cur
  BY DEF CompactCopy, PairInv, TypeOK, CompactType, Consistent, HandlePart
<1>6. \A r \in RowIds : /\ chunks'[target][r] = IF r < n THEN chunks[cur][m[r]] ELSE NoRec
                        /\ data'[target][r] = IF r < n THEN data[cur][m[r]] ELSE ZeroVec
  BY <1>1, <1>5 DEF PairInv, TypeOK, DiskType, RowIds
<1>7. rows'[target] = n
  BY <1>1, <1>5 DEF PairInv, TypeOK, DiskType
<1>8. chunks'[manifest] = chunks[manifest] /\ data'[manifest] = data[manifest] /\ rows'[manifest] = rows[manifest]
  BY <1>1, <1>5 DEF PairInv, TypeOK, DiskType
<1>9. \A r \in LiveRows(cur) : r \in RowIds /\ chunks[cur][r] # NoRec /\ chunks[cur][r].live
  BY DEF LiveRows
<1>10. DiskType' /\ HandleType'
  <2>1. [r \in RowIds |-> IF r \in DOMAIN m THEN chunks[cur][m[r]] ELSE NoRec] \in [RowIds -> Records \cup {NoRec}]
    BY <1>1, <1>2, <1>9 DEF PairInv, TypeOK, DiskType, HandleType
  <2>2. [r \in RowIds |-> IF r \in DOMAIN m THEN data[cur][m[r]] ELSE ZeroVec] \in [RowIds -> Hashes \cup {ZeroVec}]
    BY <1>1, <1>2, <1>9 DEF PairInv, TypeOK, DiskType, HandleType
  <2>3. chunks' \in [Generations -> [RowIds -> Records \cup {NoRec}]]
    BY <1>1, <2>1 DEF PairInv, TypeOK, DiskType
  <2>4. data' \in [Generations -> [RowIds -> Hashes \cup {ZeroVec}]]
    BY <1>1, <2>2 DEF PairInv, TypeOK, DiskType
  <2> QED
    BY <1>1, <2>3, <2>4 DEF CompactCopy, PairInv, TypeOK, DiskType, HandleType
<1>11. InsertType'
  BY DEF CompactCopy, PairInv, TypeOK, InsertType
<1>12. CompactType'
  <2>1. m \in [0 .. (n - 1) -> RowIds]
    BY <1>2, <1>9
  <2> QED
    BY <1>1, <2>1 DEF CompactCopy, PairInv, TypeOK, CompactType
<1>13. HandlePart' /\ FilesPart' /\ RowsPart' /\ PendingPart' /\ Matching(manifest)' /\ Unique(manifest)'
  BY <1>5, <1>8 DEF CompactCopy, PairInv, TypeOK, DiskType, Consistent, HandlePart, FilesPart, RowsPart, PendingPart, TargetPart, Prefix, Matching, Unique, Inserting, Creating
<1>14. TargetPart'
  <2>1. dbState'[target] = "ready"
    BY <1>5 DEF CompactCopy, PairInv, TypeOK, DiskType
  <2>2. \A r \in RowIds : r < n => /\ m[r] \in LiveRows(cur)
                                  /\ chunks'[target][r] = chunks[cur][m[r]]
                                  /\ data'[target][r] = data[cur][m[r]]
    BY <1>2, <1>6 DEF RowIds
  <2>3. \A r \in RowIds : chunks'[target][r] # NoRec <=> r < n
    BY <1>6, <1>9, <2>2
  <2>4. \A r \in RowIds : chunks'[target][r] # NoRec => data'[target][r] = chunks'[target][r].hash
    BY <1>5, <1>9, <2>2, <2>3 DEF PairInv, Consistent, Matching
  <2>5. \A r, q \in RowIds : (r < n /\ q < n /\ m[r] = m[q]) => r = q
    <3> SUFFICES ASSUME NEW r \in RowIds, NEW q \in RowIds, r < n, q < n, r # q
                 PROVE  m[r] # m[q]
      OBVIOUS
    <3>1. r \in 0 .. (n - 1) /\ q \in 0 .. (n - 1) /\ (r < q \/ q < r)
      BY DEF RowIds
    <3>2. m[r] \in Int /\ m[q] \in Int
      BY <1>2, <1>9, <3>1 DEF RowIds
    <3> QED
      BY <1>3, <3>1, <3>2
  <2>6. \A r, q \in RowIds :
           (/\ chunks'[target][r] # NoRec /\ chunks'[target][q] # NoRec
            /\ chunks'[target][r].hash = chunks'[target][q].hash) => r = q
    BY <1>5, <1>9, <2>2, <2>3, <2>5 DEF PairInv, Consistent, Unique
  <2> QED
    BY <1>5, <1>7, <2>1, <2>3, <2>4, <2>6 DEF TargetPart, Prefix, Matching, Unique
<1> QED
  BY <1>10, <1>11, <1>12, <1>13, <1>14 DEF PairInv, TypeOK, Consistent

\* compact fails before it publishes.
LEMMA CompactErrorStep ==
    ASSUME PairInv, CompactError, KeepHandle = FALSE
    PROVE  PairInv'
<1>1. DiskType' /\ HandleType'
  BY DEF PairInv, TypeOK, DiskType, HandleType, CompactError
<1>2. InsertType'
  BY ClearInsertType DEF PairInv, TypeOK, InsertType, CompactError
<1>3. CompactType'
  BY ClearCompactType DEF PairInv, TypeOK, CompactType, CompactError
<1>4. Consistent'
  BY <1>1, <1>2 DEF PairInv, TypeOK, DiskType, HandleType, InsertType, CompactType, CompactError, ClearInsert, ClearCompact, EmptyTable, Consistent, HandlePart, FilesPart, RowsPart, PendingPart, TargetPart, Prefix, Matching, Unique, Inserting, Creating
<1> QED
  BY <1>1, <1>2, <1>3, <1>4 DEF PairInv, TypeOK

\* compact switches to the pair it built.
LEMMA PublishManifestStep ==
    ASSUME PairInv, PublishManifest, KeepHandle = FALSE
    PROVE  PairInv'
<1>1. DiskType' /\ HandleType'
  BY DEF PairInv, TypeOK, DiskType, HandleType, PublishManifest, CompactType
<1>2. InsertType'
  BY ClearInsertType DEF PairInv, TypeOK, InsertType, PublishManifest
<1>3. CompactType'
  BY ClearCompactType DEF PairInv, TypeOK, CompactType, PublishManifest, DiskType
<1>4. Consistent'
  BY <1>1, <1>2 DEF PairInv, TypeOK, DiskType, HandleType, InsertType, CompactType, PublishManifest, ClearInsert, ClearCompact, EmptyTable, Consistent, HandlePart, FilesPart, RowsPart, PendingPart, TargetPart, Prefix, Matching, Unique, Inserting, Creating
<1> QED
  BY <1>1, <1>2, <1>3, <1>4 DEF PairInv, TypeOK

\* compact moves the handle to the new pair.
LEMMA ReopenPairStep ==
    ASSUME PairInv, ReopenPair, KeepHandle = FALSE
    PROVE  PairInv'
<1>1. DiskType' /\ HandleType'
  BY DEF PairInv, TypeOK, DiskType, HandleType, ReopenPair, CompactType
<1>2. InsertType'
  BY ClearInsertType DEF PairInv, TypeOK, InsertType, ReopenPair
<1>3. CompactType'
  BY ClearCompactType DEF PairInv, TypeOK, CompactType, ReopenPair, HandleType
<1>4. Consistent'
  BY <1>1, <1>2 DEF PairInv, TypeOK, DiskType, HandleType, InsertType, CompactType, ReopenPair, ClearInsert, ClearCompact, EmptyTable, Consistent, HandlePart, FilesPart, RowsPart, PendingPart, TargetPart, Prefix, Matching, Unique, Inserting, Creating
<1> QED
  BY <1>1, <1>2, <1>3, <1>4 DEF PairInv, TypeOK

\* compact cannot open the new pair; the caller drops the handle.
LEMMA ReopenErrorStep ==
    ASSUME PairInv, ReopenError, KeepHandle = FALSE
    PROVE  PairInv'
<1>1. DiskType' /\ HandleType'
  BY DEF PairInv, TypeOK, DiskType, HandleType, ReopenError
<1>2. InsertType'
  BY ClearInsertType DEF PairInv, TypeOK, InsertType, ReopenError
<1>3. CompactType'
  BY ClearCompactType DEF PairInv, TypeOK, CompactType, ReopenError
<1>4. Consistent'
  BY <1>1, <1>2, SomePrefix DEF PairInv, TypeOK, DiskType, HandleType, InsertType, CompactType, ReopenError, ClearInsert, ClearCompact, EmptyTable, Consistent, HandlePart, FilesPart, RowsPart, PendingPart, TargetPart, Prefix, Matching, Unique, Inserting, Creating
<1> QED
  BY <1>1, <1>2, <1>3, <1>4 DEF PairInv, TypeOK

\* compact removes the retired files.
LEMMA RemoveOldPairStep ==
    ASSUME PairInv, RemoveOldPair, KeepHandle = FALSE
    PROVE  PairInv'
<1>1. DiskType' /\ HandleType'
  <2>1. EmptyTable \in [RowIds -> Records \cup {NoRec}] /\ EmptyMatrix \in [RowIds -> Hashes \cup {ZeroVec}]
    BY DEF EmptyTable, EmptyMatrix
  <2>2. matrixFiles' \subseteq Generations /\ rows' \in [Generations -> 0 .. MaxRows]
        /\ data' \in [Generations -> [RowIds -> Hashes \cup {ZeroVec}]]
    <3>1. CASE RemoveMatrix(target)
      <4>1. matrixFiles' \subseteq Generations
        BY <3>1 DEF PairInv, TypeOK, DiskType, RemoveMatrix
      <4>2. rows' \in [Generations -> 0 .. MaxRows]
        <5>1. rows \in [Generations -> 0 .. MaxRows] /\ 0 \in 0 .. MaxRows
          BY DEF PairInv, TypeOK, DiskType
        <5>2. rows' = [rows EXCEPT ![target] = 0]
          BY <3>1 DEF RemoveMatrix
        <5> QED
          BY <5>1, <5>2
      <4>3. data' \in [Generations -> [RowIds -> Hashes \cup {ZeroVec}]]
        BY <2>1, <3>1 DEF PairInv, TypeOK, DiskType, RemoveMatrix
      <4> QED
        BY <4>1, <4>2, <4>3
    <3>2. CASE UNCHANGED <<matrixFiles, rows, data>>
      BY <3>2 DEF PairInv, TypeOK, DiskType
    <3> QED
      BY <3>1, <3>2 DEF RemoveOldPair
  <2>3. /\ dbState' \in [Generations -> {"absent", "unversioned", "ready"}]
        /\ chunks' \in [Generations -> [RowIds -> Records \cup {NoRec}]]
        /\ indexed' \in [Generations -> Commits \cup {NoCommit}]
    BY <2>1, ZenonT(40) DEF PairInv, TypeOK, DiskType, RemoveOldPair, RemoveDb
  <2> QED
    BY <2>2, <2>3 DEF PairInv, TypeOK, DiskType, HandleType, RemoveOldPair
<1>2. InsertType'
  BY ClearInsertType DEF PairInv, TypeOK, InsertType, RemoveOldPair
<1>3. CompactType'
  BY ClearCompactType DEF PairInv, TypeOK, CompactType, RemoveOldPair
<1>4. Consistent'
  BY <1>1, <1>2 DEF PairInv, TypeOK, DiskType, HandleType, InsertType, CompactType, RemoveOldPair, ClearInsert, ClearCompact, EmptyTable, Consistent, HandlePart, FilesPart, RowsPart, PendingPart, TargetPart, Prefix, Matching, Unique, Inserting, Creating, RemoveMatrix, RemoveDb
<1> QED
  BY <1>1, <1>2, <1>3, <1>4 DEF PairInv, TypeOK

\* The process is killed at any moment.
LEMMA KillStep ==
    ASSUME PairInv, Kill, KeepHandle = FALSE
    PROVE  PairInv'
<1>1. DiskType' /\ HandleType'
  BY DEF PairInv, TypeOK, DiskType, HandleType, Kill
<1>2. InsertType'
  BY ClearInsertType DEF PairInv, TypeOK, InsertType, Kill
<1>3. CompactType'
  BY ClearCompactType DEF PairInv, TypeOK, CompactType, Kill
<1>4. Consistent'
  BY <1>1, <1>2, SomePrefix, ZenonT(40) DEF PairInv, TypeOK, DiskType, HandleType, InsertType, CompactType, Kill, ClearInsert, ClearCompact, EmptyTable, Consistent, HandlePart, FilesPart, RowsPart, PendingPart, TargetPart, Prefix, Matching, Unique, Inserting, Creating
<1> QED
  BY <1>1, <1>2, <1>3, <1>4 DEF PairInv, TypeOK

-----------------------------------------------------------------------------
\* For every size of the store, PairInv holds in every reachable state, as long as
\* callers drop a handle that returned an error, as the indexing pipeline does.
THEOREM Invariance ==
    ASSUME KeepHandle = FALSE
    PROVE  Spec => []PairInv
<1>1. Init => PairInv
  <2> SUFFICES ASSUME Init PROVE PairInv
    OBVIOUS
  <2>1. DiskType /\ HandleType
    BY DEF Init, DiskType, HandleType, EmptyTable, EmptyMatrix
  <2>2. InsertType
    <3>1. EmptyTable \in [RowIds -> Records \cup {NoRec}]
      BY DEF EmptyTable
    <3> QED
      BY <3>1 DEF Init, InsertType
  <2>3. CompactType
    <3>1. << >> \in [0 .. (0 - 1) -> RowIds]
      BY SMT
    <3>2. \E n \in 0 .. MaxRows : << >> \in [0 .. (n - 1) -> RowIds]
      <4>1. 0 \in 0 .. MaxRows
        OBVIOUS
      <4> QED
        BY <3>1, <4>1, Zenon
    <3> QED
      BY <3>2, Zenon DEF Init, CompactType
  <2>4. Consistent
    <3>1. Prefix(manifest, 0) /\ rows[manifest] = 0 /\ dbState[manifest] = "absent"
      BY DEF Init, Prefix, EmptyTable, RowIds
    <3>2. RowsPart
      <4>1. 0 \in 0 .. MaxRows /\ 0 <= rows[manifest]
        BY <3>1
      <4> QED
        BY <3>1, <4>1 DEF Init, RowsPart, Inserting
    <3>3. HandlePart /\ FilesPart /\ PendingPart /\ TargetPart
      BY <3>1 DEF Init, HandlePart, FilesPart, PendingPart, TargetPart, Inserting, Creating
    <3>4. Matching(manifest) /\ Unique(manifest)
      BY <3>1 DEF Prefix, Matching, Unique, RowIds
    <3> QED
      BY <3>2, <3>3, <3>4 DEF Consistent
  <2> QED
    BY <2>1, <2>2, <2>3, <2>4 DEF PairInv, TypeOK
<1>2. PairInv /\ [Next]_vars => PairInv'
  <2> SUFFICES ASSUME PairInv, [Next]_vars PROVE PairInv'
    OBVIOUS
  <2>1. CASE CreateMatrix
    BY <2>1, CreateMatrixStep
  <2>2. CASE CreateDb
    BY <2>2, CreateDbStep
  <2>3. CASE CreateVersion
    BY <2>3, CreateVersionStep
  <2>4. CASE Open
    BY <2>4, OpenStep
  <2>5. CASE Close
    BY <2>5, CloseStep
  <2>6. CASE \E b \in Batches : InsertBegin(b)
    BY <2>6, InsertBeginStep
  <2>7. CASE ReuseRow
    BY <2>7, ReuseRowStep
  <2>8. CASE AppendRow
    BY <2>8, AppendRowStep
  <2>9. CASE AppendError
    BY <2>9, AppendErrorStep
  <2>10. CASE CommitBatch
    BY <2>10, CommitBatchStep
  <2>11. CASE CommitError
    BY <2>11, CommitErrorStep
  <2>12. CASE Rollback
    BY <2>12, RollbackStep
  <2>13. CASE RollbackError
    BY <2>13, RollbackErrorStep
  <2>14. CASE \E gone \in SUBSET RowIds : Tombstone(gone)
    BY <2>14, TombstoneStep
  <2>15. CASE \E from, to \in Files : RekeyFile(from, to)
    BY <2>15, RekeyFileStep
  <2>16. CASE \E c \in Commits : SetIndexedCommit(c)
    BY <2>16, SetIndexedCommitStep
  <2>17. CASE \E g \in Generations : CompactBegin(g)
    BY <2>17, CompactBeginStep
  <2>18. CASE CompactCopy
    BY <2>18, CompactCopyStep
  <2>19. CASE CompactError
    BY <2>19, CompactErrorStep
  <2>20. CASE PublishManifest
    BY <2>20, PublishManifestStep
  <2>21. CASE ReopenPair
    BY <2>21, ReopenPairStep
  <2>22. CASE ReopenError
    BY <2>22, ReopenErrorStep
  <2>23. CASE RemoveOldPair
    BY <2>23, RemoveOldPairStep
  <2>24. CASE Kill
    BY <2>24, KillStep
  <2>25. CASE UNCHANGED vars
    <3>1. TypeOK'
      BY <2>25 DEF vars, PairInv, TypeOK, DiskType, HandleType, InsertType, CompactType
    <3>2. HandlePart' /\ FilesPart' /\ RowsPart' /\ Matching(manifest)' /\ Unique(manifest)'
      BY <2>25 DEF vars, PairInv, Consistent, HandlePart, FilesPart, RowsPart, Prefix, Matching, Unique,
                   Inserting, Creating
    <3>3. PendingPart' /\ TargetPart'
      BY <2>25 DEF vars, PairInv, Consistent, PendingPart, TargetPart, Prefix, Matching, Unique, Inserting,
                   EmptyTable
    <3> QED
      BY <3>1, <3>2, <3>3 DEF PairInv, Consistent
  <2> QED
    BY <2>1, <2>2, <2>3, <2>4, <2>5, <2>6, <2>7, <2>8, <2>9, <2>10, <2>11, <2>12, <2>13, <2>14, <2>15, <2>16, <2>17, <2>18, <2>19, <2>20, <2>21, <2>22, <2>23, <2>24, <2>25 DEF Next
<1> QED
  BY <1>1, <1>2, PTL DEF Spec

\* Type correctness of the store.
THEOREM TypeCorrect ==
    ASSUME KeepHandle = FALSE
    PROVE  Spec => []TypeOK
<1>1. PairInv => TypeOK
  BY DEF PairInv
<1> QED
  BY <1>1, Invariance, PTL

\* The matrix and the metadata of the published pair always agree: no interruption,
\* rollback, recovery or compaction makes a record point at another chunk's vector.
THEOREM VectorsAlwaysMatch ==
    ASSUME KeepHandle = FALSE
    PROVE  Spec => []VectorsMatchRecords
<1>1. PairInv => VectorsMatchRecords
  <2> SUFFICES ASSUME PairInv, NEW r \in MetaRows(manifest)
               PROVE  r < rows[manifest] /\ data[manifest][r] = chunks[manifest][r].hash
    BY DEF VectorsMatchRecords
  <2>1. PICK n \in 0 .. MaxRows : n <= rows[manifest] /\ Prefix(manifest, n)
    BY SomePrefix
  <2>2. r \in RowIds /\ chunks[manifest][r] # NoRec
    BY DEF MetaRows
  <2>3. r < n /\ rows[manifest] \in Nat
    BY <2>1, <2>2 DEF Prefix, PairInv, TypeOK, DiskType
  <2>4. data[manifest][r] = chunks[manifest][r].hash
    BY <2>2 DEF PairInv, Consistent, Matching
  <2> QED
    BY <2>1, <2>2, <2>3, <2>4 DEF RowIds
<1> QED
  BY <1>1, Invariance, PTL

\* No content hash is ever live twice in the published pair.
THEOREM HashesStayUnique ==
    ASSUME KeepHandle = FALSE
    PROVE  Spec => []OneLiveRowPerHash
<1>1. PairInv => OneLiveRowPerHash
  BY DEF PairInv, Consistent, Unique, OneLiveRowPerHash, DuplicateRows, LiveRows
<1> QED
  BY <1>1, Invariance, PTL

\* Between two calls the handle is on the published pair and verify accepts it.
THEOREM IdleHandleAlwaysSound ==
    ASSUME KeepHandle = FALSE
    PROVE  Spec => []IdleHandleIsSound
<1>1. PairInv => IdleHandleIsSound
  <2> SUFFICES ASSUME PairInv, pc = "idle"
               PROVE  cur = manifest /\ VerifyOk(cur, rows[cur])
    BY DEF IdleHandleIsSound
  <2>1. cur = manifest /\ Prefix(manifest, rows[manifest]) /\ Unique(manifest)
    BY DEF PairInv, Consistent, HandlePart, RowsPart, Inserting
  <2>2. rows[manifest] \in 0 .. MaxRows
    BY DEF PairInv, TypeOK, DiskType
  <2> QED
    BY <2>1, <2>2, SoundPairVerifies
<1> QED
  BY <1>1, Invariance, PTL

\* A store that was created is never refused by open, whatever the process was
\* doing when it was killed, provided it is not killed inside create.
THEOREM OpenAlwaysSucceeds ==
    ASSUME KeepHandle = FALSE, "kill_in_create" \notin Faults
    PROVE  Spec => []OpenNeverRefused
<1>1. PairInv => OpenNeverRefused
  <2> SUFFICES ASSUME PairInv, pc = "closed", manifest \in matrixFiles \/ dbState[manifest] # "absent"
               PROVE  Openable
    BY DEF OpenNeverRefused
  <2>1. dbState[manifest] = "ready" /\ manifest \in matrixFiles
    BY DEF PairInv, Consistent, FilesPart
  <2>2. PICK n \in 0 .. MaxRows : n <= rows[manifest] /\ Prefix(manifest, n)
    BY SomePrefix
  <2>3. ReclaimedRows(manifest) = n
    BY <2>2, ReclaimCutsToMetadata DEF PairInv, TypeOK
  <2>4. VerifyOk(manifest, n)
    BY <2>2, SoundPairVerifies DEF PairInv, Consistent
  <2> QED
    BY <2>1, <2>3, <2>4 DEF Openable
<1> QED
  BY <1>1, Invariance, PTL

-----------------------------------------------------------------------------
\* What one live row shows to a client.
Shown(g, r) == [hash |-> chunks[g][r].hash, file |-> chunks[g][r].file, vec |-> data[g][r]]

\* Every step is a step of the batch in progress, of a compaction, or neither.
InsertStep ==
    \/ \E b \in Batches : InsertBegin(b)
    \/ ReuseRow \/ AppendRow \/ AppendError
    \/ CommitBatch \/ CommitError \/ Rollback \/ RollbackError

MetadataStep ==
    \/ \E gone \in SUBSET RowIds : Tombstone(gone)
    \/ \E from, to \in Files : RekeyFile(from, to)
    \/ \E c \in Commits : SetIndexedCommit(c)

CompactStep ==
    \/ \E g \in Generations : CompactBegin(g)
    \/ CompactCopy \/ CompactError
    \/ PublishManifest \/ ReopenPair \/ ReopenError \/ RemoveOldPair

OpenStepOrKill == CreateMatrix \/ CreateDb \/ CreateVersion \/ Open \/ Close \/ Kill

-----------------------------------------------------------------------------
\* What the batch in progress has resolved.

\* Types of the batch in progress, as the steps below use them.
LEMMA InsertingTypes ==
    ASSUME PairInv, pc = "append"
    PROVE  /\ cur = manifest
           /\ manifest \in Generations
           /\ batch \in Seq(Input)
           /\ result \in Seq(RowIds)
           /\ Len(result) \in Nat /\ Len(result) <= Len(batch)
           /\ rows[manifest] \in Nat
           /\ pending \in [RowIds -> Records \cup {NoRec}]
BY DEF PairInv, TypeOK, InsertType, DiskType, Consistent, HandlePart, PendingPart, Inserting

\* The row one more input is resolved to.
LEMMA ResolveOne ==
    ASSUME NEW s \in Seq(RowIds), NEW r \in RowIds
    PROVE  /\ Append(s, r) \in Seq(RowIds)
           /\ Len(Append(s, r)) = Len(s) + 1
           /\ Append(s, r)[Len(s) + 1] = r
           /\ \A i \in 1 .. Len(s) : Append(s, r)[i] = s[i]
           /\ DOMAIN Append(s, r) = 1 .. (Len(s) + 1)
           /\ DOMAIN s = 1 .. Len(s)
OBVIOUS

\* insert_batch finds the content in the store or in the batch.
LEMMA ReuseRowResult ==
    ASSUME StoreInv, ReuseRow
    PROVE  ResultPart'
<1>0. PairInv /\ ResultPart /\ pc = "append" /\ Inserting
  BY DEF StoreInv, ReuseRow, Inserting
<1>1. PICK r \in KnownRows : result' = Append(result, r)
  BY DEF ReuseRow
<1>2. r \in RowIds
  BY <1>1 DEF KnownRows, RowsOfHash, LiveRows
<1>3. /\ cur = manifest /\ result \in Seq(RowIds) /\ Len(result) \in Nat
  BY <1>0, InsertingTypes
<1>4. UNCHANGED <<chunks, manifest, pending, batch, pc>>
  BY DEF ReuseRow
<1>5. /\ DOMAIN result' = 1 .. (Len(result) + 1)
      /\ DOMAIN result = 1 .. Len(result)
      /\ \A i \in DOMAIN result : result'[i] = result[i]
      /\ result'[Len(result) + 1] = r
  BY <1>1, <1>2, <1>3, ResolveOne
<1>6. \/ pending[r] # NoRec /\ pending[r].hash = batch[Len(result) + 1].hash
      \/ r \in RowsOfHash(manifest, batch[Len(result) + 1].hash)
  BY <1>1, <1>3 DEF KnownRows, Item
<1>7. \A i \in DOMAIN result' :
         \/ pending[result'[i]] # NoRec /\ pending[result'[i]].hash = batch[i].hash
         \/ result'[i] \in RowsOfHash(manifest, batch[i].hash)
  <2> SUFFICES ASSUME NEW i \in DOMAIN result'
               PROVE  \/ pending[result'[i]] # NoRec /\ pending[result'[i]].hash = batch[i].hash
                      \/ result'[i] \in RowsOfHash(manifest, batch[i].hash)
    OBVIOUS
  <2>1. CASE i \in DOMAIN result
    BY <1>0, <1>5, <2>1 DEF ResultPart
  <2>2. CASE i = Len(result) + 1
    BY <1>5, <1>6, <2>2
  <2> QED
    BY <1>3, <1>5, <2>1, <2>2
<1>8. \A q \in RowIds : pending[q] # NoRec =>
         \E k \in DOMAIN result' :
            /\ pending[q] = [hash |-> batch[k].hash, file |-> batch[k].file, live |-> TRUE]
            /\ \A j \in 1 .. (k - 1) : batch[j].hash # batch[k].hash
  <2>1. DOMAIN result \subseteq DOMAIN result'
    BY <1>3, <1>5
  <2> QED
    BY <1>0, <2>1 DEF ResultPart
<1>9. \A h : RowsOfHash(manifest, h)' = RowsOfHash(manifest, h)
  BY <1>4 DEF RowsOfHash, LiveRows
<1> QED
  BY <1>4, <1>7, <1>8, <1>9 DEF ResultPart

\* insert_batch appends content that is neither in the store nor in the batch.
LEMMA AppendRowResult ==
    ASSUME StoreInv, AppendRow
    PROVE  ResultPart'
<1> DEFINE r0 == rows[manifest]
           n == Len(result)
           rec == [hash |-> Item.hash, file |-> Item.file, live |-> TRUE]
<1>0. PairInv /\ ResultPart /\ pc = "append" /\ Inserting
  BY DEF StoreInv, AppendRow, Inserting
<1>1. /\ cur = manifest /\ result \in Seq(RowIds) /\ n \in Nat /\ n <= Len(batch)
      /\ r0 \in Nat /\ pending \in [RowIds -> Records \cup {NoRec}]
      /\ batch \in Seq(Input)
  BY <1>0, InsertingTypes
<1>2. /\ r0 \in RowIds
      /\ pending' = [pending EXCEPT ![r0] = rec]
      /\ result' = Append(result, r0)
      /\ KnownRows = {}
      /\ UNCHANGED <<chunks, manifest, batch, pc>>
  BY <1>1 DEF AppendRow, RowIds
<1>3. /\ DOMAIN result' = 1 .. (n + 1)
      /\ DOMAIN result = 1 .. n
      /\ \A i \in DOMAIN result : result'[i] = result[i] /\ result[i] \in RowIds
      /\ result'[n + 1] = r0
  BY <1>1, <1>2, ResolveOne
<1>4. /\ pending'[r0] = rec
      /\ \A q \in RowIds : q # r0 => pending'[q] = pending[q]
      /\ pending[r0] = NoRec
  <2>1. pending[r0] = NoRec
    BY <1>0, <1>1, <1>2 DEF PairInv, Consistent, PendingPart
  <2> QED
    BY <1>1, <1>2, <2>1
<1>5. n + 1 \in 1 .. Len(batch) /\ Item = batch[n + 1] /\ Item \in Input
  BY <1>1 DEF AppendRow, Resolved, Item
<1>6. rec \in Records /\ rec # NoRec /\ rec.hash = batch[n + 1].hash
  <2>1. Item.hash \in Hashes /\ Item.file \in Files
    BY <1>5 DEF Input
  <2>2. rec \in Records
    BY <2>1 DEF Records
  <2>3. rec # NoRec
    BY <2>2
  <2> QED
    BY <1>5, <2>2, <2>3
<1>7. ASSUME NEW i \in DOMAIN result'
      PROVE  \/ pending'[result'[i]] # NoRec /\ pending'[result'[i]].hash = batch[i].hash
             \/ result'[i] \in RowsOfHash(manifest, batch[i].hash)
  <2>1. CASE i \in DOMAIN result
    <3>1. \/ pending[result[i]] # NoRec /\ pending[result[i]].hash = batch[i].hash
          \/ result[i] \in RowsOfHash(manifest, batch[i].hash)
      BY <1>0, <2>1 DEF ResultPart
    <3> QED
      BY <1>3, <1>4, <2>1, <3>1
  <2>2. CASE i = n + 1
    BY <1>3, <1>4, <1>6, <2>2
  <2> QED
    BY <1>1, <1>3, <2>1, <2>2
<1>8. \A j \in 1 .. n : batch[j].hash # Item.hash
  <2> SUFFICES ASSUME NEW j \in 1 .. n, batch[j].hash = Item.hash PROVE FALSE
    OBVIOUS
  <2>1. \/ pending[result[j]] # NoRec /\ pending[result[j]].hash = Item.hash
        \/ result[j] \in RowsOfHash(manifest, Item.hash)
    BY <1>0, <1>3 DEF ResultPart
  <2>2. result[j] \in KnownRows
    BY <1>1, <1>3, <2>1 DEF KnownRows
  <2> QED
    BY <1>2, <2>2
<1>9. ASSUME NEW q \in RowIds, pending'[q] # NoRec
       PROVE  \E k \in DOMAIN result' :
                 /\ pending'[q] = [hash |-> batch[k].hash, file |-> batch[k].file, live |-> TRUE]
                 /\ \A j \in 1 .. (k - 1) : batch[j].hash # batch[k].hash
  <2>1. CASE q = r0
    <3>1. n + 1 \in DOMAIN result' /\ (n + 1) - 1 = n
      BY <1>1, <1>3
    <3>2. /\ pending'[q] = [hash |-> batch[n + 1].hash, file |-> batch[n + 1].file, live |-> TRUE]
          /\ \A j \in 1 .. n : batch[j].hash # batch[n + 1].hash
      BY <1>4, <1>5, <1>8, <2>1
    <3> QED
      BY <3>1, <3>2
  <2>2. CASE q # r0
    <3>1. pending'[q] = pending[q] /\ DOMAIN result \subseteq DOMAIN result'
      BY <1>1, <1>3, <1>4, <2>2
    <3>2. pending[q] # NoRec
      BY <1>9, <3>1
    <3> QED
      BY <1>0, <3>1, <3>2 DEF ResultPart
  <2> QED
    BY <2>1, <2>2
<1>10. (\A i \in DOMAIN result :
           \/ pending[result[i]] # NoRec /\ pending[result[i]].hash = batch[i].hash
           \/ result[i] \in RowsOfHash(manifest, batch[i].hash))'
  <2> SUFFICES ASSUME NEW i \in DOMAIN result'
               PROVE  \/ /\ pending'[result'[i]] # NoRec
                         /\ pending'[result'[i]].hash = batch'[i].hash
                      \/ result'[i] \in RowsOfHash(manifest, batch[i].hash)'
    OBVIOUS
  <2>1. batch' = batch
    BY <1>2
  <2>2. RowsOfHash(manifest, batch[i].hash)' = RowsOfHash(manifest, batch[i].hash)
    BY <1>2 DEF RowsOfHash, LiveRows
  <2> QED
    BY <1>7, <2>1, <2>2
<1>11. (\A r \in RowIds : pending[r] # NoRec =>
            \E k \in DOMAIN result :
                /\ pending[r] = [hash |-> batch[k].hash, file |-> batch[k].file, live |-> TRUE]
                /\ \A j \in 1 .. (k - 1) : batch[j].hash # batch[k].hash)'
  <2>1. batch' = batch /\ RowIds' = RowIds
    BY <1>2 DEF RowIds
  <2> QED
    BY <1>9, <2>1
<1> QED
  BY <1>10, <1>11 DEF ResultPart

\* The other steps of insert_batch begin with nothing resolved, or end it.
LEMMA ResultStep ==
    ASSUME StoreInv, [Next]_vars, KeepHandle = FALSE
    PROVE  ResultPart'
<1>1. CASE \E b \in Batches : InsertBegin(b)
  <2>1. UNCHANGED <<result, pending>> /\ result = << >> /\ pending = EmptyTable
    BY <1>1 DEF InsertBegin, StoreInv, PairInv, Consistent, PendingPart, Inserting
  <2>2. DOMAIN result' = {} /\ \A r \in RowIds : pending'[r] = NoRec
    BY <2>1 DEF EmptyTable
  <2> QED
    BY <2>2 DEF ResultPart
<1>2. CASE CommitError
  BY <1>2 DEF CommitError, StoreInv, ResultPart, Inserting, RowsOfHash, LiveRows
<1>3. CASE AppendError \/ CommitBatch \/ Rollback \/ RollbackError
  BY <1>3 DEF AppendError, CommitBatch, Rollback, RollbackError, ResultPart, Inserting
<1>4. CASE MetadataStep
  BY <1>4 DEF MetadataStep, Tombstone, RekeyFile, SetIndexedCommit, ResultPart, Inserting
<1>5. CASE CompactStep
  BY <1>5 DEF CompactStep, CompactBegin, CompactCopy, CompactError, PublishManifest, ReopenPair,
              ReopenError, RemoveOldPair, ResultPart, Inserting
<1>6. CASE OpenStepOrKill
  BY <1>6 DEF OpenStepOrKill, CreateMatrix, CreateDb, CreateVersion, Open, Close, Kill,
              ResultPart, Inserting
<1>7. CASE UNCHANGED vars
  BY <1>7 DEF vars, StoreInv, ResultPart, Inserting, RowsOfHash, LiveRows
<1> QED
  BY <1>1, <1>2, <1>3, <1>4, <1>5, <1>6, <1>7, ReuseRowResult, AppendRowResult
  DEF Next, MetadataStep, CompactStep, OpenStepOrKill

-----------------------------------------------------------------------------
\* What the pair under construction was copied from.

\* compact copies every live row, in order, and the commit.
LEMMA CompactCopyCopies ==
    ASSUME StoreInv, CompactCopy
    PROVE  CopyPart'
<1>1. PICK m \in LiveRowsInOrder(cur), n \in 0 .. MaxRows :
         /\ DOMAIN m = 0 .. (n - 1)
         /\ mapping' = m
         /\ chunks' = [chunks EXCEPT ![target] =
                         [r \in RowIds |-> IF r \in DOMAIN m THEN chunks[cur][m[r]] ELSE NoRec]]
         /\ data' = [data EXCEPT ![target] =
                         [r \in RowIds |-> IF r \in DOMAIN m THEN data[cur][m[r]] ELSE ZeroVec]]
  BY DEF CompactCopy
<1>2. /\ pc' = "publish" /\ target' = target /\ cur' = cur
      /\ cur = manifest /\ target # cur /\ target \in Generations /\ cur \in Generations
      /\ chunks \in [Generations -> [RowIds -> Records \cup {NoRec}]]
      /\ data \in [Generations -> [RowIds -> Hashes \cup {ZeroVec}]]
      /\ indexed \in [Generations -> Commits \cup {NoCommit}]
      /\ indexed' = [indexed EXCEPT ![target] = indexed[cur]]
  BY DEF CompactCopy, StoreInv, PairInv, TypeOK, CompactType, DiskType, HandleType, Consistent,
         HandlePart
<1>3. /\ m \in [0 .. (n - 1) -> LiveRows(cur)]
      /\ \A i, j \in 0 .. (n - 1) : i < j => m[i] < m[j]
      /\ \A r \in LiveRows(cur) : \E i \in 0 .. (n - 1) : m[i] = r
  BY <1>1 DEF LiveRowsInOrder
<1>4. 0 .. (n - 1) \subseteq RowIds
  BY DEF RowIds
<1>5. \A r \in LiveRows(cur) : r \in RowIds /\ chunks[cur][r] # NoRec /\ r \in Int
  BY DEF LiveRows, RowIds
<1>6. \A r \in RowIds : /\ chunks'[target][r] = IF r \in 0 .. (n - 1) THEN chunks[cur][m[r]] ELSE NoRec
                        /\ data'[target][r] = IF r \in 0 .. (n - 1) THEN data[cur][m[r]] ELSE ZeroVec
  BY <1>1, <1>2
<1>7. chunks'[cur] = chunks[cur] /\ data'[cur] = data[cur] /\ indexed'[target] = indexed'[cur]
  BY <1>1, <1>2
<1>8. DOMAIN mapping' = MetaRows(target)'
  BY <1>1, <1>2, <1>3, <1>4, <1>5, <1>6 DEF MetaRows
<1>9. { mapping'[i] : i \in DOMAIN mapping' } = LiveRows(cur)'
  <2>1. LiveRows(cur)' = LiveRows(cur)
    BY <1>2, <1>7 DEF LiveRows
  <2> QED
    BY <1>1, <1>3, <2>1
<1>10. \A i, j \in DOMAIN mapping' : i # j => mapping'[i] # mapping'[j]
  <2> SUFFICES ASSUME NEW i \in 0 .. (n - 1), NEW j \in 0 .. (n - 1), i # j PROVE m[i] # m[j]
    BY <1>1
  <2>1. m[i] \in Int /\ m[j] \in Int /\ (i < j \/ j < i)
    BY <1>3, <1>5
  <2> QED
    BY <1>3, <2>1
<1>11. \A i \in DOMAIN mapping' : /\ chunks'[target][i] = chunks'[cur][mapping'[i]]
                                  /\ data'[target][i] = data'[cur][mapping'[i]]
  BY <1>1, <1>4, <1>6, <1>7
<1> QED
  BY <1>2, <1>7, <1>8, <1>9, <1>10, <1>11 DEF CopyPart, Copied

\* A step that leaves both pairs and the mapping alone leaves the copy complete.
LEMMA CopyKept ==
    ASSUME NEW g, NEW h, Copied(g, h), UNCHANGED <<chunks, data, indexed, mapping>>
    PROVE  Copied(g, h)'
BY DEF Copied, MetaRows, LiveRows

\* Until compact returns, the new pair stays a copy of the old one.
LEMMA CopyStep ==
    ASSUME StoreInv, [Next]_vars, KeepHandle = FALSE
    PROVE  CopyPart'
<1>1. CASE PublishManifest
  <2>1. pc = "publish" /\ pc' = "reopen" /\ UNCHANGED <<chunks, data, indexed, mapping, cur, target>>
    BY <1>1 DEF PublishManifest
  <2>2. Copied(cur, target)'
    BY <2>1, CopyKept DEF StoreInv, CopyPart
  <2> QED
    BY <2>1, <2>2 DEF CopyPart
<1>2. CASE ReopenPair
  <2>1. /\ pc = "reopen" /\ pc' = "cleanup" /\ UNCHANGED <<chunks, data, indexed, mapping>>
        /\ cur' = target /\ target' = cur
    BY <1>2 DEF ReopenPair
  <2>2. Copied(cur, target)
    BY <2>1 DEF StoreInv, CopyPart
  <2>3. Copied(target, cur)'
    BY <2>1, <2>2 DEF Copied, MetaRows, LiveRows
  <2> QED
    BY <2>1, <2>3 DEF CopyPart
<1>3. CASE \/ \E g \in Generations : CompactBegin(g)
           \/ CompactError \/ ReopenError \/ RemoveOldPair
  BY <1>3 DEF CompactBegin, CompactError, ReopenError, RemoveOldPair, CopyPart
<1>4. CASE InsertStep
  BY <1>4 DEF InsertStep, InsertBegin, ReuseRow, AppendRow, AppendError, CommitBatch, CommitError,
              Rollback, RollbackError, CopyPart
<1>5. CASE MetadataStep
  BY <1>5 DEF MetadataStep, Tombstone, RekeyFile, SetIndexedCommit, CopyPart
<1>6. CASE OpenStepOrKill
  BY <1>6 DEF OpenStepOrKill, CreateMatrix, CreateDb, CreateVersion, Open, Close, Kill, CopyPart
<1>7. CASE UNCHANGED vars
  BY <1>7 DEF vars, StoreInv, CopyPart, Copied, MetaRows, LiveRows
<1> QED
  BY <1>1, <1>2, <1>3, <1>4, <1>5, <1>6, <1>7, CompactCopyCopies
  DEF Next, InsertStep, MetadataStep, OpenStepOrKill

\* Initially nothing is being inserted or copied.
LEMMA InitStore == Init => ResultPart /\ CopyPart
BY DEF Init, ResultPart, CopyPart, Inserting

\* StoreInv is inductive: the published pair is sound, what a batch has resolved is
\* what will land, and the pair compact switches to is a copy of the live rows.
THEOREM StoreInvariance ==
    ASSUME KeepHandle = FALSE
    PROVE  Spec => []StoreInv
<1>1. Init => ResultPart /\ CopyPart
  BY InitStore
<1>2. PairInv /\ ResultPart /\ CopyPart /\ [Next]_vars => ResultPart' /\ CopyPart'
  BY ResultStep, CopyStep DEF StoreInv
<1>3. StoreInv <=> PairInv /\ ResultPart /\ CopyPart
  BY DEF StoreInv
<1> QED
  BY <1>1, <1>2, <1>3, Invariance, PTL DEF Spec

-----------------------------------------------------------------------------
\* What a step leaves alone.

\* The steps that write nothing in the published pair but the commit: they work on
\* the handle, on another pair or on the matrix header.
Elsewhere ==
    \/ CreateMatrix \/ CreateDb \/ CreateVersion \/ Open \/ Close \/ Kill
    \/ \E b \in Batches : InsertBegin(b)
    \/ ReuseRow \/ AppendError \/ CommitError \/ Rollback \/ RollbackError
    \/ \E g \in Generations : CompactBegin(g)
    \/ CompactCopy \/ CompactError \/ ReopenPair \/ ReopenError \/ RemoveOldPair

\* The published pair after one of them.
LEMMA ElsewhereFrame ==
    ASSUME PairInv, Elsewhere
    PROVE  /\ manifest' = manifest
           /\ chunks'[manifest] = chunks[manifest]
           /\ data'[manifest] = data[manifest]
           /\ indexed'[manifest] = indexed[manifest]
<1>1. /\ manifest \in Generations
      /\ chunks \in [Generations -> [RowIds -> Records \cup {NoRec}]]
      /\ data \in [Generations -> [RowIds -> Hashes \cup {ZeroVec}]]
      /\ indexed \in [Generations -> Commits \cup {NoCommit}]
  BY DEF PairInv, TypeOK, DiskType
<1>2. ASSUME NEW g \in Generations, CompactBegin(g)
      PROVE  /\ manifest' = manifest
             /\ chunks'[manifest] = chunks[manifest]
             /\ data'[manifest] = data[manifest]
             /\ indexed'[manifest] = indexed[manifest]
  <2>1. g # manifest
    BY <1>2 DEF CompactBegin, PairInv, Consistent, FilesPart, Creating
  <2> QED
    BY <1>1, <1>2, <2>1 DEF CompactBegin
<1>3. CASE CompactCopy
  <2>1. target # manifest
    BY <1>3 DEF CompactCopy, PairInv, Consistent, HandlePart
  <2> QED
    BY <1>1, <1>3, <2>1 DEF CompactCopy
<1>4. CASE RemoveOldPair
  <2>1. target # manifest /\ oldDb = target
    BY <1>4 DEF RemoveOldPair, PairInv, Consistent, HandlePart
  <2>2. data' = data \/ data' = [data EXCEPT ![target] = EmptyMatrix]
    BY <1>4 DEF RemoveOldPair, RemoveMatrix
  <2>3. \/ UNCHANGED <<chunks, indexed>>
        \/ /\ chunks' = [chunks EXCEPT ![target] = EmptyTable]
           /\ indexed' = [indexed EXCEPT ![target] = NoCommit]
    BY <1>4, <2>1 DEF RemoveOldPair, RemoveDb
  <2> QED
    BY <1>1, <1>4, <2>1, <2>2, <2>3 DEF RemoveOldPair
<1>5. CASE ~CompactCopy /\ ~RemoveOldPair /\ ~\E g \in Generations : CompactBegin(g)
  BY <1>5 DEF Elsewhere, CreateMatrix, CreateDb, CreateVersion, Open, Close, Kill, InsertBegin,
              ReuseRow, AppendError, CommitError, Rollback, RollbackError, CompactError,
              ReopenPair, ReopenError
<1> QED
  BY <1>2, <1>3, <1>4, <1>5

\* The rows of the batch in progress have no metadata yet.
LEMMA BatchRowsAreNew ==
    ASSUME PairInv, pc = "append"
    PROVE  /\ \A r \in MetaRows(manifest) : r # rows[manifest] /\ pending[r] = NoRec
           /\ \A r \in RowIds : pending[r] # NoRec => pending[r] \in Records /\ pending[r].live
<1>1. Inserting /\ rows[manifest] \in Nat /\ before \in Nat
  BY DEF PairInv, TypeOK, DiskType, InsertType, Inserting
<1>2. Prefix(manifest, before) /\ before <= rows[manifest]
  BY <1>1 DEF PairInv, Consistent, RowsPart
<1>3. /\ \A r \in RowIds : pending[r] # NoRec <=> (before <= r /\ r < rows[manifest])
      /\ \A r \in RowIds : pending[r] # NoRec => pending[r].live
  BY <1>1 DEF PairInv, Consistent, PendingPart
<1>4. pending \in [RowIds -> Records \cup {NoRec}]
  BY DEF PairInv, TypeOK, InsertType
<1> QED
  BY <1>1, <1>2, <1>3, <1>4 DEF MetaRows, Prefix, RowIds

\* The published table after a commit.
LEMMA CommitTable ==
    ASSUME PairInv, CommitBatch
    PROVE  /\ cur = manifest /\ cur' = cur /\ manifest' = manifest
           /\ UNCHANGED <<data, indexed>>
           /\ \A r \in RowIds : chunks'[manifest][r] =
                 IF pending[r] # NoRec THEN pending[r] ELSE chunks[manifest][r]
BY DEF CommitBatch, PairInv, TypeOK, DiskType, Consistent, HandlePart

\* The published table after a transaction on the open pair.
LEMMA UpdateTable ==
    ASSUME PairInv, pc = "idle", NEW t, chunks' = [chunks EXCEPT ![cur] = t]
    PROVE  cur = manifest /\ chunks'[manifest] = t
BY DEF PairInv, TypeOK, DiskType, HandleType, Consistent, HandlePart

\* The published table after a tombstone.
LEMMA TombstoneTable ==
    ASSUME PairInv, NEW gone, Tombstone(gone), NEW r \in RowIds
    PROVE  chunks'[manifest][r] = IF r \in gone \cap LiveRows(cur)
                                  THEN [chunks[cur][r] EXCEPT !.live = FALSE]
                                  ELSE chunks[cur][r]
<1> DEFINE t == [q \in RowIds |-> IF q \in gone \cap LiveRows(cur)
                                  THEN [chunks[cur][q] EXCEPT !.live = FALSE]
                                  ELSE chunks[cur][q]]
<1>1. chunks' = [chunks EXCEPT ![cur] = t] /\ pc = "idle"
  BY DEF Tombstone
<1> HIDE DEF t
<1>2. chunks'[manifest] = t
  BY <1>1, UpdateTable
<1> QED
  BY <1>2 DEF t

\* The published table after a rekey.
LEMMA RekeyTable ==
    ASSUME PairInv, NEW from, NEW to, RekeyFile(from, to), NEW r \in RowIds
    PROVE  chunks'[manifest][r] = IF r \in LiveRows(cur) /\ chunks[cur][r].file = from
                                  THEN [chunks[cur][r] EXCEPT !.file = to]
                                  ELSE chunks[cur][r]
<1> DEFINE t == [q \in RowIds |-> IF q \in LiveRows(cur) /\ chunks[cur][q].file = from
                                  THEN [chunks[cur][q] EXCEPT !.file = to]
                                  ELSE chunks[cur][q]]
<1>1. chunks' = [chunks EXCEPT ![cur] = t] /\ pc = "idle"
  BY DEF RekeyFile
<1> HIDE DEF t
<1>2. chunks'[manifest] = t
  BY <1>1, UpdateTable
<1> QED
  BY <1>2 DEF t

-----------------------------------------------------------------------------
\* The theorems.

\* compact's row mapping is a bijection of the live rows onto the new pair's rows
\* that carries record and vector along, while it holds both pairs.
THEOREM CompactionAlwaysMaps ==
    ASSUME KeepHandle = FALSE
    PROVE  Spec => []CompactionMapsRows
<1>1. StoreInv => CompactionMapsRows
  BY DEF StoreInv, CopyPart, Copied, CompactionMapsRows
<1> QED
  BY <1>1, StoreInvariance, PTL

\* Row numbers stay good: while a pair stays published no step moves a row's
\* content or vector, revives it or removes it.
THEOREM RowsStay ==
    ASSUME KeepHandle = FALSE
    PROVE  Spec => RowsNeverMove
<1>1. ASSUME PairInv, [Next]_vars
      PROVE  [manifest' = manifest =>
                \A r \in MetaRows(manifest) :
                   /\ chunks'[manifest][r] # NoRec
                   /\ chunks'[manifest][r].hash = chunks[manifest][r].hash
                   /\ chunks'[manifest][r].live => chunks[manifest][r].live
                   /\ data'[manifest][r] = data[manifest][r]]_vars
  <2> SUFFICES ASSUME manifest' = manifest, Next, NEW r \in MetaRows(manifest)
               PROVE  /\ chunks'[manifest][r] # NoRec
                      /\ chunks'[manifest][r].hash = chunks[manifest][r].hash
                      /\ chunks'[manifest][r].live => chunks[manifest][r].live
                      /\ data'[manifest][r] = data[manifest][r]
    BY <1>1
  <2>0. /\ manifest \in Generations /\ r \in RowIds
        /\ chunks[manifest][r] \in Records /\ chunks[manifest][r] # NoRec
        /\ data \in [Generations -> [RowIds -> Hashes \cup {ZeroVec}]]
    BY <1>1 DEF PairInv, TypeOK, DiskType, MetaRows
  <2>1. CASE Elsewhere
    BY <1>1, <2>0, <2>1, ElsewhereFrame
  <2>2. CASE AppendRow
    <3>1. cur = manifest /\ r # rows[cur] /\ chunks' = chunks
      BY <1>1, <2>2, BatchRowsAreNew DEF AppendRow, PairInv, Consistent, HandlePart
    <3>2. data'[manifest][r] = data[manifest][r]
      BY <2>0, <2>2, <3>1 DEF AppendRow
    <3> QED
      BY <2>0, <3>1, <3>2
  <2>3. CASE CommitBatch
    <3>1. pending[r] = NoRec
      BY <1>1, <2>3, BatchRowsAreNew DEF CommitBatch
    <3> QED
      BY <1>1, <2>0, <2>3, <3>1, CommitTable
  <2>4. ASSUME NEW gone \in SUBSET RowIds, Tombstone(gone)
        PROVE  /\ chunks'[manifest][r] # NoRec
               /\ chunks'[manifest][r].hash = chunks[manifest][r].hash
               /\ chunks'[manifest][r].live => chunks[manifest][r].live
               /\ data'[manifest][r] = data[manifest][r]
    <3>1. cur = manifest /\ data' = data
      BY <1>1, <2>4 DEF Tombstone, PairInv, Consistent, HandlePart
    <3>2. chunks'[manifest][r] = IF r \in gone \cap LiveRows(cur)
                                 THEN [chunks[cur][r] EXCEPT !.live = FALSE]
                                 ELSE chunks[cur][r]
      BY <1>1, <2>0, <2>4, TombstoneTable
    <3>3. /\ [chunks[manifest][r] EXCEPT !.live = FALSE] \in Records
          /\ [chunks[manifest][r] EXCEPT !.live = FALSE].hash = chunks[manifest][r].hash
          /\ ~[chunks[manifest][r] EXCEPT !.live = FALSE].live
      BY <2>0 DEF Records
    <3>4. [chunks[manifest][r] EXCEPT !.live = FALSE] # NoRec
      BY <3>3
    <3> QED
      BY <2>0, <3>1, <3>2, <3>3, <3>4
  <2>5. ASSUME NEW from \in Files, NEW to \in Files, RekeyFile(from, to)
        PROVE  /\ chunks'[manifest][r] # NoRec
               /\ chunks'[manifest][r].hash = chunks[manifest][r].hash
               /\ chunks'[manifest][r].live => chunks[manifest][r].live
               /\ data'[manifest][r] = data[manifest][r]
    <3>1. cur = manifest /\ data' = data
      BY <1>1, <2>5 DEF RekeyFile, PairInv, Consistent, HandlePart
    <3>2. chunks'[manifest][r] = IF r \in LiveRows(cur) /\ chunks[cur][r].file = from
                                 THEN [chunks[cur][r] EXCEPT !.file = to]
                                 ELSE chunks[cur][r]
      BY <1>1, <2>0, <2>5, RekeyTable
    <3>3. /\ [chunks[manifest][r] EXCEPT !.file = to] \in Records
          /\ [chunks[manifest][r] EXCEPT !.file = to].hash = chunks[manifest][r].hash
          /\ [chunks[manifest][r] EXCEPT !.file = to].live = chunks[manifest][r].live
      BY <2>0 DEF Records
    <3>4. [chunks[manifest][r] EXCEPT !.file = to] # NoRec
      BY <3>3
    <3> QED
      BY <2>0, <3>1, <3>2, <3>3, <3>4
  <2>6. ASSUME NEW c \in Commits, SetIndexedCommit(c)
        PROVE  UNCHANGED <<chunks, data>>
    BY <2>6 DEF SetIndexedCommit
  <2>7. ~PublishManifest
    BY <1>1 DEF PublishManifest, PairInv, Consistent, HandlePart
  <2> QED
    BY <2>0, <2>1, <2>2, <2>3, <2>4, <2>5, <2>6, <2>7 DEF Next, Elsewhere
<1> QED
  BY <1>1, Invariance, PTL DEF Spec, RowsNeverMove

\* A batch that commits returns, for each input, a live row that carries its
\* content.
THEOREM InsertedRowsAreRight ==
    ASSUME KeepHandle = FALSE
    PROVE  Spec => InsertReturnsRows
<1>1. ASSUME StoreInv, [Next]_vars
      PROVE  [(pc = "append" /\ Resolved /\ pc' = "idle") =>
                \A i \in DOMAIN batch :
                   /\ result[i] \in LiveRows(cur)'
                   /\ chunks'[cur][result[i]].hash = batch[i].hash]_vars
  <2> SUFFICES ASSUME pc = "append", Resolved, pc' = "idle", Next,
                      NEW i \in DOMAIN batch
               PROVE  /\ result[i] \in LiveRows(cur)'
                      /\ chunks'[cur][result[i]].hash = batch[i].hash
    BY <1>1
  <2>1. CommitBatch
    BY DEF Next, CreateMatrix, CreateDb, CreateVersion, Open, Close, InsertBegin, ReuseRow, AppendRow,
           AppendError, CommitError, Rollback, RollbackError, Tombstone, RekeyFile, SetIndexedCommit,
           CompactBegin, CompactCopy, CompactError, PublishManifest, ReopenPair, ReopenError,
           RemoveOldPair, Kill
  <2>2. PairInv /\ ResultPart /\ Inserting
    BY <1>1 DEF StoreInv, Inserting
  <2>3. i \in DOMAIN result /\ result[i] \in RowIds
    BY <2>1, <2>2, InsertingTypes DEF CommitBatch, Resolved
  <2>4. \/ pending[result[i]] # NoRec /\ pending[result[i]].hash = batch[i].hash
        \/ result[i] \in RowsOfHash(manifest, batch[i].hash)
    BY <2>2, <2>3 DEF ResultPart
  <2>5. /\ chunks'[manifest][result[i]] # NoRec
        /\ chunks'[manifest][result[i]].live
        /\ chunks'[manifest][result[i]].hash = batch[i].hash
    <3>1. CASE pending[result[i]] # NoRec /\ pending[result[i]].hash = batch[i].hash
      BY <2>1, <2>2, <2>3, <3>1, CommitTable, BatchRowsAreNew
    <3>2. CASE result[i] \in RowsOfHash(manifest, batch[i].hash)
      <4>1. /\ result[i] \in MetaRows(manifest)
            /\ chunks[manifest][result[i]].live
            /\ chunks[manifest][result[i]].hash = batch[i].hash
        BY <3>2 DEF RowsOfHash, LiveRows, MetaRows
      <4>2. pending[result[i]] = NoRec
        BY <2>2, <4>1, BatchRowsAreNew
      <4> QED
        BY <2>1, <2>2, <2>3, <4>1, <4>2, CommitTable DEF MetaRows
    <3> QED
      BY <2>4, <3>1, <3>2
  <2> QED
    BY <2>1, <2>2, <2>3, <2>5, CommitTable DEF LiveRows
<1> QED
  BY <1>1, StoreInvariance, PTL DEF Spec, InsertReturnsRows

-----------------------------------------------------------------------------
\* The refinement: what a client sees, and how each step changes it.

\* The live chunks of the published pair: ChunkSet's live.
Live == { Shown(manifest, r) : r \in LiveRows(manifest) }

\* A step that changes none of what a client sees.
LEMMA StutterMaps ==
    ASSUME Live' = Live, indexed'[manifest'] = indexed[manifest], batch' = batch
    PROVE  [Abstract!Next]_(Abstract!vars)
BY DEF Live, Shown, Abstract!vars

\* The live chunks stay when the published pair's tables do.
LEMMA SameTables ==
    ASSUME manifest' = manifest, chunks'[manifest] = chunks[manifest],
           data'[manifest] = data[manifest]
    PROVE  Live' = Live
BY DEF Live, Shown, LiveRows

\* insert_batch begins: the client has asked for a batch.
LEMMA InsertBeginMaps ==
    ASSUME StoreInv, NEW b \in Batches, InsertBegin(b)
    PROVE  [Abstract!Next]_(Abstract!vars)
<1>1. PairInv /\ Elsewhere
  BY DEF StoreInv, Elsewhere
<1>2. Live' = Live /\ indexed'[manifest'] = indexed[manifest]
  BY <1>1, ElsewhereFrame, SameTables
<1>3. batch = << >> /\ batch' = b
  BY <1>1 DEF InsertBegin, PairInv, Consistent, PendingPart, Inserting
<1>4. Abstract!Ask(b)
  BY <1>2, <1>3 DEF Live, Shown, Abstract!Ask
<1> QED
  BY <1>4 DEF Abstract!Next

\* insert_batch gives up: the batch is lost as a whole.
LEMMA LoseMaps ==
    ASSUME StoreInv, AppendError \/ Rollback \/ RollbackError \/ (Kill /\ Inserting)
    PROVE  [Abstract!Next]_(Abstract!vars)
<1>1. PairInv /\ Elsewhere /\ Inserting
  BY DEF StoreInv, Elsewhere, Inserting, AppendError, Rollback, RollbackError
<1>2. Live' = Live /\ indexed'[manifest'] = indexed[manifest]
  BY <1>1, ElsewhereFrame, SameTables
<1>3. batch # << >> /\ batch' = << >>
  BY <1>1 DEF PairInv, Consistent, PendingPart, AppendError, Rollback, RollbackError, Kill,
              ClearInsert
<1>4. Abstract!Lose
  BY <1>2, <1>3 DEF Live, Shown, Abstract!Lose
<1> QED
  BY <1>4 DEF Abstract!Next

\* The steps a client sees nothing of.
LEMMA InvisibleMaps ==
    ASSUME StoreInv,
           \/ CreateMatrix \/ CreateDb \/ CreateVersion \/ Open \/ Close
           \/ Kill /\ ~Inserting
           \/ ReuseRow \/ CommitError
           \/ \E g \in Generations : CompactBegin(g)
           \/ CompactCopy \/ CompactError \/ ReopenPair \/ ReopenError \/ RemoveOldPair
    PROVE  [Abstract!Next]_(Abstract!vars)
<1>1. PairInv /\ Elsewhere
  BY DEF StoreInv, Elsewhere
<1>2. Live' = Live /\ indexed'[manifest'] = indexed[manifest]
  BY <1>1, ElsewhereFrame, SameTables
<1>3. batch' = batch
  <2>1. CASE Kill /\ ~Inserting
    BY <1>1, <2>1 DEF Kill, ClearInsert, PairInv, Consistent, PendingPart
  <2>2. CASE ~(Kill /\ ~Inserting)
    BY <2>2 DEF CreateMatrix, CreateDb, CreateVersion, Open, Close, ReuseRow, CommitError,
                CompactBegin, CompactCopy, CompactError, ReopenPair, ReopenError, RemoveOldPair
  <2> QED
    BY <2>1, <2>2
<1> QED
  BY <1>2, <1>3, StutterMaps

\* A vector appended to the matrix is not live before its record is committed.
LEMMA AppendRowMaps ==
    ASSUME StoreInv, AppendRow
    PROVE  [Abstract!Next]_(Abstract!vars)
<1>1. PairInv /\ pc = "append"
  BY DEF StoreInv, AppendRow
<1>2. /\ cur = manifest /\ manifest \in Generations
      /\ data \in [Generations -> [RowIds -> Hashes \cup {ZeroVec}]]
      /\ UNCHANGED <<manifest, chunks, indexed, batch>>
      /\ data' = [data EXCEPT ![cur][rows[cur]] = Item.hash]
  BY <1>1 DEF AppendRow, PairInv, TypeOK, DiskType, Consistent, HandlePart
<1>3. \A r \in LiveRows(manifest) : r \in RowIds /\ r # rows[manifest]
  BY <1>1, BatchRowsAreNew DEF LiveRows, MetaRows
<1>4. \A r \in LiveRows(manifest) : data'[manifest][r] = data[manifest][r]
  BY <1>2, <1>3
<1>5. LiveRows(manifest)' = LiveRows(manifest)
  BY <1>2 DEF LiveRows
<1>6. Live' = Live
  BY <1>2, <1>4, <1>5 DEF Live, Shown
<1> QED
  BY <1>2, <1>6, StutterMaps

\* Switching the manifest shows the same chunks: each live row of the old pair is
\* a row of the new one, and there are no others.
LEMMA PublishMaps ==
    ASSUME StoreInv, PublishManifest
    PROVE  [Abstract!Next]_(Abstract!vars)
<1>1. /\ cur = manifest /\ manifest' = target
      /\ UNCHANGED <<chunks, data, indexed, batch>>
      /\ Copied(cur, target)
  BY DEF PublishManifest, StoreInv, CopyPart, PairInv, Consistent, HandlePart
<1>2. LiveRows(target) = DOMAIN mapping
  <2>1. \A i \in DOMAIN mapping : mapping[i] \in LiveRows(cur) /\ i \in MetaRows(target)
    BY <1>1 DEF Copied
  <2>2. \A i \in DOMAIN mapping : i \in LiveRows(target)
    BY <1>1, <2>1 DEF Copied, LiveRows, MetaRows
  <2> QED
    BY <1>1, <2>2 DEF Copied, LiveRows, MetaRows
<1>3. \A i \in DOMAIN mapping : Shown(target, i) = Shown(cur, mapping[i])
  BY <1>1 DEF Copied, Shown
<1>4. { mapping[i] : i \in DOMAIN mapping } = LiveRows(cur)
  BY <1>1 DEF Copied
<1>5. { Shown(target, i) : i \in LiveRows(target) } = { Shown(cur, r) : r \in LiveRows(cur) }
  <2>1. ASSUME NEW i \in LiveRows(target)
        PROVE  \E r \in LiveRows(cur) : Shown(target, i) = Shown(cur, r)
    BY <1>2, <1>3, <1>4
  <2>2. ASSUME NEW r \in LiveRows(cur)
        PROVE  \E i \in LiveRows(target) : Shown(cur, r) = Shown(target, i)
    <3>1. PICK i \in DOMAIN mapping : r = mapping[i]
      BY <1>4
    <3> QED
      BY <1>2, <1>3, <3>1
  <2> QED
    BY <2>1, <2>2
<1>6. Live' = { Shown(target, i) : i \in LiveRows(target) }
  BY <1>1 DEF Live, Shown, LiveRows
<1>7. Live' = Live /\ indexed'[manifest'] = indexed[manifest]
  <2>1. Live = { Shown(cur, r) : r \in LiveRows(cur) }
    BY <1>1 DEF Live
  <2>2. indexed'[manifest'] = indexed[manifest]
    BY <1>1 DEF Copied
  <2> QED
    BY <1>5, <1>6, <2>1, <2>2
<1> QED
  BY <1>1, <1>7, StutterMaps

\* Two live rows show different chunks.
LEMMA ShownApart ==
    ASSUME PairInv, NEW r \in LiveRows(manifest), NEW q \in LiveRows(manifest),
           Shown(manifest, r) = Shown(manifest, q)
    PROVE  r = q
<1>1. chunks[manifest][r].hash = chunks[manifest][q].hash
  BY DEF Shown
<1> QED
  BY <1>1 DEF PairInv, Consistent, Unique, LiveRows

\* A tombstone removes chunks.
LEMMA TombstoneMaps ==
    ASSUME StoreInv, NEW gone \in SUBSET RowIds, Tombstone(gone)
    PROVE  [Abstract!Next]_(Abstract!vars)
<1> DEFINE out == { Shown(manifest, r) : r \in gone \cap LiveRows(manifest) }
<1>1. /\ PairInv /\ pc = "idle" /\ cur = manifest
      /\ UNCHANGED <<manifest, data, indexed, batch>>
      /\ batch = << >>
  BY DEF StoreInv, Tombstone, PairInv, Consistent, HandlePart, PendingPart, Inserting
<1>2. \A r \in RowIds : chunks[manifest][r] \in Records \cup {NoRec}
  BY <1>1 DEF PairInv, TypeOK, DiskType
<1>3. \A r \in LiveRows(manifest) :
         /\ r \in RowIds
         /\ chunks[manifest][r] \in Records
         /\ [chunks[manifest][r] EXCEPT !.live = FALSE].live = FALSE
  BY <1>2 DEF LiveRows, Records
<1>4. LiveRows(manifest)' = LiveRows(manifest) \ gone
  <2>1. ASSUME NEW r \in RowIds
        PROVE  r \in LiveRows(manifest)' <=> r \in LiveRows(manifest) \ gone
    <3>1. CASE r \in gone \cap LiveRows(manifest)
      <4>1. chunks'[manifest][r] = [chunks[manifest][r] EXCEPT !.live = FALSE]
        BY <1>1, <3>1, TombstoneTable
      <4> QED
        BY <1>1, <1>3, <3>1, <4>1 DEF LiveRows
    <3>2. CASE r \notin gone \cap LiveRows(manifest)
      <4>1. chunks'[manifest][r] = chunks[manifest][r]
        BY <1>1, <3>2, TombstoneTable
      <4> QED
        BY <1>1, <3>2, <4>1 DEF LiveRows
    <3> QED
      BY <3>1, <3>2
  <2> QED
    BY <2>1 DEF LiveRows
<1>5. \A r \in LiveRows(manifest) \ gone : Shown(manifest, r)' = Shown(manifest, r)
  BY <1>1, <1>3, TombstoneTable DEF Shown
<1>6. Live' = { Shown(manifest, r) : r \in LiveRows(manifest) \ gone }
  <2>1. Live' = { Shown(manifest, r)' : r \in LiveRows(manifest)' }
    BY DEF Live
  <2> QED
    BY <1>4, <1>5, <2>1
<1>7. Live' = Live \ out
  <2>1. ASSUME NEW x PROVE x \in Live' <=> x \in Live \ out
    <3>1. ASSUME x \in Live' PROVE x \in Live \ out
      <4>1. PICK r \in LiveRows(manifest) \ gone : x = Shown(manifest, r)
        BY <1>6, <3>1
      <4>2. x \notin out
        BY <1>1, <4>1, ShownApart
      <4> QED
        BY <4>1, <4>2 DEF Live
    <3>2. ASSUME x \in Live \ out PROVE x \in Live'
      BY <1>6, <3>2 DEF Live
    <3> QED
      BY <3>1, <3>2
  <2> QED
    BY <2>1
<1>8. out \in SUBSET Live
  BY DEF Live
<1> HIDE DEF out
<1>9. Abstract!Remove(out)
  BY <1>1, <1>7 DEF Live, Shown, Abstract!Remove
<1>10. \E x \in SUBSET { [hash |-> chunks[manifest][r].hash,
                          file |-> chunks[manifest][r].file,
                          vec  |-> data[manifest][r]] : r \in LiveRows(manifest) } :
          Abstract!Remove(x)
  <2>1. Live = { [hash |-> chunks[manifest][r].hash,
                  file |-> chunks[manifest][r].file,
                  vec  |-> data[manifest][r]] : r \in LiveRows(manifest) }
    BY DEF Live, Shown
  <2>2. out \in SUBSET { [hash |-> chunks[manifest][r].hash,
                          file |-> chunks[manifest][r].file,
                          vec  |-> data[manifest][r]] : r \in LiveRows(manifest) }
    BY <1>8, <2>1
  <2> QED
    BY <1>9, <2>2 DEF Abstract!Remove
<1> QED
  BY <1>10 DEF Abstract!Next

\* A rekey moves the chunks of one file to another.
LEMMA RekeyMaps ==
    ASSUME StoreInv, NEW from \in Files, NEW to \in Files, RekeyFile(from, to)
    PROVE  [Abstract!Next]_(Abstract!vars)
<1> DEFINE Moved(c) == [c EXCEPT !.file = IF c.file = from THEN to ELSE c.file]
<1>1. /\ PairInv /\ pc = "idle" /\ cur = manifest
      /\ UNCHANGED <<manifest, data, indexed, batch>>
      /\ batch = << >>
  BY DEF StoreInv, RekeyFile, PairInv, Consistent, HandlePart, PendingPart, Inserting
<1>2. \A r \in RowIds : chunks[manifest][r] \in Records \cup {NoRec}
  BY <1>1 DEF PairInv, TypeOK, DiskType
<1>3. ASSUME NEW r \in LiveRows(manifest)
      PROVE  /\ chunks'[manifest][r] # NoRec
             /\ chunks'[manifest][r].live
             /\ Shown(manifest, r)' = Moved(Shown(manifest, r))
  <2>1. r \in RowIds /\ chunks[manifest][r] \in Records /\ chunks[manifest][r].live
    BY <1>2 DEF LiveRows
  <2>2. CASE chunks[manifest][r].file = from
    <3>1. chunks'[manifest][r] = [chunks[manifest][r] EXCEPT !.file = to]
      BY <1>1, <2>1, <2>2, RekeyTable
    <3>2. /\ chunks'[manifest][r] \in Records
          /\ chunks'[manifest][r].hash = chunks[manifest][r].hash
          /\ chunks'[manifest][r].live = chunks[manifest][r].live
          /\ chunks'[manifest][r].file = to
      BY <2>1, <3>1 DEF Records
    <3>3. chunks'[manifest][r] # NoRec
      BY <3>2
    <3>4. Shown(manifest, r)' = Moved(Shown(manifest, r))
      BY <1>1, <2>2, <3>2 DEF Shown
    <3> QED
      BY <2>1, <3>2, <3>3, <3>4
  <2>3. CASE chunks[manifest][r].file # from
    <3>1. chunks'[manifest][r] = chunks[manifest][r]
      BY <1>1, <2>1, <2>3, RekeyTable
    <3>2. Shown(manifest, r)' = Moved(Shown(manifest, r))
      BY <1>1, <2>3, <3>1 DEF Shown
    <3> QED
      BY <2>1, <3>1, <3>2
  <2> QED
    BY <2>2, <2>3
<1>4. \A r \in RowIds : r \notin LiveRows(manifest) => chunks'[manifest][r] = chunks[manifest][r]
  BY <1>1, RekeyTable
<1>5. LiveRows(manifest)' = LiveRows(manifest)
  BY <1>1, <1>3, <1>4 DEF LiveRows
<1>6. Live' = { Moved(Shown(manifest, r)) : r \in LiveRows(manifest) }
  <2>1. Live' = { Shown(manifest, r)' : r \in LiveRows(manifest)' }
    BY DEF Live
  <2>2. \A r \in LiveRows(manifest) : Shown(manifest, r)' = Moved(Shown(manifest, r))
    BY <1>3
  <2> HIDE DEF Moved
  <2> QED
    BY <1>5, <2>1, <2>2
<1>7. Live' = { Moved(c) : c \in Live }
  BY <1>6 DEF Live
<1>8. Abstract!Move(from, to)
  BY <1>1, <1>7 DEF Live, Shown, Abstract!Move
<1> QED
  BY <1>8 DEF Abstract!Next

\* set_indexed_commit records a commit.
LEMMA RecordMaps ==
    ASSUME StoreInv, NEW c \in Commits, SetIndexedCommit(c)
    PROVE  [Abstract!Next]_(Abstract!vars)
<1>1. /\ PairInv /\ cur = manifest
      /\ UNCHANGED <<manifest, data, chunks, batch>>
      /\ batch = << >>
      /\ indexed'[manifest] = c
  BY DEF StoreInv, SetIndexedCommit, PairInv, TypeOK, DiskType, Consistent, HandlePart,
         PendingPart, Inserting
<1>2. Live' = Live
  BY <1>1, SameTables
<1>3. Abstract!Record(c)
  BY <1>1, <1>2 DEF Live, Shown, Abstract!Record
<1> QED
  BY <1>3 DEF Abstract!Next

\* The inputs of the batch that land: new content, first in the batch to have it.
First(k) ==
    /\ k \in DOMAIN batch
    /\ \A c \in Live : c.hash # batch[k].hash
    /\ \A j \in DOMAIN batch : j < k => batch[j].hash # batch[k].hash

NewChunk(k) == [hash |-> batch[k].hash, file |-> batch[k].file, vec |-> batch[k].hash]

\* A batch that is completely resolved: each queued record is one that must land,
\* with its vector in place, and each that must land is queued.
LEMMA QueuedIsNovel ==
    ASSUME StoreInv, pc = "append", Resolved
    PROVE  /\ \A r \in RowIds : pending[r] # NoRec =>
                \E k : /\ First(k)
                      /\ [hash |-> pending[r].hash, file |-> pending[r].file,
                          vec |-> data[manifest][r]] = NewChunk(k)
           /\ \A k : First(k) =>
                \E r \in RowIds :
                   /\ pending[r] # NoRec
                   /\ [hash |-> pending[r].hash, file |-> pending[r].file,
                       vec |-> data[manifest][r]] = NewChunk(k)
<1>1. PairInv /\ ResultPart /\ Inserting
  BY DEF StoreInv, Inserting
<1>2. /\ DOMAIN batch = 1 .. Len(batch) /\ DOMAIN result = DOMAIN batch
      /\ Len(batch) \in Nat
      /\ \A k \in DOMAIN result : result[k] \in RowIds
  BY <1>1, InsertingTypes DEF Resolved
<1>3. \A r \in RowIds : pending[r] # NoRec =>
         /\ data[manifest][r] = pending[r].hash
         /\ \A q \in RowIds : (chunks[manifest][q] # NoRec /\ chunks[manifest][q].live)
                               => chunks[manifest][q].hash # pending[r].hash
  BY <1>1 DEF PairInv, Consistent, PendingPart
<1>4. ASSUME NEW r \in RowIds, pending[r] # NoRec
      PROVE  \E k \in DOMAIN batch :
                /\ First(k)
                /\ batch[k].hash = pending[r].hash
                /\ [hash |-> pending[r].hash, file |-> pending[r].file,
                    vec |-> data[manifest][r]] = NewChunk(k)
  <2>1. PICK k \in DOMAIN result :
           /\ pending[r] = [hash |-> batch[k].hash, file |-> batch[k].file, live |-> TRUE]
           /\ \A j \in 1 .. (k - 1) : batch[j].hash # batch[k].hash
    BY <1>1, <1>4 DEF ResultPart
  <2>2. pending[r].hash = batch[k].hash /\ pending[r].file = batch[k].file
    BY <2>1
  <2>3. \A c \in Live : c.hash # batch[k].hash
    BY <1>3, <1>4, <2>2 DEF Live, Shown, LiveRows
  <2>4. \A j \in DOMAIN batch : j < k => batch[j].hash # batch[k].hash
    BY <1>2, <2>1
  <2> QED
    BY <1>2, <1>3, <1>4, <2>2, <2>3, <2>4 DEF First, NewChunk
<1>5. ASSUME NEW k, First(k)
      PROVE  \E r \in RowIds :
                /\ pending[r] # NoRec
                /\ [hash |-> pending[r].hash, file |-> pending[r].file,
                    vec |-> data[manifest][r]] = NewChunk(k)
  <2>1. k \in DOMAIN result /\ result[k] \in RowIds
    BY <1>2, <1>5 DEF First
  <2>2. result[k] \notin RowsOfHash(manifest, batch[k].hash)
    <3> SUFFICES ASSUME result[k] \in RowsOfHash(manifest, batch[k].hash) PROVE FALSE
      OBVIOUS
    <3>1. result[k] \in LiveRows(manifest) /\ chunks[manifest][result[k]].hash = batch[k].hash
      BY DEF RowsOfHash
    <3>2. Shown(manifest, result[k]) \in Live /\ Shown(manifest, result[k]).hash = batch[k].hash
      BY <3>1 DEF Live, Shown
    <3> QED
      BY <1>5, <3>2 DEF First
  <2>3. pending[result[k]] # NoRec /\ pending[result[k]].hash = batch[k].hash
    BY <1>1, <2>1, <2>2 DEF ResultPart
  <2>4. PICK i \in DOMAIN batch :
           /\ First(i)
           /\ batch[i].hash = pending[result[k]].hash
           /\ [hash |-> pending[result[k]].hash, file |-> pending[result[k]].file,
               vec |-> data[manifest][result[k]]] = NewChunk(i)
    BY <1>4, <2>1, <2>3
  <2>5. i = k
    BY <1>2, <1>5, <2>3, <2>4 DEF First
  <2> QED
    BY <2>1, <2>3, <2>4, <2>5
<1> QED
  BY <1>4, <1>5

\* The commit of a batch: all of its new content lands at once, with its vectors.
LEMMA CommitMaps ==
    ASSUME StoreInv, CommitBatch
    PROVE  [Abstract!Next]_(Abstract!vars)
<1>1. /\ PairInv /\ pc = "append" /\ Resolved /\ Inserting
      /\ UNCHANGED <<manifest, data, indexed>>
      /\ batch # << >> /\ batch' = << >>
  BY DEF StoreInv, CommitBatch, ClearInsert, PairInv, Consistent, PendingPart, Inserting
<1>2. \A r \in RowIds : chunks'[manifest][r] =
         IF pending[r] # NoRec THEN pending[r] ELSE chunks[manifest][r]
  BY <1>1, CommitTable
<1>3. \A r \in RowIds : pending[r] # NoRec => pending[r].live /\ r \notin LiveRows(manifest)
  BY <1>1, BatchRowsAreNew DEF LiveRows, MetaRows
<1>4. \A r \in RowIds : r \in LiveRows(manifest)' <=> (pending[r] # NoRec \/ r \in LiveRows(manifest))
  BY <1>1, <1>2, <1>3 DEF LiveRows
<1>5. \A r \in LiveRows(manifest) : r \in RowIds /\ Shown(manifest, r)' = Shown(manifest, r)
  BY <1>1, <1>2, <1>3 DEF Shown, LiveRows
<1>6. \A r \in RowIds : pending[r] # NoRec =>
         Shown(manifest, r)' = [hash |-> pending[r].hash, file |-> pending[r].file,
                                vec |-> data[manifest][r]]
  BY <1>1, <1>2 DEF Shown
<1>7. ASSUME NEW x PROVE x \in Live' <=> (x \in Live \/ \E k : First(k) /\ x = NewChunk(k))
  <2>1. x \in Live' <=> \E r \in LiveRows(manifest)' : x = Shown(manifest, r)'
    BY DEF Live
  <2>2. \A r \in LiveRows(manifest)' : r \in RowIds
    BY DEF LiveRows
  <2>3. ASSUME x \in Live' PROVE x \in Live \/ \E k : First(k) /\ x = NewChunk(k)
    <3>1. PICK r \in LiveRows(manifest)' : x = Shown(manifest, r)'
      BY <2>1, <2>3
    <3>2. CASE r \in LiveRows(manifest)
      BY <1>5, <3>1, <3>2 DEF Live
    <3>3. CASE pending[r] # NoRec
      <4>1. PICK k : First(k) /\ [hash |-> pending[r].hash, file |-> pending[r].file,
                                  vec |-> data[manifest][r]] = NewChunk(k)
        BY <1>1, <2>2, <3>3, QueuedIsNovel
      <4> QED
        BY <1>6, <2>2, <3>1, <3>3, <4>1
    <3> QED
      BY <1>4, <2>2, <3>2, <3>3
  <2>4. ASSUME x \in Live PROVE x \in Live'
    <3>1. PICK r \in LiveRows(manifest) : x = Shown(manifest, r)
      BY <2>4 DEF Live
    <3> QED
      BY <1>4, <1>5, <2>1, <3>1
  <2>5. ASSUME NEW k, First(k), x = NewChunk(k) PROVE x \in Live'
    <3>1. PICK r \in RowIds : /\ pending[r] # NoRec
                              /\ [hash |-> pending[r].hash, file |-> pending[r].file,
                                  vec |-> data[manifest][r]] = NewChunk(k)
      BY <1>1, <2>5, QueuedIsNovel
    <3> QED
      BY <1>4, <1>6, <2>1, <2>5, <3>1
  <2> QED
    BY <2>3, <2>4, <2>5
<1>8. Live' = Live \cup { NewChunk(i) : i \in { k \in DOMAIN batch : First(k) } }
  <2>1. \A k : First(k) => k \in DOMAIN batch
    BY DEF First
  <2> QED
    BY <1>7, <2>1
<1>9. Abstract!Novel(batch) = { NewChunk(i) : i \in { k \in DOMAIN batch : First(k) } }
  BY DEF Abstract!Novel, NewChunk, First, Live, Shown
<1>10. Abstract!Land
  <2>1. Live' = Live \cup Abstract!Novel(batch)
    BY <1>8, <1>9
  <2> QED
    BY <1>1, <2>1 DEF Live, Shown, Abstract!Land
<1> QED
  BY <1>10 DEF Abstract!Next

\* The store implements the abstract set of chunks: batches land entirely or not
\* at all, with the vectors of their content, and recovery and compaction are
\* invisible, for any rows, batches, generations and faults.
THEOREM StoreImplementsChunkSet ==
    ASSUME KeepHandle = FALSE
    PROVE  Spec => ImplementsChunkSet
<1>1. Init => Abstract!Init
  BY DEF Init, Abstract!Init, LiveRows, EmptyTable
<1>2. StoreInv /\ [Next]_vars => [Abstract!Next]_(Abstract!vars)
  <2> SUFFICES ASSUME StoreInv, [Next]_vars PROVE [Abstract!Next]_(Abstract!vars)
    OBVIOUS
  <2>1. CASE UNCHANGED vars
    <3>1. /\ manifest' = manifest /\ chunks' = chunks /\ data' = data
          /\ indexed' = indexed /\ batch' = batch
      BY <2>1 DEF vars
    <3> QED
      BY <3>1, SameTables, StutterMaps
  <2>2. CASE Next
    BY <2>2, InsertBeginMaps, LoseMaps, InvisibleMaps, AppendRowMaps, CommitMaps, PublishMaps,
       TombstoneMaps, RekeyMaps, RecordMaps
    DEF Next
  <2> QED
    BY <2>1, <2>2
<1> QED
  BY <1>1, <1>2, StoreInvariance, PTL DEF Spec, ImplementsChunkSet, Abstract!Spec

=============================================================================
