------------------------------ MODULE Indexer ------------------------------
(***************************************************************************)
(* crates/indexing/src/pipeline.rs over a git repository, the chunk store  *)
(* and the lexical index.  A run reads the repository, tombstones and      *)
(* re-keys rows for the changes git reports, re-parses changed files on    *)
(* several threads whose results arrive in any order, embeds and inserts   *)
(* novel chunks batch by batch, records the commit and may compact.  Every *)
(* change is made twice, first to the store and then to the lexical index, *)
(* and a process may be killed in between.                                 *)
(*                                                                         *)
(* The store is the table of ChunkStore with its operations atomic, which  *)
(* ChunkStore implements.  Row r of the model is RowId r - 1.  A commit is *)
(* named by its tree.  A file's content is the set of its chunks' hashes;  *)
(* NoFile is absence, and Opaque a file that is present and yields nothing *)
(* (excluded, too large, binary or not parseable).                         *)
(***************************************************************************)
EXTENDS Integers, Sequences, FiniteSets

CONSTANTS
    Hashes,          \* content hashes of chunks
    Files,           \* repository-relative paths
    NoFile, Opaque,  \* contents without chunks
    Trees,           \* the trees the repository may go through
    NoCommit,        \* indexed_commit is not set
    Policy,          \* IndexConfig::dirty_worktree
    EmbedBatch,      \* IndexConfig::embed_batch
    CompactPercent,  \* IndexConfig::compact_threshold, in percent
    Reindex,         \* may index_all run on a store that has a commit?
    WorktreeEdits,   \* may the worktree be changed without a commit?
    ConcurrentEdits, \* may the repository change while a run is in progress?
    KillPoints,      \* where a run may be killed or return an error
    MaxEdits         \* bound on changes to the repository

ASSUME IndexerAssumption ==
    /\ \A t \in Trees : t \in [Files -> (SUBSET Hashes) \cup {NoFile, Opaque}]
    /\ Policy \in {"Refuse", "IndexWorktree", "IndexCommitOnly"}
    /\ EmbedBatch \in Nat \ {0}
    /\ CompactPercent \in 0 .. 100
    /\ MaxEdits \in Nat
    /\ NoFile # Opaque /\ NoFile \notin Files
    /\ NoCommit \notin [tree : Trees, dirty : BOOLEAN]
    /\ Reindex \in BOOLEAN /\ WorktreeEdits \in BOOLEAN /\ ConcurrentEdits \in BOOLEAN

VARIABLES
    head,        \* the tree of HEAD
    work,        \* the files on disk
    edits,       \* changes to the repository so far
    table,       \* the store's chunks table, as a sequence of records
    lex,         \* the committed documents of the lexical index
    indexed,     \* indexed_commit: a tree and the dirty marker
    pc,          \* where the run is
    dirty,       \* is_dirty, read when the run starts
    changes,     \* the changes of git not yet applied
    items,       \* work: the files to parse, with the source that was read
    existing,    \* the live rows of each work item when parsing starts
    known,       \* known_hashes
    file,        \* the parsed file being consumed
    todo,        \* its chunks not yet looked at
    pending,     \* chunks waiting for the next batch
    owed,        \* the change to the lexical index that follows a store operation
    count        \* IndexReport: live_before, chunks_added, chunks_removed

repoVars == <<head, work, edits>>

indexVars == <<table, lex, indexed>>

runVars == <<dirty, changes, items, existing, known, file, todo, pending, owed, count>>

vars == <<repoVars, indexVars, pc, runVars>>

-----------------------------------------------------------------------------
\* The store and the lexical index.

LiveRows == { r \in DOMAIN table : table[r].live }

LiveHashes == { table[r].hash : r \in LiveRows }

RowsForFile(f) == { r \in LiveRows : table[r].file = f }

\* The documents the lexical index should hold for the live rows.
LiveDocs == { [row |-> r, hash |-> table[r].hash, file |-> table[r].file] : r \in LiveRows }

InSync == Cardinality(lex) = Cardinality(LiveRows)

TombstoneRows(rows) ==
    [r \in DOMAIN table |-> IF r \in rows THEN [table[r] EXCEPT !.live = FALSE] ELSE table[r]]

RekeyRows(rows, f) ==
    [r \in DOMAIN table |-> IF r \in rows THEN [table[r] EXCEPT !.file = f] ELSE table[r]]

\* the members of a finite set of numbers, in ascending order
InOrder(S) == [n \in 1 .. Cardinality(S) |-> CHOOSE k \in S : Cardinality({ j \in S : j <= k }) = n]

LiveRowsInOrder == InOrder(LiveRows)

-----------------------------------------------------------------------------
\* The repository.

Chunks(content) == IF content \in {NoFile, Opaque} THEN {} ELSE content

TreeHashes(t) == UNION { Chunks(t[f]) : f \in Files }

\* is_dirty looks at tracked files only
IsDirty == \E f \in Files : head[f] # NoFile /\ work[f] # head[f]

\* git status --porcelain lists untracked files too
DirtyPaths == { f \in Files : work[f] # head[f] }

\* what read_source sees
Source(f) == IF Policy = "IndexCommitOnly" THEN head[f] ELSE work[f]

\* paths the worktree walk meets
Present == { f \in Files : work[f] # NoFile }

\* a work item exists for a file that can be read and is not excluded
ItemsFor(paths) == { [rel |-> f, src |-> Source(f)] : f \in { p \in paths : Source(p) # NoFile } }

\* Rename tracking pairs deleted with added files of similar content.
Renames(old, new) ==
    LET deleted == { f \in Files : old[f] # NoFile /\ new[f] = NoFile }
        added   == { f \in Files : old[f] = NoFile /\ new[f] # NoFile }
        similar == { p \in deleted \X added :
                       old[p[1]] = new[p[2]] \/ Chunks(old[p[1]]) \cap Chunks(new[p[2]]) # {} }
    IN  { R \in SUBSET similar :
            \A p, q \in R : (p[1] = q[1] \/ p[2] = q[2]) => p = q }

\* changes_since
Diff(old, new, R) ==
    { [kind |-> "renamed", from |-> p[1], to |-> p[2]] : p \in R }
      \cup { [kind |-> "deleted", from |-> f, to |-> f] :
               f \in { x \in Files : old[x] # NoFile /\ new[x] = NoFile /\ \A p \in R : p[1] # x } }
      \cup { [kind |-> "written", from |-> f, to |-> f] :
               f \in { x \in Files : /\ new[x] # NoFile /\ new[x] # old[x]
                                     /\ \A p \in R : p[2] # x } }

-----------------------------------------------------------------------------
NoOwed == [remove |-> {}, add |-> {}, order |-> << >>]

Cleared ==
    /\ dirty' = FALSE /\ changes' = {} /\ items' = {} /\ existing' = {} /\ known' = {}
    /\ file' = NoFile /\ todo' = {} /\ pending' = << >> /\ owed' = NoOwed
    /\ count' = [before |-> 0, added |-> 0, removed |-> 0]

Init ==
    /\ head \in Trees
    /\ work = head
    /\ edits = 0
    /\ table = << >>
    /\ lex = {}
    /\ indexed = NoCommit
    /\ pc = "idle"
    /\ dirty = FALSE /\ changes = {} /\ items = {} /\ existing = {} /\ known = {}
    /\ file = NoFile /\ todo = {} /\ pending = << >> /\ owed = NoOwed
    /\ count = [before |-> 0, added |-> 0, removed |-> 0]

\* The user commits, or edits files without committing.
RepoMayChange == edits < MaxEdits /\ (pc = "idle" \/ ConcurrentEdits)

CommitTree(t) ==
    /\ RepoMayChange
    /\ head' = t /\ work' = t
    /\ edits' = edits + 1
    /\ UNCHANGED <<indexVars, pc, runVars>>

EditWorktree(t) ==
    /\ WorktreeEdits
    /\ RepoMayChange
    /\ work' = t
    /\ edits' = edits + 1
    /\ UNCHANGED <<head, indexVars, pc, runVars>>

-----------------------------------------------------------------------------
\* Starting a run: Indexer::open compares the counts, the dirty policy may refuse.

MayStart == pc = "idle" /\ InSync /\ (IsDirty => Policy # "Refuse")

Begin ==
    /\ dirty' = IsDirty
    /\ count' = [before |-> Cardinality(LiveRows), added |-> 0, removed |-> 0]

IndexAll ==
    /\ MayStart
    /\ indexed # NoCommit => Reindex
    /\ Begin
    /\ items' = ItemsFor(Present)
    /\ pc' = "parse"
    /\ UNCHANGED <<repoVars, indexVars, changes, existing, known, file, todo, pending, owed>>

Update ==
    /\ MayStart
    /\ indexed # NoCommit
    /\ Begin
    /\ items' = IF IsDirty /\ Policy = "IndexWorktree" THEN ItemsFor(DirtyPaths) ELSE {}
    /\ \E R \in Renames(indexed.tree, head) : changes' = Diff(indexed.tree, head, R)
    /\ pc' = "changes"
    /\ UNCHANGED <<repoVars, indexVars, existing, known, file, todo, pending, owed>>

-----------------------------------------------------------------------------
\* apply_file_changes, one change at a time

\* Work items are deduplicated by path, the first one for a path is kept.
AddItem(f) ==
    items' = IF Source(f) = NoFile \/ \E i \in items : i.rel = f
             THEN items
             ELSE items \cup {[rel |-> f, src |-> Source(f)]}

ApplyWritten(c) ==
    /\ pc = "changes"
    /\ c.kind = "written"
    /\ changes' = changes \ {c}
    /\ AddItem(c.to)
    /\ UNCHANGED <<repoVars, indexVars, pc, dirty, existing, known, file, todo, pending, owed, count>>

ApplyDeleted(c) ==
    /\ pc = "changes"
    /\ c.kind = "deleted"
    /\ changes' = changes \ {c}
    /\ LET rows == RowsForFile(c.from) IN
         IF rows = {}
         THEN UNCHANGED <<table, owed, count, pc>>
         ELSE /\ table' = TombstoneRows(rows)
              /\ owed' = [NoOwed EXCEPT !.remove = rows]
              /\ count' = [count EXCEPT !.removed = @ + Cardinality(rows)]
              /\ pc' = "changes_lex"
    /\ UNCHANGED <<repoVars, lex, indexed, dirty, items, existing, known, file, todo, pending>>

\* Slip: the rows of a renamed file are not re-keyed.
ApplyRenamedParsesOnly(c) ==
    /\ pc = "changes"
    /\ c.kind = "renamed"
    /\ changes' = changes \ {c}
    /\ AddItem(c.to)
    /\ UNCHANGED <<repoVars, indexVars, pc, dirty, existing, known, file, todo, pending, owed, count>>

ApplyRenamed(c) ==
    /\ pc = "changes"
    /\ c.kind = "renamed"
    /\ changes' = changes \ {c}
    /\ AddItem(c.to)
    /\ LET rows == RowsForFile(c.from) IN
         IF rows = {}
         THEN UNCHANGED <<table, owed, pc>>
         ELSE /\ table' = RekeyRows(rows, c.to)
              /\ owed' = [NoOwed EXCEPT
                            !.remove = { r \in rows : \E d \in lex : d.row = r },
                            !.add = { [d EXCEPT !.file = c.to] : d \in { x \in lex : x.row \in rows } }]
              /\ pc' = "changes_lex"
    /\ UNCHANGED <<repoVars, lex, indexed, dirty, existing, known, file, todo, pending, count>>

\* delete_term and add_document for the owed rows, then commit
LexApplied == { d \in lex : d.row \notin owed.remove } \cup owed.add

\* Slip: the lexical index is not told.
ChangesLexForgotten ==
    /\ pc = "changes_lex"
    /\ owed' = NoOwed
    /\ pc' = "changes"
    /\ UNCHANGED <<repoVars, indexVars, dirty, changes, items, existing, known, file, todo, pending, count>>

ChangesLex ==
    /\ pc = "changes_lex"
    /\ lex' = LexApplied
    /\ owed' = NoOwed
    /\ pc' = "changes"
    /\ UNCHANGED <<repoVars, table, indexed, dirty, changes, items, existing, known, file, todo, pending, count>>

ChangesDone ==
    /\ pc = "changes"
    /\ changes = {}
    /\ pc' = "parse"
    /\ UNCHANGED <<repoVars, indexVars, runVars>>

-----------------------------------------------------------------------------
\* process_work_items

\* existing and known_hashes are read once, before any file is consumed
StartParse ==
    /\ pc = "parse"
    /\ existing' = { [file |-> table[r].file, hash |-> table[r].hash, row |-> r] :
                       r \in { x \in LiveRows : \E i \in items : i.rel = table[x].file } }
    /\ known' = IF items = {} THEN {} ELSE LiveHashes
    /\ pc' = "consume"
    /\ UNCHANGED <<repoVars, indexVars, dirty, changes, items, file, todo, pending, owed, count>>

OldOf(f) == { e \in existing : e.file = f }

OldHashes(f) == { e.hash : e \in OldOf(f) }

\* Unparsed, or the file's hashes are exactly the stored ones: nothing to do
SkipFile(i) ==
    /\ pc = "consume"
    /\ \/ i.src = Opaque
       \/ i.src # Opaque /\ i.src = OldHashes(i.rel)
    /\ items' = items \ {i}
    /\ UNCHANGED <<repoVars, indexVars, pc, dirty, changes, existing, known, file, todo, pending, owed, count>>

\* rows of the file whose content vanished are tombstoned before its chunks are read
ConsumeFile(i) ==
    /\ pc = "consume"
    /\ i.src # Opaque
    /\ i.src # OldHashes(i.rel)
    /\ items' = items \ {i}
    /\ file' = i.rel
    /\ todo' = i.src
    /\ LET rows == { e.row : e \in { x \in OldOf(i.rel) : x.hash \notin i.src } } IN
         IF rows = {}
         THEN /\ pc' = "chunks"
              /\ UNCHANGED <<table, owed, count>>
         ELSE /\ table' = TombstoneRows(rows)
              /\ owed' = [NoOwed EXCEPT !.remove = rows]
              /\ count' = [count EXCEPT !.removed = @ + Cardinality(rows)]
              /\ pc' = "consume_lex"
    /\ UNCHANGED <<repoVars, lex, indexed, dirty, changes, existing, known, pending>>

ConsumeLex ==
    /\ pc = "consume_lex"
    /\ lex' = LexApplied
    /\ owed' = NoOwed
    /\ pc' = "chunks"
    /\ UNCHANGED <<repoVars, table, indexed, dirty, changes, items, existing, known, file, todo, pending, count>>

Full == Len(pending) >= EmbedBatch

\* a chunk of the file is already there, under this file or under another
ReuseChunk(h) ==
    /\ pc = "chunks" /\ ~Full
    /\ h \in todo
    /\ h \in OldHashes(file) \cup known
    /\ todo' = todo \ {h}
    /\ UNCHANGED <<repoVars, indexVars, pc, dirty, changes, items, existing, known, file, pending, owed, count>>

\* Slip: the hash is not remembered.
QueueChunkUnseen(h) ==
    /\ pc = "chunks" /\ ~Full
    /\ h \in todo
    /\ h \notin OldHashes(file) \cup known
    /\ todo' = todo \ {h}
    /\ pending' = Append(pending, [hash |-> h, file |-> file])
    /\ UNCHANGED <<repoVars, indexVars, pc, dirty, changes, items, existing, known, file, owed, count>>

QueueChunk(h) ==
    /\ pc = "chunks" /\ ~Full
    /\ h \in todo
    /\ h \notin OldHashes(file) \cup known
    /\ todo' = todo \ {h}
    /\ known' = known \cup {h}
    /\ pending' = Append(pending, [hash |-> h, file |-> file])
    /\ UNCHANGED <<repoVars, indexVars, pc, dirty, changes, items, existing, file, owed, count>>

FileDone ==
    /\ pc = "chunks" /\ ~Full
    /\ todo = {}
    /\ file' = NoFile
    /\ pc' = "consume"
    /\ UNCHANGED <<repoVars, indexVars, dirty, changes, items, existing, known, todo, pending, owed, count>>

\* flush_batch is due when the batch is full or the last file was consumed
FlushDue ==
    /\ pending # << >>
    /\ \/ pc = "chunks" /\ Full
       \/ pc = "consume" /\ items = {}

\* one representative per content hash, the first
Batch ==
    LET firsts == InOrder({ k \in DOMAIN pending :
                              \A j \in 1 .. (k - 1) : pending[j].hash # pending[k].hash })
    IN  [n \in DOMAIN firsts |-> pending[firsts[n]]]

\* insert_batch: a hash that is live keeps its row, the others are appended in order
TableAfter(batch) ==
    LET novel == InOrder({ k \in DOMAIN batch : batch[k].hash \notin LiveHashes })
    IN  table \o [n \in DOMAIN novel |-> [hash |-> batch[novel[n]].hash, file |-> batch[novel[n]].file,
                                         live |-> TRUE]]

RowOf(tab, h) == CHOOSE r \in DOMAIN tab : tab[r].live /\ tab[r].hash = h

FlushStore ==
    /\ FlushDue
    /\ table' = TableAfter(Batch)
    /\ LET docs == { [row |-> RowOf(TableAfter(Batch), Batch[k].hash),
                      hash |-> Batch[k].hash, file |-> Batch[k].file] : k \in DOMAIN Batch }
       IN  owed' = [NoOwed EXCEPT !.remove = { d.row : d \in docs }, !.add = docs]
    /\ pc' = IF pc = "chunks" THEN "flush_lex" ELSE "last_flush_lex"
    /\ UNCHANGED <<repoVars, lex, indexed, dirty, changes, items, existing, known, file, todo, pending, count>>

\* the documents are committed and the counters move
FlushLex ==
    /\ pc \in {"flush_lex", "last_flush_lex"}
    /\ lex' = LexApplied
    /\ owed' = NoOwed
    /\ count' = [count EXCEPT !.added = @ + Len(Batch)]
    /\ pending' = << >>
    /\ pc' = IF pc = "flush_lex" THEN "chunks" ELSE "consume"
    /\ UNCHANGED <<repoVars, table, indexed, dirty, changes, items, existing, known, file, todo>>

-----------------------------------------------------------------------------
\* The end of a run: the commit is recorded, then compaction is considered.

\* Slip: the last, incomplete batch is not flushed.
RecordCommitEarly ==
    /\ pc = "consume"
    /\ items = {}
    /\ indexed' = [tree |-> head, dirty |-> dirty /\ Policy = "IndexWorktree"]
    /\ pc' = "compact"
    /\ UNCHANGED <<repoVars, table, lex, runVars>>

RecordCommit ==
    /\ pc = "consume"
    /\ items = {} /\ pending = << >>
    /\ indexed' = [tree |-> head, dirty |-> dirty /\ Policy = "IndexWorktree"]
    /\ pc' = "compact"
    /\ UNCHANGED <<repoVars, table, lex, runVars>>

DeadRows == { r \in DOMAIN table : ~table[r].live }

Compact ==
    /\ pc = "compact"
    /\ 100 * Cardinality(DeadRows) > CompactPercent * Len(table)
    /\ table' = [k \in DOMAIN LiveRowsInOrder |-> table[LiveRowsInOrder[k]]]
    /\ owed' = [NoOwed EXCEPT !.order = LiveRowsInOrder]
    /\ pc' = "renumber"
    /\ UNCHANGED <<repoVars, lex, indexed, dirty, changes, items, existing, known, file, todo, pending, count>>

NoCompact ==
    /\ pc = "compact"
    /\ ~(100 * Cardinality(DeadRows) > CompactPercent * Len(table))
    /\ pc' = "finish"
    /\ UNCHANGED <<repoVars, indexVars, runVars>>

\* Slip: a moved document is not deleted at its old row.
RenumberKeepsOld ==
    /\ pc = "renumber"
    /\ lex' = lex \cup UNION { { [d EXCEPT !.row = k] : d \in { x \in lex : x.row = owed.order[k] } } :
                                k \in DOMAIN owed.order }
    /\ owed' = NoOwed
    /\ pc' = "finish"
    /\ UNCHANGED <<repoVars, table, indexed, dirty, changes, items, existing, known, file, todo, pending, count>>

\* Slip: the lexical index keeps the old row numbers.
RenumberForgotten ==
    /\ pc = "renumber"
    /\ owed' = NoOwed
    /\ pc' = "finish"
    /\ UNCHANGED <<repoVars, indexVars, dirty, changes, items, existing, known, file, todo, pending, count>>

\* renumber: every mapped document moves from its old row to its new one
Renumber ==
    /\ pc = "renumber"
    /\ LET moved == { k \in DOMAIN owed.order : \E d \in lex : d.row = owed.order[k] } IN
         lex' = { d \in lex : d.row \notin moved /\ d.row \notin { owed.order[k] : k \in moved } }
                  \cup UNION { { [d EXCEPT !.row = k] : d \in { x \in lex : x.row = owed.order[k] } } : k \in moved }
    /\ owed' = NoOwed
    /\ pc' = "finish"
    /\ UNCHANGED <<repoVars, table, indexed, dirty, changes, items, existing, known, file, todo, pending, count>>

\* assert_reconciles, and the report is returned
Finish ==
    /\ pc = "finish"
    /\ pc' = "idle"
    /\ Cleared
    /\ UNCHANGED <<repoVars, indexVars>>

\* The process is killed, or a call fails and the run returns the error.
Kill ==
    /\ pc \in KillPoints
    /\ pc' = "idle"
    /\ Cleared
    /\ UNCHANGED <<repoVars, indexVars>>

Next ==
    \/ \E t \in Trees : CommitTree(t) \/ EditWorktree(t)
    \/ IndexAll \/ Update
    \/ \E c \in changes : ApplyWritten(c) \/ ApplyDeleted(c) \/ ApplyRenamed(c)
    \/ ChangesLex \/ ChangesDone
    \/ StartParse
    \/ \E i \in items : SkipFile(i) \/ ConsumeFile(i)
    \/ ConsumeLex
    \/ \E h \in Hashes : ReuseChunk(h) \/ QueueChunk(h)
    \/ FileDone \/ FlushStore \/ FlushLex
    \/ RecordCommit \/ Compact \/ NoCompact \/ Renumber
    \/ Finish \/ Kill

Spec == Init /\ [][Next]_vars

-----------------------------------------------------------------------------
(***************************************************************************)
(* Properties.                                                             *)
(***************************************************************************)

Docs == [row : Nat, hash : Hashes, file : Files]

\* Every variable holds a value of its type; in particular a batch never exceeds
\* embed_batch.
TypeOK ==
    /\ head \in Trees /\ work \in Trees /\ edits \in 0 .. MaxEdits
    /\ table \in Seq([hash : Hashes, file : Files, live : BOOLEAN])
    /\ lex \subseteq Docs
    /\ indexed \in [tree : Trees, dirty : BOOLEAN] \cup {NoCommit}
    /\ pc \in {"idle", "changes", "changes_lex", "parse", "consume", "consume_lex", "chunks",
               "flush_lex", "last_flush_lex", "compact", "renumber", "finish"}
    /\ dirty \in BOOLEAN
    /\ changes \subseteq [kind : {"written", "deleted", "renamed"}, from : Files, to : Files]
    /\ items \subseteq [rel : Files, src : (SUBSET Hashes) \cup {Opaque}]
    /\ existing \subseteq [file : Files, hash : Hashes, row : Nat]
    /\ known \subseteq Hashes
    /\ file \in Files \cup {NoFile}
    /\ todo \subseteq Hashes
    /\ pending \in Seq([hash : Hashes, file : Files]) /\ Len(pending) <= EmbedBatch
    /\ owed \in [remove : SUBSET Nat, add : SUBSET Docs, order : Seq(Nat)]
    /\ count \in [before : Nat, added : Nat, removed : Nat]

\* assert_reconciles, which aborts the process when it fails: at the end of a run
\* the live rows are those before, plus the chunks counted as added, minus those
\* counted as removed, whatever order files were parsed in and batches flushed.
Reconciles ==
    pc = "finish" => Cardinality(LiveRows) = count.before + count.added - count.removed

\* where no change of the store waits for its counterpart in the lexical index
Between == {"idle", "changes", "parse", "consume", "chunks", "compact", "finish"}

\* Wherever a run stands between two pairs of calls, and between runs, the lexical
\* index holds exactly one document for every live row, with the row's content and
\* path: `the two never disagree about what exists` (SIFT-007).
LexicalMirrorsStore ==
    pc \in Between => lex = LiveDocs

\* a run has just recorded exactly HEAD, without the dirty marker, and HEAD is on disk
ClaimsHead == pc = "finish" /\ indexed = [tree |-> head, dirty |-> FALSE] /\ work = head

\* An index just recorded for HEAD holds no row for code that HEAD does not have: `a
\* query never returns a symbol that does not exist at the indexed revision`.
NoGhostRows ==
    ClaimsHead => \A r \in LiveRows :
                     \/ table[r].hash \in Chunks(head[table[r].file])
                     \/ head[table[r].file] = Opaque

\* An index just recorded for HEAD holds every chunk of HEAD: `the subsequent run
\* completes the index`.
IndexComplete == ClaimsHead => TreeHashes(head) \subseteq LiveHashes

-----------------------------------------------------------------------------
(***************************************************************************)
(* The inductive invariant.                                                *)
(***************************************************************************)

Consuming == {"consume", "consume_lex", "chunks", "flush_lex", "last_flush_lex"}

Flushing == {"flush_lex", "last_flush_lex"}

\* where the store is ahead of the lexical index by what is owed
HalfDone == {"changes_lex", "consume_lex"} \cup Flushing

\* A content hash is live in at most one row, so insert_batch answers unambiguously.
HashPart == \A r, q \in LiveRows : table[r].hash = table[q].hash => r = q

\* A path is parsed once.
ItemPart == \A i, j \in items : i.rel = j.rel => i = j

\* A queued chunk is queued once, its hash is known, and it is not live until its
\* batch is written; while there are chunks to be looked at, known_hashes has every
\* live hash, so that a chunk that is live is never queued.
QueuePart ==
    /\ pc \notin Consuming => pending = << >>
    /\ \A j, k \in DOMAIN pending : pending[j].hash = pending[k].hash => j = k
    /\ \A k \in DOMAIN pending : pending[k].hash \in known
    /\ pc \notin Flushing => \A k \in DOMAIN pending : pending[k].hash \notin LiveHashes
    /\ pc \in {"consume_lex", "chunks", "flush_lex"} => LiveHashes \subseteq known /\ file \in Files
    /\ pc = "consume" /\ items # {} => LiveHashes \subseteq known
    /\ pc = "last_flush_lex" => items = {}

\* What was read about a file before parsing is still so when the file is consumed.
SnapshotPart ==
    pc \in Consuming =>
        \A e \in existing : (\E i \in items : i.rel = e.file) =>
            e.row \in LiveRows /\ table[e.row].hash = e.hash /\ table[e.row].file = e.file

\* The counters follow the live rows at every step; those of a batch are counted
\* once its documents are committed.
CountPart ==
    pc # "idle" =>
        Cardinality(LiveRows) = count.before + count.added - count.removed
                                  + (IF pc \in Flushing THEN Len(pending) ELSE 0)

\* Each row of the lexical index is named by one document, so load_document answers
\* unambiguously.
DocPart == \A d, e \in lex : d.row = e.row => d = e

\* What is owed is what is missing: paying it makes the lexical index mirror the
\* store, and renumbering finds every document under the row its record left.
LexPart ==
    /\ pc \in HalfDone => LexApplied = LiveDocs
    /\ pc = "renumber" =>
         /\ \A k \in DOMAIN table : table[k].live
         /\ DOMAIN owed.order = DOMAIN table
         /\ \A j, k \in DOMAIN table : owed.order[j] = owed.order[k] => j = k
         /\ lex = { [row |-> owed.order[k], hash |-> table[k].hash, file |-> table[k].file] :
                      k \in DOMAIN table }

\* What holds of the store and of a run wherever runs are killed.
RunInv == TypeOK /\ HashPart /\ ItemPart /\ QueuePart /\ SnapshotPart /\ CountPart

\* What every run keeps and leaves behind, in whatever order files were consumed:
\* rows and documents that can be told apart, a lexical index that mirrors the store
\* up to what is owed, and counters that reconcile.
IndexerInv ==
    /\ RunInv
    /\ LexicalMirrorsStore
    /\ DocPart
    /\ LexPart
=============================================================================
