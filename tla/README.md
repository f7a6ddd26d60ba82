# Sift: TLA+ models, model checking and proofs

Sift indexes a git repository into chunks (one per symbol), embeds each chunk,
and answers searches from a resident daemon that MCP clients talk to over a
Unix socket. This directory models the parts of it that keep state or run
concurrently and the algorithms its answers rest on (chunking, retrieval and
fusion, evaluation), checks them with TLC on small instances, and proves with
TLAPS, for every value of their parameters, every safety property the passing
runs check.

Paths below are relative to the repository root; `PROJECT.json` maps every
definition to the lines it models.

## 1. The system

| Component | State | Operations | Hard because |
|---|---|---|---|
| Chunk store (`crates/storage/src/store.rs`) | a SQLite table of chunks, a memory-mapped matrix of vectors, a manifest naming the current pair | `create`, `open`, `insert_batch`, `tombstone`, `rekey_file`, `set_indexed_commit`, `compact`, `verify` | two files and no transaction over both; a kill anywhere; repair on `open` |
| Embedding matrix (`matrix.rs`) | header with a row count, rows | `append`, `flush`, header rewrite | row count and rows are written separately from the metadata |
| Indexing pipeline (`crates/indexing/src/pipeline.rs`) | snapshots of existing rows and known hashes, the pending batch, counters | `index_all`, `update` | parse results in any order; each change is made first in the store and then in the lexical index; the repository changes underneath |
| Git access (`git.rs`) | none | `is_dirty`, `dirty_paths`, `changes_since` | rename detection is a heuristic |
| Lexical index (`crates/retrieval/src/lexical.rs`) | documents keyed by row, a reader that reloads on commit | `add_batch`, `remove`, `update_file_paths`, `renumber`, `commit` | a commit is separate from the store's; readers move on by themselves |
| Dense retrieval, fusion, search (`dense.rs`, `fusion.rs`, `search.rs`, `result.rs`) | a copy of the matrix and a live mask | `prepare`, `refresh`, top-k, reciprocal rank fusion, assembly | two retrievers on two threads, each of which may fail; row numbers that point into four different objects, one of which moves during an index run |
| Symbol chunker (`crates/indexing/src/chunker.rs`) | none | `chunk_file` | nesting, attached comments and cuts at statements decide what text is searchable at all |
| Exclusions (`exclusions.rs`) | compiled patterns | `check_path`, `check_size`, `check_head` | two routes to a file, the walk and the update, decide separately |
| Evaluation (`crates/eval`) | labels and reports | `mine_commits`, `mine_docstrings`, `build_held_out_index`, `evaluate` | labels, index and metrics are made by different passes over the same data |
| Daemon (`crates/daemon/src/server.rs`, `resident.rs`) | serving state behind a `RwLock`, indexing flag, search semaphore, connection count, time of the last request | loader, accept loop, one task per connection, one detached thread per index run | all of it runs concurrently; the resident is taken, split and rebuilt around a run; idle exit and shutdown race with everything |
| Daemon start (`paths.rs`, `try_bind`, `client.rs`) | lock file, socket | bind, connect, spawn, exit | several processes on the same paths |
| MCP client (`crates/mcp-client`) | one connection to the daemon | the tools | reuse of a connection whose daemon has gone |
| Inference (`crates/inference`) | a loaded model | `embed` | numeric code, outside this project |

Interaction: the MCP client calls the daemon client, the daemon runs the
indexer on the store and the lexical index it took out of its resident, and
searches read the resident's store, matrix and lexical reader.

What makes each part correct:

* **Store.** The vector of row *r* belongs to the record of row *r*; a hash is
  live once; a batch lands entirely or not at all; whatever was killed or
  failed, `open` succeeds and loses at most the batch in progress; compaction
  is invisible except for the row numbers it reports.
* **Indexer.** The lexical index and the store describe the same chunks; after
  a run the index holds exactly the code of the commit it names; the counters
  of the report reconcile; an interrupted run can be repeated.
* **Lifecycle.** A daemon that serves can be found at the socket's path; one
  process serves a store; clients that start daemons at the same moment are all
  served; nobody waits for a process that has gone.
* **Daemon.** One writer; searches never see a half-updated index and never
  less than what was committed when they were asked; every request is
  answered; flags and counts are exact on every path; the daemon leaves when
  nobody needs it, and only then.
* **Search.** Each retriever returns the best rows there are; fusion does not
  contradict what both say; a result's record, text and scores are of the same
  chunk; one failed retriever costs nothing but its own part.
* **Chunker.** Nothing in a symbol is lost, whatever is nested or split; a
  record names the lines and the containers of its text; the walk and the
  update take the same files.
* **Evaluation.** Labels can be scored on the index they were mined with; the
  held-out index does not contain the answers and does contain what is asked
  for; the figures of a run agree with each other.

## 2. Modules

| Module | Models | Runs |
|---|---|---|
| `ChunkSet` | what the store promises: a set of live chunks with their vectors, batches that land or do not, a recorded commit | as a `PROPERTY` of the store runs |
| `ChunkStore` | `store.rs` and `matrix.rs`, one action per step that a kill can separate | `store`, `store_generations` |
| `ChunkStoreProofs` | the published pair of `ChunkStore` stays sound; compaction, stable rows, batches; `ChunkStore` implements `ChunkSet` | `tlapm` |
| `Indexer` | `pipeline.rs`, `git.rs` and the documents of `lexical.rs` | `indexer`, `indexer_*` |
| `IndexerProofs` | counters reconcile, the two indexes agree | `tlapm` |
| `IndexContentProofs` | what an index holds after a run: no ghosts, nothing missing | `tlapm` |
| `Daemon` | `server.rs`, `resident.rs`, `handshake.rs` | `daemon`, `daemon_liveness` |
| `DaemonProofs` | the theorems about `Daemon` | `tlapm` |
| `Lifecycle` | `paths.rs`, `client.rs`, `bin/sift-daemon.rs`, both ends of `serve`, the cached connection of `mcp-client/src/server.rs` | `lifecycle` |
| `LifecycleProofs` | the theorems about `Lifecycle` | `tlapm` |
| `Search` | `search.rs`, `dense.rs`, `dense_reference.rs`, `fusion.rs`, `result.rs`, the collector of `lexical.rs`, both search paths of `resident.rs` | `search` |
| `SearchProofs` | retrievers are exact, fusion respects both, answers are whole and from one copy | `tlapm` |
| `Chunker` | `chunker.rs`, `exclusions.rs`, the two ways `pipeline.rs` reaches a file | `chunker` |
| `ChunkerProofs` | both ways admit the same files; nothing is lost, fragments follow, records describe | `tlapm` |
| `Eval` | `mine.rs`, `run.rs`, `metrics.rs`, `proxy.rs`, `corpus.rs` of `crates/eval` | `evaluation` |
| `EvalProofs` | labels mined from commits, the held-out index, the figures | `tlapm` |
| `MCChunkStore`, `MCIndexer`, `MCDaemon`, `MCLifecycle`, `MCSearch`, `MCChunker`, `MCEval` | constant values, and symmetry where it is sound | |

An operator whose comment begins with *Slip* is a plausible mistake in the
definition that follows it; `PROJECT.json` pairs each with the property that
detects it. They are not part of any specification.

### ChunkStore

Per generation (pair of files): does the matrix exist, how far is the database
(`absent`, `unversioned`, `ready`), `rows` from the header, `data` (a vector is
named by the hash of the content it embeds, so a wrong vector is visible),
`chunks`, `indexed`. `manifest` is the generation `active_paths` selects. `pc`
is where the process is: `closed`, `idle`, or inside one of the operations.

`insert_batch` is `InsertBegin`, one `ReuseRow` or `AppendRow` per chunk, then
`CommitBatch` or `CommitError` and `Rollback`. `compact` is `CompactBegin`,
`CompactCopy`, `PublishManifest`, `ReopenPair`, `RemoveOldPair`, each with its
error. `Open` is one step: it reclaims trailing rows and verifies.
`Kill` may happen between any two steps. A kill is a process kill: mapped pages
and committed transactions survive in program order. Power loss is not
modelled.

`Faults` names the failures a run allows, `KeepHandle` whether a caller goes on
with the handle after an error that leaves it unsound. The daemon and the
indexer both give the handle up.

Left out: the dimension check of `insert_batch` (an error with no effect),
capacity and `grow` of the matrix, the order of row bytes and header inside one
`append`, and `open_mut` failing straight after a header rewrite succeeded.

`ChunkSet` has no files and no rows. The mapping reads the published
generation: `live` is the set of its live records with the vector at their
row. Open, close, compaction, reclaiming and every failed step map to
stuttering; a batch lands in the step of its SQLite commit.

### Indexer

The repository is two trees, `head` and `work`; a file's content is the set of
hashes of its chunks, `NoFile` or `Opaque` (present but without chunks:
excluded, too large, binary, unparsed). The store is the sequence of its rows
with atomic operations, which is what `ChunkStore` implements. The lexical
index is the set of committed documents.

Each change is two steps: the store operation, which leaves what it *owes* the
lexical index in `owed`, and the lexical commit. Work items are consumed in any
order, which covers the parse threads; the chunks of a file too. Git's rename
detection may pair any deleted with any added file that shares content.
The repository changes only between runs unless `ConcurrentEdits`.

Left out: an `update` whose base commit cannot be resolved, the embedding
itself, timings and progress.

### Daemon

`serving` is the `ServingState` with the resident in it; a resident is the
generation of its records and vectors (the number of lexical commits before it
was built), the directory whose files it has open and the directory its
`StoreIdentity` names. `Resident::load` is two steps, `OpenStore` and
`CaptureIdentity`, because the directory may be replaced between them. Per
client: the connection's handler (its position, the Arc it holds), the index thread its request started, what that thread sent on
`done_tx`, and the client's end of the socket. `quiet` says that the last
request is `idle_timeout` or more in the past. Of a response a client keeps only
that it came (`Kept`), and of a search's what it was computed from: it may send
or leave whatever it was told. The directory is replaced only after the loader
has opened it; before, any directory would do.

A step is what a task or thread does between two points at which another can
see or change the shared state. `main = "body"` is the time a branch of the
select is running: nobody is registered with `shutdown.notified()` then, so a
`notify_waiters` is lost. A search that runs on the ready resident holds its
Arc from `Target` to `Serve`, with `CheckStore` (`check_still_valid`) in between:
the directory may be replaced after the check and before the reads. Two history
variables are for the properties: a request remembers in `asked` the directory
that was at the path when it was read, and `adopted` has every directory whose
identity was captured for the open files of another one. A frozen view may serve its lexical half from any
generation between its own and the last commit, because the reader it clones is
created with the library's default reload policy.

Left out: what a search returns (only the generations it was computed from),
`SearchSimilar` as a request of its own (its steps are those of `Search`),
errors inside a search (answered, without effect), the mutex that
puts the searches of a ready resident one after another, poisoned locks, and the
gap
between `clear_indexing` and `done_tx.send`, which no task can observe.

### Lifecycle

Several daemon processes for one store, and the clients that look for one.
`runtimeDir`, `lock` and `socket` are in the file system; `socket` is the
process that bound the path, `StaleFile` after a kill, or `None`. Per process:
its phase (`proc`) and the thread that has the store open (`work`: the loader,
an index run), or that it is stale. Per client: where its call is (`pc`), whether this call has
started a daemon, its connection, and the outcome of its last call. `disturbed`
is a history variable: since the client began to connect some daemon has been
leaving or stale, was killed, could not load its model or its store, or had an
index run fail.

A daemon process goes through `LoadEmbedder`, `MakeRuntimeDir`, `TryLock`,
`PrepareSocketPath`, `Bind`, serves, and leaves by `DrainAndUnlink`, `Release`
and `End`; each is one change another process can see. `Connect` and `Probe`
succeed while the listener is open, accepted or not. `End` waits for the
loader, which the runtime does on a blocking task, and not for a detached index
thread.

Time appears in one assumption: starting and loading take less than
`connect_deadline`, so a client gives up (`GiveUp`) only when no process is on
its way to serving. `Daemons` bounds the processes alive at once, not how many
are ever started: an ended process may be used again.

What a serving daemon does inside is `Daemon`; here it has one thread at work at
most, accepts and answers. A load or a run that fails leaves it `stale`
(`GoStale`): it goes on serving, refuses `Hello` and searches with `StoreStale`
(`RefuseStale`) and never loads again. Left out: permissions of directory, lock
and socket, the momentary connection of the probe, `allow_spawn = false` and
framing.

### Search

One request at a time (`req`) over the objects it reads: the store, the
committed lexical index, the reader the frozen view has cloned, the resident's
dense index, and the copies a frozen view holds. A chunk stands for one piece
of code with its record, vector, document and body; a row number is only a
pointer, so an answer that takes its parts from different copies is visible as
a result made of two chunks.

`Ask` starts a request, `RetrieveLexical` and `RetrieveDense` are the two
threads of `dispatch_concurrent` (in the frozen view and in
`dispatch_sequential` one follows the other), `Answer` is the rest of
`Searcher::run`, `AnswerFrozen` that of `search_with_parts`. `Split`, the
`Commit...` actions, `ReaderReloads` and `Rebuild` are the index run as far as a
search can notice it: an insertion, a removal, a compaction with renumbering.
The algorithms are operators: `Push` is the bounded heap of `select_scores`,
`ReferenceSearch` the sort the code keeps to compare it with, `LexicalSearch`
the best of the best of each segment, `Fuse` reciprocal rank fusion on exact
fractions, `PreviewOf` the step back to a character boundary. The heap is a set
of at most `limit` candidates, and the loop over the rows a recursive function
of the number of rows looked at. A sort is `Ordered`: the element at position
*i* is the one that *i - 1* elements come before.

Left out: how a score comes about (it is given per query and chunk), rounding
of 32-bit floats, the CUDA backend, timings. A request refused before it is
dispatched is in `Daemon`.

### Chunker

A file is a sequence of characters of four kinds: code, comment mark, blank,
newline. Beside it the model takes from the parser what the code takes: the
nodes the query matches (range, name, whether a container, the neighbouring
comment node) and the ends of statements. Text is a set of offsets into the
file, so lost and repeated text can be seen.

The steps are those of `chunk_file`: `Admit` (path, language, size, head),
`Parse` (symbols with their documentation, qualified names, order), then per
symbol `SkipBlank`, `TakeWhole`, `SplitLines` with one `TakeLine` per line and
`EndLines` (the loop of `hard_split`, its buffer in `split`), or `StartCut`, one
`CutAtStatement` per statement end and `EndCut` (the loop of
`split_if_oversize`, its state in `cut`); `Finish` puts the prelude in front. A
chunk remembers the symbol it is of, because two symbols may have one name. The
members taken out of a container are a set: between two that start together
there is nothing to keep. A path is a sequence of components, each known by the rule its name
falls under; `Refused` gives the decision for either route.

`IsTree` says what the model takes for granted of the parser: ranges are nested
or apart, no two definitions have one range, a definition starts at a token, and
a comment node is its neighbour (`prev_named_sibling`), so no definition starts
inside or behind it, and the first child of another has none.

Left out: the grammars and query tables of the seven languages, multi-byte
characters, `\r\n`, the first line of the documentation and the content hash.

### Eval

A world is what the harness reads: commits with line diffs, the rows of the
index, the chunks of the work tree, search results and times, files a keyword
search finds. The steps are one per commit, row and chunk mined, one per chunk
of the held-out index (`HoldChunk`; the code collects them and writes one batch,
and `held` is what that batch comes to so far), `partition_labels` on either
index, one per score of `Plan` (three configurations, then two sources and three
lengths), and the median of bytes read. The harness keeps no answers: the three
configurations, the breakdown by source, that by length and the byte count each
search for every label again (`Passes`, `PassOf`), and a search of one pass may
answer differently from that of another, because a degraded response is
accepted. Times are given by query, since no figure compares those of two
passes. Sorted samples are defined by counting:
the value at position *k* has fewer than *k* samples below it and at least *k*
up to it. A fraction is kept as its numerator (`One` = 2520 is
divisible by every rank up to ten).

Left out: regular expressions of maintenance subjects (a flag of the commit),
rename tracking of the diff, handwritten labels (they are loaded with the
source of commit labels and scored like them), the manifest.

## 3. Runs

Passing runs:

| Run | Bounds | Shows |
|---|---|---|
| `store` | 2 hashes, 2 files, 3 rows, 2 generations, batches with repeated content, every failure | two files in step, store reopens, refinement of `ChunkSet` |
| `store_generations` | 3 generations, 2 rows, a commit, files that cannot be removed | compaction and its row mapping, repeated and interrupted |
| `indexer` | every tree of 2 files and 2 chunks, 2 commits, batches of 1 | counters reconcile, indexes agree, no ghosts, unambiguous rows |
| `indexer_resume` | 3 files, 3 chunks, rename with edit, kills between pairs of calls | a repeated run completes the index |
| `indexer_worktree` | uncommitted and concurrent edits, an unparsable file, re-indexing | counters and indexes under a moving repository |
| `daemon` | 2 clients, every request, 1 permit, one replacement of the directory at any moment, failures of load, split and run, panics | one writer, exact flag and count, nobody unanswered at exit, searches see what was committed, none is answered from files older than the directory it was asked of unless an identity was adopted |
| `daemon_liveness` | fair, 2 clients that search and index, 1 permit, failing loads and runs | every request is answered, the flag is released, a daemon without clients exits |
| `lifecycle` | 2 clients, 3 processes at once, searches, index runs and shutdowns, one kill, failed start, failed load or failed run | the server is found, one server per store, races lose nobody, nobody waits for the gone |
| `search` | stores of up to 3 rows, dead ones and 2 segments among them; every combination of lexical and dense scores, one not finite; depths of 0, 1 and 2; one commit of a run; failures of embedder, retrievers and lookup | both retrievers are exact, fusion respects both, answers are whole and from one copy |
| `chunker` | every way to break a symbol of 8 characters into lines and statements, with a limit of 4; 2 or 3 symbols side by side or nested in 5 texts; every path of up to 3 components under 8 rules | no text lost, fragments in order and no longer than they must be, lines and names right, walk and update agree |
| `evaluation` | every log of 2 out of 11 commits, every work tree of 3 out of 8 chunks, 4 labels with every place of the first hit and every order of times, degraded answers in the pass by source or in those by length and for the byte count | labels scorable, held-out index fair, figures consistent |

Why the bounds suffice. *Store*: three rows let a batch of two follow a
committed row, so reclaiming has to keep a prefix that is neither empty nor
everything; two hashes give repeated and new content in one batch; the third
generation lets a compaction follow one that left files behind. *Indexer*: two
files and two chunks cover move, copy, swap, rename, rename with edit, delete
and re-add; two changes let an update build on an update. *Daemon*: a conflict
involves one writer and one reader, or two requesters; one permit makes the
second search queue; `MaxGen = 1` tells old and new apart. Liveness needs no
generations and no replaced directory, so `daemon_liveness` leaves them out.
*Lifecycle*: the worst case is two starters that race while a third process is
still leaving; one fault leaves one stale socket, which every later start
meets in the same way. *Search*: selection goes wrong at the cut, so three rows
with depths of one and two show it; a second commit would move rows the frozen
view does not read. After a run has begun fewer queries are asked
(`LateQueries`), because the algorithms are covered before it. *Chunker*: the
limit of 4 makes the three cases of a cut (below half, up to the limit, above)
differ within 8 characters; containers in containers need three symbols
(55,687 states, most of them one per line or statement of a different file).
*Evaluation*: a filter is decided by one commit, the order of filters by its
fields; duplicates need two chunks, a third tells the row of the first from the
document of the last.

The daemon runs switch deadlock checking off: the process really ends. In the
other runs some step is always possible.

Fairness (`Daemon!Fairness`): weak fairness of the loader, the exit, the passing
of time, every handler and every thread, because the runtime polls each ready
task and the kernel runs each thread; strong fairness of the timer branch, of
accepting and of acquiring a permit, because each select reaches its branches
within 100 ms and the semaphore is first-in first-out. Nothing is assumed of
the clients: they may stop, stay, or leave.

One run ends in a counterexample. It states what a comment of the repository
says; `findings` in `PROJECT.json` quotes it.

| Run | What happens |
|---|---|
| `indexer_moved_code` | a chunk that moves between two files is lost: the file that gains it counts it as known from the snapshot, the file that loses it tombstones its row. The order in which the two are consumed does not matter |

### Known limits of the properties

The models also show the following. No run is kept for them; they are the
reason for the preconditions in the properties and for the constants a passing
run chooses.

*Store* (`crates/storage/src/store.rs`)

* `create` writes the matrix file, the database and its version row with
  nothing to undo or finish them (130): a kill in between leaves a directory
  that `open` rejects and `create` rejects as not empty, where
  `docs/development/specs/SIFT-002-chunk-store-spec.md:73` asks for a store
  that "survives a process kill mid-write without requiring manual repair".
  Adding `"kill_in_create"` to `Faults` shows it.
* An append or flush that fails inside `insert_batch` returns without
  truncating the matrix (213-218). A caller that keeps the handle has orphan
  rows until the next `open`; hence `KeepHandle`.
* The pair of an interrupted compaction, and an old pair that could not be
  removed, stay on disk (584-592); nothing removes them later.

*Indexer* (`crates/indexing/src/pipeline.rs`)

* `index_all` looks only at files that exist (207), so rows of files deleted
  since the last run stay live. `NoGhostRows` is about `update`.
* `update` starts from the recorded commit and the files that are dirty now
  (238). The chunks of an uncommitted edit that was indexed and then reverted
  stay. A file that turns `Opaque` keeps its old rows.
* The commit recorded at the end (289) is read then, so a commit made during a
  run is recorded without having been read; hence `ConcurrentEdits`.
* A kill between a store write and its lexical write (734) leaves two indexes
  of different sizes. `Indexer::open` answers `LexicalOutOfSync` from then on
  and nothing repairs it, where
  `docs/development/specs/SIFT-006-repository-indexing-spec.md:33` expects that
  "re-running resumes".
* A kill between `compact` and `renumber` (306-309) leaves two indexes with the
  same number of entries and different rows, which the count check of
  `Indexer::open` cannot tell apart. Because of these two, the passing runs kill
  between pairs of calls only: `LexicalMirrorsStore` says nothing about a kill
  inside a pair.
* An `update` that was interrupted and is repeated takes its snapshot from the
  half-updated store; chunks that moved are then skipped in the way of
  `indexer_moved_code`.
* An `update` that was killed after it tombstoned rows, followed by a return of
  HEAD to the recorded commit, leaves the index incomplete: the next `update`
  finds nothing changed. `MaxEdits = 2` in `IndexerResume.cfg` shows it.

*Daemon* (`crates/daemon/src/server.rs`)

* An identity is captured when files are already open: by `rebuild_resident` at
  the end of a run (`resident.rs:355`), and by `Resident::load` some way after
  the store was opened (`resident.rs:208` and `229`). If the directory was
  replaced meanwhile, the daemon takes the identity of the new one and answers
  from the files of the old one until the next replacement
  (`docs/development/specs/SIFT-010-resident-daemon-spec.md:32` rules that
  out). The second disjunct of `RefusesReplacedStore` is this case and no other:
  some directory as new as the one asked of is in `adopted`.
* `check_still_valid` runs before the reads of a search (`resident.rs:246`,
  `373`), so a search whose directory is replaced in between is answered from
  the files it has open. They are those that were at the path when the request
  was read, or newer, which is what `RefusesReplacedStore` promises.
* The idle timer looks at connections, not at the indexing flag (172): it ends
  the process during a run whose client has left. The next start then meets
  whatever the store and indexer models say of a kill.
* The lexical reader of the frozen view reloads on every commit of the run
  (`resident.rs:319`), although `resident.rs:75` calls the view immutable and
  `docs/development/specs/SIFT-010-resident-daemon-spec.md:61` promises that
  searches "never see a half-updated index". Records, text and vectors stay
  those of before the run (`FrozenAnswerIsOneCopy`); ranks and lexical scores
  may be those of rows that have since been given to other chunks.
* A search in flight holds the resident, and an index request that arrives
  meanwhile fails with "resident still borrowed" (481).
* A stale daemon refuses `Index` (487), the request its own error asks for.
* Shutdown waits for every connection, idle ones too (203).
* A `split_for_indexing` that fails, or a panic before the rebuild, leaves
  `ServingState` at `Starting` or `Indexing` (499); after a panic the indexing
  flag stays set too. `IndexFlagExact` says so.
* `notify_waiters` is lost while a branch of the select is running (305): the
  request is answered and the daemon goes on.

*Lifecycle* (`crates/daemon/src`, `crates/mcp-client/src`)

* The daemon of a successful probe may be gone at the connect that follows
  (`client.rs:62`); the error is returned and nothing is spawned, where
  `docs/development/plans/SIFT-010-resident-daemon-plan.md:205` expects a client
  that "gets a connection error and respawns". `disturbed` covers this case.
* A daemon is started once per call (`client.rs:65`). If it finds the lock held
  by a process that is leaving, it exits and its client waits until the
  deadline for nothing.
* Connecting to a daemon that drains succeeds (the listener is open until
  `serve` returns); the call then waits until the drain is over, which takes as
  long as the other connections stay open (`server.rs:203`), and fails.
* An index call that starts the daemon reaches it while it loads, is refused
  ("not ready for index", `server.rs:491`) and fails: `index_repository` asks
  once (`mcp-client/src/server.rs:337`), the other tools ask again.
  `docs/development/specs/SIFT-011-mcp-tool-surface-spec.md:30` says that "the
  request that triggered the start eventually succeeds".
* The MCP server never replaces a connection that has failed
  (`mcp-client/src/server.rs:97`): after its daemon has gone every later call
  fails until the MCP server is restarted. The model has this behaviour
  (`Failed`, `InvokeConnected`).
* After a shutdown during the load, or with an index run whose requester has
  left, the lock is free while the old process still has the store open
  (`server.rs:135`, `469`). `StoreSharedOnlyWithLeaver` says that there is no
  other way, `docs/development/specs/SIFT-010-resident-daemon-spec.md:28` that
  there is none.

*Search* (`crates/retrieval/src`, `crates/daemon/src/resident.rs`)

* `search_with_parts` runs the lexical retriever for `search_similar` too, which
  `search.rs:89` says it skips. The answer to the same request therefore changes in kind
  while a run is in progress.
* When both retrievers fail, the resident answers an error and the frozen view
  an empty list with both flags down.

*Chunker* (`crates/indexing/src`)

* The search for documentation takes any line that starts like a comment,
  attributes and preprocessor lines included, and counts one byte per line end,
  so `\r\n` moves the start. `CommentsApart` is the precondition of
  `RecordsDescribe`.
* Code at file level after the first symbol is in no chunk; `NothingLost` is
  about symbols and what stands above them.
* The rest of a symbol is joined to the last fragment without a separator.
* A type and its `impl`, and the fragments of one symbol, share a name;
  `get_symbol` then answers that the name is ambiguous.
* The walk skips a directory whose own name matches a pattern for files
  (`keys.pem/`), and never reaches what a negated pattern keeps inside an
  ignored directory; an update does both. These are the preconditions of
  `RoutesAgree`.

*Evaluation* (`crates/eval/src`)

* `reconciles` does not hold for the report of `mine_docstrings`, which counts
  preludes and repeated symbols as examined and as nothing else.
* A breakdown repeats the number of labels discarded overall.
* A breakdown searches again (`run.rs:188`) and accepts a degraded response, so
  its figures need not add up to the fused ones. `FiguresAgree` claims it for
  breakdowns whose searches found what those of the fused pass found.
* `strip_doc_comments` knows `///` and `//!` only: `/** */`, `#` and `//`, which
  the chunker takes for documentation, stay in the held-out index.
* The content hash does not include the file, so a copy of a symbol shares the
  row of the first, and the label of the copy is discarded.
* A commit that only deletes lines touches no symbol.

## 4. Proofs

Eight modules hold theorems that `tlapm` checks for every value of the
constants, under the named `ASSUME` of the module they are about. Each proof
rests on an inductive invariant, a conjunction of named parts, with one lemma
per action or per part.

| Module | Theorems | Invariant |
|---|---|---|
| `ChunkStoreProofs` | `TypeOK`, `VectorsMatchRecords`, `OneLiveRowPerHash`, `IdleHandleIsSound`, `OpenNeverRefused`, `StoreInv`, `CompactionMapsRows`, `RowsNeverMove`, `InsertReturnsRows`, `ImplementsChunkSet` | `PairInv`, `StoreInv` |
| `IndexerProofs` | `Reconciles`, `IndexerInv`, `LexicalMirrorsStore` | `RunInv`, `IndexerInv` |
| `IndexContentProofs` | `NoGhostRows`, `IndexComplete` | `ContentInv`, `CompletePart` |
| `DaemonProofs` | `DaemonInv`, `SingleWriter`, `IndexFlagExact`, `ExitAnswersEveryone`, `SearchesSeeCommitted`, `RefusesReplacedStore` | `DaemonInv` |
| `LifecycleProofs` | `LifecycleInv`, `SocketLeadsToServer`, `StoreSharedOnlyWithLeaver`, `SearchFailsOnlyWhenDisturbed`, `NobodyWaitsForTheGone` | `LifecycleInv` |
| `SearchProofs` | `RetrieversExact`, `FusionRespectsBothRankings`, `ReadyAnswerIsWhole`, `FrozenAnswerIsOneCopy` | `SearchInv` |
| `ChunkerProofs` | `RoutesAgree`, `NothingLost`, `FragmentsFollow`, `RecordsDescribe` | `ChunkInv` |
| `EvalProofs` | `CommitLabelsAreScorable`, `HeldOutIndexIsFair`, `FiguresAgree` | `LabelInv`, `HeldInv`, `FigureInv` |

### The store

The theorems assume `KeepHandle = FALSE` (callers drop the handle after an
error) and `OpenNeverRefused` also that no kill falls inside `create`. Both are
necessary: section 3 describes the orphan rows left by a failed append and the
directory left by a kill inside `create`.

The properties are not inductive by themselves. `PairInv` adds:

* `HandlePart`: which generation the handle, the compaction and the manifest
  are on at each position;
* `FilesPart`: the published pair is complete, or nothing was stored in it;
* `RowsPart`: the metadata of the published pair is a prefix of its rows: all
  of them between calls, those before the batch during one, and some prefix
  after a kill (this is what makes reclaiming sufficient);
* `PendingPart`: the batch in progress owns exactly the rows past the metadata,
  each with its vector in place and a hash that is live nowhere else;
* `TargetPart`: a pair that is about to be published is complete and sound.

`StoreInv` adds two more. `ResultPart` says what a batch will answer: each
input has a row with its content, in the store or in the batch, and each queued
record is the first input's with its content. `CopyPart` says that the pair
`compact` is about to publish, or has published and not yet reopened, is a copy
of the live rows through the row mapping.

The refinement of `ChunkSet` is proved step by step: a successful commit of a
batch is `Land`, which adds the first input of each new hash (`ResultPart` ties
the queued records to the batch), `PublishManifest` is a stutter because
of `CopyPart`, a rollback, a kill and `Open` are stutters because live rows lie
in the metadata, which none of them changes.

### The indexer

`Reconciles` needs no assumption: `assert_reconciles` cannot abort a run,
wherever earlier runs were killed and however the repository moves. `RunInv`
relates the counters to the live rows at every step (`CountPart`), which needs
that a hash is live once (`HashPart`), that a queued chunk is queued once and
is not live (`QueuePart`), that a path is parsed once (`ItemPart`) and that
what was read about a file is still so when it is consumed (`SnapshotPart`).

`LexicalMirrorsStore` assumes that kills fall between two pairs of calls
(`KillPoints \subseteq Between`), as the runs do: a kill inside a pair leaves
the two indexes apart for good (section 3). `IndexerInv` says that paying what
is owed makes them equal. Compaction is the hard step: that it keeps the order
of rows is stated through the rank of a row among the live ones, so that it
needs no induction.

`NoGhostRows` and `IndexComplete` assume `Undisturbed`: no kill, no edit outside
commits, and no second `index_all` on an index that has a commit. Each of these
really breaks one of them (section 3). `IndexComplete` also assumes `CodeStays`:
every file parses, and a file shares code with another only when the one is gone
where the other is, with that one alone (so renames, also with edits, are
covered, and moves of code between two files, which `indexer_moved_code` shows
to lose chunks, are not). An unparsable file that is renamed can strand the rows
of its old path, hence the first condition. The invariants: a row that is not of
HEAD is in a file still to be looked at (`GhostPart`); a chunk of HEAD that is
not held under its file is on its way there: in a file to be parsed and not
known, in the file being read, or in the batch (`CompletePart`). TLC checks
`IndexComplete` also with kills, on the trees of `indexer_resume`.

### The daemon

For any finite set of clients (the code counts them), any number of permits,
generations and directories, and any of the faults. `DaemonInv` locates the
resident at each moment (`StorePart`: with the loader, with the thread that took
it out, or shared by a run and its frozen view), has one index thread under a
set flag (`ThreadPart`, `FlagPart`: without a thread the flag is what a panic
left), no borrowed resident while a thread owns the store (`BorrowPart`), an
exact count of running handlers, and generations that never run backwards for a
search that waits (`GenPart`). `IdentityPart` follows an identity from load,
through the frozen view, the thread and the rebuild, to the client: it names the
directory whose files are open or one that was adopted, and a search that has
passed its check has an identity no older than the directory it was asked of,
although the directory may have been replaced since. `RefusesReplacedStore`
follows. The check alone would not do: a frozen view that captured its identity
anew would pass it.

### Processes and clients

`LifecycleProofs` proves `LifecycleInv` for every set of clients, processes and
requests and every number of faults. Its parts:

* `LockPart`: a process is between its `try_lock_exclusive` and the end of
  `serve` exactly when it holds the lock, so at most one process is;
* `SocketPart`: while it is, the socket's path is its own or empty (removing
  "whatever is there" is safe because of this, on the way in and out);
* `WorkPart`: a thread at work belongs to a process that has served;
* `UndisturbedPart`: an undisturbed client that has started a daemon has one
  that is coming, after a probe one that serves, after connecting an open
  connection. It holds although a process can lose two races (the directory,
  the lock), because each race has a winner that is coming too.

There is one lemma per part (`TypeStep`, `LockStep`, `SocketStep`, `WorkStep`,
`UndisturbedStep`, `WaitStep`, `SearchStep`), each with one case per action that
can disturb it.

### Search

For every store, query, configuration, damping constant and number of commits,
under `SearchAssumption`: scores are numbers or not finite, and a body has a
character boundary at either end.

The proof begins with sorting. A finite set under a strict total order has, at
each position of `Ordered`, exactly the element with that many before it; so a
sorted list is determined by its set, a prefix of it holds the elements with
fewer than so many before them, and inserting into the best *n* of a set gives
the best *n* of the larger set. From this:

* the heap of `select_scores` holds, after each row, the best `limit` of the
  rows so far (the order on candidates is total, ties in the score being decided
  by the row), hence what `reference_search` sorts out;
* a document among the best of all segments is among the best of its own, so
  merging what the segments return loses none;
* a sum of reciprocal ranks is strictly larger if neither rank is worse and one
  is better. Two different rows never have the same rank in both lists, so the
  comparison is strict and `fuse` cannot fall back on the row number.

`SearchInv` ties an answer to one copy of the index. `CopiesAgree`: the rows of
the store, the documents of the lexical index, the resident's dense index and,
during a run, the frozen view's records, bodies and vectors each describe one
set of chunks. `Held`: a request belongs to the view it started on. `Lists`: what
a retriever has returned are rows of that view, with the scores of their chunks
(during a run not the lexical ones: the reader moves). `Made`: how the answer
follows from the lists. `SymbolFound`: the same for `get_symbol`.

### Chunker

For every path, text, syntax tree (`IsTree`), limit and prelude length.

`RoutesAgree` is about paths of any length. The walk stops at the shortest
directory that is refused, and each rule of `check_path` that refuses
a directory refuses what is below it, under the two conditions of the property.
If no directory is refused, both routes ask `check_path` about the file itself.

`ChunkInv` follows the loops. `Working`: the symbols before the current one have
all their text in chunks, each chunk within the range of its symbol and with its
lines, the fragments of one symbol in order (`CutUpTo`). `CutInv`: the fragments
hold the text from the start of the symbol to the last cut, none could have been
cut further, and every statement end is behind the last cut, so near to it that
it is not worth a cut, or still to come. `LinesInv`: the fragments and the buffer
of `hard_split` hold the lines so far.

`NothingLost` also needs what a container leaves out. A character that some
symbol lost would be lost by one with a smallest range; it is in the body of
that one or in a member taken out of it, which is smaller (`BodiesHoldSymbols`).
Nothing is assumed of how documentation makes ranges overlap. The proof also shows that
`split_if_oversize` never comes out of its loop without a fragment
(chunker.rs:428): the branch of `EndCut` that returns to `hard_split` is never
taken.

`RecordsDescribe` is about names computed from ranges with documentation. If no
symbol starts on a line that looks like a comment (`CommentsApart`), the
documentation of a symbol lies behind the start of everything around it
(`DocBehind`), ranges enclose each other exactly when their nodes do
(`EnclosesIs`), and sorting by start gives the containers from the largest to the
smallest (`SortedAlike`).

### Evaluation

For every history, index, work tree and outcome of the searches of each pass,
under `EvalAssumption`: these are finite, and a search returns at most ten
results (twenty for the byte count).

`LabelInv`: a label of `mine_commits` expects a nonempty set of indexed symbols
within the limit, its provenance is an earlier position of the walk (so an
accepted commit adds one label and not zero), and the report counts labels and
refusals exactly. That a commit touches finitely many symbols is a lemma.

`HeldInv`: the bodies held so far are stripped ones of chunks already passed,
their records carry no documentation, and each chunk passed that is more than
documentation has its record there or that of an earlier chunk with the same
content. Stripped bodies have no `///` or `//!` line, so none that a label asks
for.

`FigureInv`: the scores are those of the jobs done, on labels that can be asked.
`FiguresAgree` then rests on two lemmas about data. A sum over a finite set is
shown equal to the number of units it is made of (a set of pairs), so sums over
disjoint parts add up and sums compare as their terms do; the parts of a
breakdown add up to the figures its own pass would have on all labels, which are
those of the fused pass where the two passes found the same (`PassesAlike`). The
number of labels adds up in any case. The value
`percentile` picks from the sorted samples is the least that covers its share,
by counting the samples below and up to it.

### How data is reasoned about

The library's induction theorems take an operator as a parameter, which the
installed provers cannot instantiate. The proofs use instead: loops of the code
as steps of the model, so that the induction is that of the invariant; sorts and
line numbers defined by counting, so that cardinalities carry the argument; and,
for the recursive function that is left (the heap's) and for sums, a least
counterexample, which exists because the natural numbers are well-founded.

### Only model-checked

* Every liveness property (`Answered`, `IndexFlagReleased`,
  `IdleDaemonExits`): reasoning under fairness is outside the prover.
* `IndexComplete` after kills (`indexer_resume`), and the counterexample of
  `indexer_moved_code`.

## 5. Plan

Done: all modules of section 2, and a theorem for each safety property of the
passing runs. Next, in this order:

1. *Calls that end*: liveness of a client's call across processes, under the
   fairness of `Daemon` and a deadline.
2. *Matrix*: capacity, `grow` and the order of row bytes and header inside
   `append`, composed with `ChunkStore`.
3. *Framing*: partial frames and request ids of the daemon protocol.

## 6. Not modelled

Tree-sitter grammars and queries, content hashing, the glob language, tokenising
and BM25, floating-point rounding, model inference, byte layouts
(matrix header, frames), file permissions, power loss. The `change-intel` crate
is empty.
