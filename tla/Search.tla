------------------------------- MODULE Search -------------------------------
(***************************************************************************)
(* One fused search, from the request to the answer: embed the text, rank  *)
(* the rows lexically and densely, fuse the two rankings by reciprocal     *)
(* rank, and fetch the record and the body of the best rows.  The code has *)
(* it twice: Searcher (retrieval) for a resident at rest, and              *)
(* search_with_parts (daemon) for the copy the daemon serves while an      *)
(* index run owns the store.                                               *)
(*                                                                         *)
(* A chunk stands for everything that belongs to one piece of code: its    *)
(* record, its vector, its lexical document, its body.  A row number only  *)
(* points at them, through a store, a vector matrix and a lexical index    *)
(* that are different objects.  Scores are integers, reciprocal ranks are  *)
(* exact fractions: rounding of f32 is not modelled.                       *)
(***************************************************************************)
EXTENDS Integers, Sequences, FiniteSets, SequencesExt

CONSTANTS
    Chunks,      \* pieces of code
    NameOf,      \* the file and symbol of each chunk
    CharsOf,     \* the body of each chunk: its bytes, and the offsets at which
                 \* is_char_boundary holds
    Stores,      \* stores a daemon may have loaded
    Queries,     \* what may be asked: a score of each chunk per retriever
    LateQueries, \* a bound: the ones asked once an index run has begun
    Configs,     \* FusionConfig and top_k of a request
    RrfK,        \* the damping constant of reciprocal rank fusion
    PreviewMax,  \* PREVIEW_MAX_BYTES
    NaN,         \* a dense score that is not finite
    None,        \* Option::None
    Faults,      \* what may fail: "embed", "lexical", "dense", "fetch"
    MaxCommits   \* commits of the index run that owns the store

\* A score is a number or not finite; a body has a boundary at either end.
ASSUME SearchAssumption ==
    /\ Queries \union LateQueries
          \subseteq [lexical : [Chunks -> Int], dense : [Chunks -> Int \union {NaN}]]
    /\ Configs \subseteq [lexical_depth : Nat, dense_depth : Nat, top_k : Nat]
    /\ \A st \in Stores : st.rows \in Seq(Chunks) /\ st.live \subseteq 0 .. (Len(st.rows) - 1)
    /\ \A c \in Chunks :
          /\ CharsOf[c].bytes \in Nat
          /\ CharsOf[c].boundaries \subseteq 0 .. CharsOf[c].bytes
          /\ {0, CharsOf[c].bytes} \subseteq CharsOf[c].boundaries
    /\ RrfK \in Nat /\ PreviewMax \in Nat /\ MaxCommits \in Nat
    /\ NaN \notin Int /\ None \notin Int /\ None # NaN /\ None \notin Chunks

VARIABLES
    store,    \* ChunkStore: the chunk of every row, and the rows that are live
    lexical,  \* the lexical index as last committed
    reader,   \* what the frozen view's IndexReader has loaded of it
    dense,    \* DenseIndex of the resident
    serving,  \* "ready", or "indexing" while a run owns the store
    frozen,   \* FrozenSearch: records, bodies and vectors of before the run
    commits,  \* commits the run has made
    req       \* the request being answered

vars == <<store, lexical, reader, dense, serving, frozen, commits, req>>
-----------------------------------------------------------------------------
(***************************************************************************)
(* Rankings.                                                               *)
(***************************************************************************)

\* The order of Candidate, of the sort after selection, of the reference and
\* of TopNComputer: the higher score first, of equals the lower row.
Before(a, b) ==
    \/ a.score > b.score
    \/ a.score = b.score /\ a.row < b.row

\* A sort: the k-th element of a finite set is the one that k - 1 elements
\* come before.
Ordered(set, before) ==
    [k \in 1 .. Cardinality(set) |->
        CHOOSE x \in set : Cardinality({y \in set : <<y, x>> \in before}) = k - 1]

Ranked(rows) == Ordered(rows, {p \in rows \X rows : Before(p[1], p[2])})

\* Rows or positions in ascending order.
Ascending(set) == Ordered(set, {p \in set \X set : p[1] < p[2]})

Take(n, s) == SubSeq(s, 1, IF n < Len(s) THEN n ELSE Len(s))

Ok(rows) == [status |-> "ok", rows |-> rows]
Failed == [status |-> "failed", rows |-> <<>>]
Pending == [status |-> "pending", rows |-> <<>>]

\* LiveMask::from_store and DenseIndex::prepare_slice: a copy of the matrix
\* and of the live rows.
FromStore(st) == [rows |-> st.rows, live |-> st.live]

\* DenseIndex::refresh: append the rows the matrix has gained, take the new
\* live mask.  A matrix that lost rows is refused.
Refresh(ix, st) ==
    [rows |-> ix.rows \o SubSeq(st.rows, Len(ix.rows) + 1, Len(st.rows)),
     live |-> st.live]

\* The score of a row: the product of its vector with the query's.
Scored(ix, query, row) ==
    [row |-> row, score |-> query.dense[ix.rows[row + 1]]]

\* Slip: the heap keeps what comes first when it is full.
HeapKeepsFirst(top, limit, candidate) ==
    IF Cardinality(top) < limit THEN top \union {candidate} ELSE top

\* The heap of select_scores: its maximum is the worst candidate kept.
Push(top, limit, candidate) ==
    LET worst == CHOOSE w \in top : \A c \in top \ {w} : Before(c, w)
    IN  IF Cardinality(top) < limit
        THEN top \union {candidate}
        ELSE IF top # {} /\ Before(candidate, worst)
             THEN (top \ {worst}) \union {candidate}
             ELSE top

\* select_scores: one pass over the rows, dead ones skipped; top[n] is the heap
\* after n rows.
Selected(ix, query, limit) ==
    LET top[n \in 0 .. Len(ix.rows)] ==
            IF n = 0 THEN {}
            ELSE IF n - 1 \notin ix.live THEN top[n - 1]
            ELSE Push(top[n - 1], limit, Scored(ix, query, n - 1))
    IN  top[Len(ix.rows)]

\* DenseIndex::search.  The score of a dead row is not looked at.
DenseSearch(ix, query, limit) ==
    IF limit = 0 THEN Ok(<<>>)
    ELSE IF \A row \in ix.live : Scored(ix, query, row).score # NaN
         THEN Ok(Ranked(Selected(ix, query, limit)))
         ELSE Failed

\* reference_search, which the code keeps to compare the heap with: score
\* every live row, sort, truncate.
ReferenceSearch(ix, query, limit) ==
    Take(limit, Ranked({Scored(ix, query, row) : row \in ix.live}))

\* The documents that share a term with the query, with their BM25 score.
Hits(docs, query) ==
    {[row |-> d.row, score |-> query.lexical[d.chunk]] :
        d \in {e \in docs : query.lexical[e.chunk] > 0}}

\* RowTopSegmentCollector: the best `limit` documents of one segment.
Harvest(hits, limit) == Take(limit, Ranked(hits))

\* LexicalSearchHandle::search with RowTopCollector: the best of the best of
\* every segment.  A query without terms has no hits.
LexicalSearch(docs, query, limit) ==
    LET fruit(segment) ==
            Harvest(Hits({d \in docs : d.segment = segment}, query), limit)
    IN  IF limit = 0 THEN Ok(<<>>)
        ELSE Ok(Take(limit, Ranked(UNION {ToSet(fruit(d.segment)) : d \in docs})))
-----------------------------------------------------------------------------
(***************************************************************************)
(* Fusion.                                                                 *)
(***************************************************************************)

\* Contribution: None is "did not return it", which is not a score of zero.
NoContribution == [rank |-> None, score |-> None]

\* What one loop of fuse records of a row: its place in that list, if any.  A
\* retriever returns a row once.
ContributionOf(list, row) ==
    IF \E i \in DOMAIN list : list[i].row = row
    THEN LET rank == CHOOSE i \in DOMAIN list : list[i].row = row
         IN  [rank |-> rank, score |-> list[rank].score]
    ELSE NoContribution

\* fused_score += 1 / (rrf_k + rank), on fractions, if there is a rank.
AddReciprocal(score, rank) ==
    IF rank = None THEN score
    ELSE <<score[1] * (RrfK + rank) + score[2], score[2] * (RrfK + rank)>>

\* Slip: a row both retrievers found keeps the score of the second only.
FusedScoreLast(lex, den) ==
    IF den.rank = None THEN AddReciprocal(<<0, 1>>, lex.rank)
    ELSE AddReciprocal(<<0, 1>>, den.rank)

\* The sum after both loops.
FusedScore(lex, den) == AddReciprocal(AddReciprocal(<<0, 1>>, lex.rank), den.rank)

FusedRow(row, lexList, denList) ==
    LET lex == ContributionOf(lexList, row)
        den == ContributionOf(denList, row)
    IN  [row |-> row, lexical |-> lex, dense |-> den, fused |-> FusedScore(lex, den)]

FusedBefore(a, b) ==
    LET left  == a.fused[1] * b.fused[2]
        right == b.fused[1] * a.fused[2]
    IN  left > right \/ (left = right /\ a.row < b.row)

RowsOf(list) == {list[i].row : i \in DOMAIN list}

\* fuse: both lists cut to their depth, summed by row, sorted.
Fuse(lexicalRows, denseRows, config) ==
    LET lex  == Take(config.lexical_depth, lexicalRows)
        den  == Take(config.dense_depth, denseRows)
        rows == {FusedRow(row, lex, den) : row \in RowsOf(lex) \union RowsOf(den)}
    IN  Ordered(rows, {p \in rows \X rows : FusedBefore(p[1], p[2])})
-----------------------------------------------------------------------------
(***************************************************************************)
(* Results.                                                                *)
(***************************************************************************)

\* preview_from_body: step back from the limit to a character boundary.
PreviewOf(body) ==
    LET back[end \in 0 .. PreviewMax] ==
            IF end > 0 /\ end \notin body.boundaries THEN back[end - 1] ELSE end
    IN  IF body.bytes <= PreviewMax THEN body.bytes ELSE back[PreviewMax]

\* assemble, and the loop at the end of search_with_parts: the first top_k
\* rows, those without a record skipped, a missing body empty.
Assemble(records, bodies, fused, topK) ==
    LET first     == Take(topK, fused)
        kept      == Ascending({i \in DOMAIN first : first[i].row \in DOMAIN records})
        found     == [k \in DOMAIN kept |-> first[kept[k]]]
        body(row) == IF row \in DOMAIN bodies THEN bodies[row] ELSE None
    IN  [i \in DOMAIN found |->
            [chunk   |-> records[found[i].row],
             body    |-> body(found[i].row),
             preview |-> IF body(found[i].row) = None THEN 0
                         ELSE PreviewOf(CharsOf[body(found[i].row)]),
             from    |-> found[i]]]

\* ChunkStore::get_many and get: the records of live rows.
Records(st) == [row \in st.live |-> st.rows[row + 1]]

\* LexicalSearchHandle::bodies.
Bodies(docs) ==
    [row \in {d.row : d \in docs} |-> (CHOOSE d \in docs : d.row = row).chunk]

\* resolve_symbol, and get_symbol of the frozen view: the rows of that name.
Resolve(records, bodies, name) ==
    LET rows == {row \in DOMAIN records : NameOf[records[row]] = name}
        row  == CHOOSE r \in rows : TRUE
    IN  IF rows = {} THEN [status |-> "not found", chunk |-> None, body |-> None]
        ELSE IF Cardinality(rows) > 1
        THEN [status |-> "ambiguous", chunk |-> None, body |-> None]
        ELSE [status |-> "symbol", chunk |-> records[row],
              body |-> IF row \in DOMAIN bodies THEN bodies[row] ELSE None]
-----------------------------------------------------------------------------
Idle == [pc |-> "idle"]
NoFrozen == [records |-> <<>>, bodies |-> <<>>,
             dense |-> [rows |-> <<>>, live |-> {}]]

Init ==
    /\ \E s \in Stores :
          /\ store = [rows |-> s.rows, live |-> s.live]
          /\ lexical = {[row |-> r, chunk |-> s.rows[r + 1], segment |-> s.segment[r]] :
                           r \in s.live}
    /\ reader = lexical
    /\ dense = FromStore(store)
    /\ serving = "ready"
    /\ frozen = NoFrozen
    /\ commits = 0
    /\ req = Idle

\* Searcher::search and search_similar, and those of FrozenSearch, up to the
\* embedding.  The resident's search_similar does not run the lexical
\* retriever; search_with_parts always does.
Ask(kind, query, config) ==
    /\ req.pc = "idle"
    /\ req' = [pc      |-> "retrieve",
               kind    |-> kind,
               view    |-> serving,
               query   |-> query,
               config  |-> config,
               lexical |-> IF kind = "similar" /\ serving = "ready"
                           THEN Ok(<<>>) ELSE Pending,
               dense   |-> Pending]
    /\ UNCHANGED <<store, lexical, reader, dense, serving, frozen, commits>>

\* The embedder fails: the error is the answer (GpuUnavailable or Internal).
EmbedFails ==
    /\ "embed" \in Faults
    /\ req.pc = "idle"
    /\ req' = [pc |-> "answered", kind |-> "embed", status |-> "error"]
    /\ UNCHANGED <<store, lexical, reader, dense, serving, frozen, commits>>

\* What the retrievers of this request read.
SearchedDocs == IF req.view = "ready" THEN lexical ELSE reader
SearchedRows == IF req.view = "ready" THEN dense ELSE frozen.dense

\* The lexical retriever, on a thread of its own in the resident.
RetrieveLexical ==
    /\ req.pc = "retrieve"
    /\ req.lexical.status = "pending"
    /\ \/ req' = [req EXCEPT !.lexical =
                     LexicalSearch(SearchedDocs, req.query, req.config.lexical_depth)]
       \/ "lexical" \in Faults /\ req' = [req EXCEPT !.lexical = Failed]
    /\ UNCHANGED <<store, lexical, reader, dense, serving, frozen, commits>>

\* The dense retriever, concurrently in the resident, after the lexical one
\* in the frozen view.  A wrong width or model is an error like any other.
RetrieveDense ==
    /\ req.pc = "retrieve"
    /\ req.dense.status = "pending"
    /\ req.view = "ready" \/ req.lexical.status # "pending"
    /\ \/ req' = [req EXCEPT !.dense =
                     DenseSearch(SearchedRows, req.query, req.config.dense_depth)]
       \/ "dense" \in Faults /\ req' = [req EXCEPT !.dense = Failed]
    /\ UNCHANGED <<store, lexical, reader, dense, serving, frozen, commits>>

Answered(status, results) ==
    [pc |-> "answered", kind |-> req.kind, view |-> req.view, status |-> status,
     query |-> req.query, config |-> req.config, lexical |-> req.lexical,
     dense |-> req.dense, results |-> results,
     lexical_ok |-> req.lexical.status = "ok",
     dense_ok |-> req.dense.status = "ok"]

BothReturned ==
    /\ req.pc = "retrieve"
    /\ req.lexical.status # "pending"
    /\ req.dense.status # "pending"

FusedRows == Fuse(req.lexical.rows, req.dense.rows, req.config)

\* Slip: the resident answers a search whose retrievers both failed.
AnswerRegardless ==
    /\ BothReturned
    /\ req.view = "ready"
    /\ req' = Answered("ok", Assemble(Records(store), Bodies(lexical), FusedRows,
                                      req.config.top_k))
    /\ UNCHANGED <<store, lexical, reader, dense, serving, frozen, commits>>

\* The rest of Searcher::run: one failure degrades the answer, two are an
\* error, and so is a store or a lexical index that cannot be read.
Answer ==
    /\ BothReturned
    /\ req.view = "ready"
    /\ IF req.lexical.status = "failed" /\ req.dense.status = "failed"
       THEN req' = Answered("both failed", <<>>)
       ELSE \/ req' = Answered("ok", Assemble(Records(store), Bodies(lexical),
                                              FusedRows, req.config.top_k))
            \/ "fetch" \in Faults /\ req' = Answered("error", <<>>)
    /\ UNCHANGED <<store, lexical, reader, dense, serving, frozen, commits>>

\* Slip: the frozen view reads the bodies through the reader that moves on.
AnswerFrozenLate ==
    /\ BothReturned
    /\ req.view = "indexing"
    /\ req' = Answered("ok", Assemble(frozen.records, Bodies(reader), FusedRows,
                                      req.config.top_k))
    /\ UNCHANGED <<store, lexical, reader, dense, serving, frozen, commits>>

\* The rest of search_with_parts: both failing is an empty answer.
AnswerFrozen ==
    /\ BothReturned
    /\ req.view = "indexing"
    /\ req' = Answered("ok", Assemble(frozen.records, frozen.bodies, FusedRows,
                                      req.config.top_k))
    /\ UNCHANGED <<store, lexical, reader, dense, serving, frozen, commits>>

\* Resident::get_symbol and FrozenSearch::get_symbol.
GetSymbol(name) ==
    /\ req.pc = "idle"
    /\ req' = [pc |-> "answered", kind |-> "symbol", name |-> name, view |-> serving,
               answer |-> IF serving = "ready"
                          THEN Resolve(Records(store), Bodies(lexical), name)
                          ELSE Resolve(frozen.records, frozen.bodies, name)]
    /\ UNCHANGED <<store, lexical, reader, dense, serving, frozen, commits>>

\* The answer has been sent.
Sent ==
    /\ req.pc = "answered"
    /\ req' = Idle
    /\ UNCHANGED <<store, lexical, reader, dense, serving, frozen, commits>>
-----------------------------------------------------------------------------
(***************************************************************************)
(* The index run, seen from here: every commit changes the store and the   *)
(* lexical index together (module Indexer has their order), the reader of  *)
(* the frozen view loads the new index some time later.                    *)
(***************************************************************************)

\* split_for_index: copy what is live, keep the dense index and a clone of
\* the lexical reader.
Split ==
    /\ serving = "ready"
    /\ commits = 0
    /\ req.pc = "idle"
    /\ serving' = "indexing"
    /\ frozen' = [records |-> Records(store),
                  bodies  |-> [row \in store.live \intersect DOMAIN Bodies(lexical) |->
                                  Bodies(lexical)[row]],
                  dense   |-> dense]
    /\ reader' = lexical
    /\ UNCHANGED <<store, lexical, dense, commits, req>>

Committed(newStore, newDocs) ==
    /\ serving = "indexing"
    /\ commits < MaxCommits
    /\ commits' = commits + 1
    /\ store' = newStore
    /\ lexical' = newDocs
    /\ UNCHANGED <<reader, dense, serving, frozen, req>>

\* A new chunk: a row at the end, a document in a segment of its own.
CommitInsert(chunk) ==
    /\ chunk \notin {store.rows[row + 1] : row \in store.live}
    /\ Committed([rows |-> Append(store.rows, chunk),
                  live |-> store.live \union {Len(store.rows)}],
                 lexical \union {[row |-> Len(store.rows), chunk |-> chunk,
                                  segment |-> 2 + commits]})

\* A chunk that is gone: its row is dead and its document deleted.
CommitRemove(row) ==
    /\ row \in store.live
    /\ Committed([store EXCEPT !.live = @ \ {row}],
                 {d \in lexical : d.row # row})

\* Compaction: the live rows move down, the lexical index is renumbered.
CommitCompact ==
    LET kept     == Ascending(store.live)
        moved(r) == CHOOSE i \in DOMAIN kept : kept[i] = r
    IN  /\ Cardinality(store.live) < Len(store.rows)
        /\ Committed([rows |-> [i \in DOMAIN kept |-> store.rows[kept[i] + 1]],
                      live |-> 0 .. (Len(kept) - 1)],
                     {[row |-> moved(d.row) - 1, chunk |-> d.chunk, segment |-> d.segment] :
                         d \in lexical})

ReaderReloads ==
    /\ reader # lexical
    /\ reader' = lexical
    /\ UNCHANGED <<store, lexical, dense, serving, frozen, commits, req>>

\* rebuild_resident: new searches are answered from the store again; a
\* search that holds the frozen view goes on with it.
Rebuild ==
    /\ serving = "indexing"
    /\ serving' = "ready"
    /\ commits' = MaxCommits
    /\ dense' = Refresh(FromStore(store), store)
    /\ UNCHANGED <<store, lexical, reader, frozen, req>>

Asked == IF serving = "ready" /\ commits = 0 THEN Queries ELSE LateQueries

Next ==
    \/ \E kind \in {"search", "similar"}, query \in Asked, config \in Configs :
          Ask(kind, query, config)
    \/ EmbedFails
    \/ RetrieveLexical
    \/ RetrieveDense
    \/ Answer
    \/ AnswerFrozen
    \/ \E chunk \in Chunks : GetSymbol(NameOf[chunk])
    \/ Sent
    \/ Split
    \/ \E chunk \in Chunks : CommitInsert(chunk)
    \/ \E row \in store.live : CommitRemove(row)
    \/ CommitCompact
    \/ ReaderReloads
    \/ Rebuild

Spec == Init /\ [][Next]_vars
-----------------------------------------------------------------------------
HasResults == req.pc = "answered" /\ req.kind \in {"search", "similar"}

\* A search of the resident ranks what a full sort would: the dense heap
\* returns what reference_search returns, and the lexical result does not
\* depend on how the documents are spread over segments.
RetrieversExact ==
    HasResults /\ req.view = "ready" =>
        /\ req.dense.status = "ok" /\ req.config.dense_depth > 0 =>
              req.dense.rows = ReferenceSearch(dense, req.query, req.config.dense_depth)
        /\ req.lexical.status = "ok" /\ req.kind = "search" =>
              req.lexical.rows = Take(req.config.lexical_depth,
                                      Ranked(Hits(lexical, req.query)))

\* a stands at least as well as b with one retriever: b was not returned, or
\* a was, no lower than b.
AtLeastAs(a, b) == b.rank = None \/ (a.rank # None /\ a.rank <= b.rank)

\* Fusion by rank respects both rankings (SIFT-009: "A chunk found by both
\* retrievers ranks above a chunk of similar standing found by only one"): a
\* result that stands at least as well with each retriever comes first.
FusionRespectsBothRankings ==
    HasResults /\ req.status = "ok" =>
        \A i, j \in DOMAIN req.results :
            LET a == req.results[i].from
                b == req.results[j].from
            IN  AtLeastAs(a.lexical, b.lexical) /\ AtLeastAs(a.dense, b.dense)
                    => i <= j

\* Scores and previews of a result are those of its own chunk, a score is
\* reported exactly when its retriever returned the row, and the preview is
\* the longest run of whole characters that fits.
OwnScores(result, docsMatch) ==
    LET f == result.from
    IN  /\ f.dense.score # None => f.dense.score = req.query.dense[result.chunk]
        /\ docsMatch /\ f.lexical.score # None =>
              f.lexical.score = req.query.lexical[result.chunk]
        /\ (f.dense.score # None) = (\E i \in DOMAIN req.dense.rows :
                                        req.dense.rows[i].row = f.row)
        /\ (f.lexical.score # None) = (\E i \in DOMAIN req.lexical.rows :
                                          req.lexical.rows[i].row = f.row)
        /\ \A b \in CharsOf[result.chunk].boundaries :
              b <= PreviewMax => b <= result.preview
        /\ result.preview \in CharsOf[result.chunk].boundaries

\* An answer of the resident loses nothing and mixes nothing: unless every
\* retriever failed it has as many results as were found, up to top_k, each
\* with the record, the body and the scores of one live chunk, and the two
\* flags say which retriever failed.
ReadyAnswerIsWhole ==
    HasResults /\ req.view = "ready" =>
        LET found == RowsOf(req.lexical.rows) \union RowsOf(req.dense.rows)
            least == IF Cardinality(found) < req.config.top_k
                     THEN Cardinality(found) ELSE req.config.top_k
        IN  /\ req.status = "both failed" <=> ~req.lexical_ok /\ ~req.dense_ok
            /\ req.status = "ok" =>
                  /\ Len(req.results) = least
                  /\ \A i \in DOMAIN req.results :
                        LET r == req.results[i]
                        IN  /\ r.body = r.chunk
                            /\ r.chunk \in {store.rows[row + 1] : row \in store.live}
                            /\ OwnScores(r, TRUE)

\* What is answered while a run commits comes from the copy taken before it:
\* the record, the body and the dense score of a result are of one chunk that
\* was live then, a row is missing only if the copy does not know it, and
\* get_symbol answers as the resident would have.  (The lexical score is the
\* moving reader's and may be another chunk's; it is left out here.)
FrozenAnswerIsOneCopy ==
    /\ HasResults /\ req.view = "indexing" =>
          /\ \A i \in DOMAIN req.results :
                /\ req.results[i].body = req.results[i].chunk
                /\ req.results[i].chunk = frozen.dense.rows[req.results[i].from.row + 1]
                /\ OwnScores(req.results[i], FALSE)
          /\ \A i \in DOMAIN Take(req.config.top_k, FusedRows) :
                \/ FusedRows[i].row \notin frozen.dense.live
                \/ \E j \in DOMAIN req.results : req.results[j].from = FusedRows[i]
    /\ req.pc = "answered" /\ req.kind = "symbol" =>
          LET copy == Records(SearchedRows)
          IN  req.answer = Resolve(copy, copy, req.name)
=============================================================================
