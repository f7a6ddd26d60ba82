-------------------------------- MODULE Eval --------------------------------
(***************************************************************************)
(* The evaluation harness: labels mined from the history of a repository   *)
(* and from its documentation, an index built without that documentation,  *)
(* and the scores of the three search configurations on those labels.      *)
(*                                                                         *)
(* A world fixes what the harness reads: the commits with their diffs, the *)
(* rows of the index, the chunks of the work tree (in the order of the     *)
(* walk), the results of every search and its time.  Two searches for the  *)
(* same query may answer differently, one of them may be degraded; times   *)
(* are given by query, no figure compares those of two passes.  A key is a *)
(* pair of file and symbol, a line a record of kind, text and word count:  *)
(* "outer" is ///, "inner" //!, "plain" any other comment the chunker      *)
(* takes for documentation, "code" and "blank" the rest.  A diff is a      *)
(* sequence of "=", "+" and "-".  Lists the code sorts by their provenance *)
(* are sets here, and a fraction is kept as its numerator.                 *)
(***************************************************************************)
EXTENDS Integers, Sequences, FiniteSets, SequencesExt, FiniteSetsExt, Functions

CONSTANTS
    Worlds,       \* what the harness reads
    MaxSymbols,   \* MiningConfig::max_symbols_per_commit
    MinWords,     \* MiningConfig::min_subject_words
    None          \* Option::None

Ablations == {"LexicalOnly", "DenseOnly", "Fused"}

\* Nothing is kept of a search: every pass over the labels asks again, the
\* breakdowns by source and by length included.
Passes == Ablations \union {"source", "length"}

\* A history, an index and a work tree are lists, a commit changes finitely many
\* files of finitely many chunks each.  Whatever a label may ask for has a time
\* and, in each pass, at most the ten results run_ablation asks for;
\* bytes_before_hit asks for twenty, in a pass of its own.
ASSUME EvalAssumption ==
    /\ MaxSymbols \in Nat /\ MinWords \in Nat
    /\ None \notin {"index", "held"}
    /\ \A w \in Worlds :
          /\ w.max_commits \in Nat
          /\ w.log \in Seq(Range(w.log)) /\ w.rows \in Seq(Range(w.rows))
          /\ w.tree \in Seq(Range(w.tree))
          /\ \A i \in DOMAIN w.log :
                /\ IsFiniteSet(w.log[i].changes)
                /\ \A change \in w.log[i].changes : IsFiniteSet(change.chunks)
                /\ w.log[i].subject \in DOMAIN w.time
          /\ \A i \in DOMAIN w.rows : w.rows[i].doc = None \/ w.rows[i].doc \in DOMAIN w.time
          /\ \A i \in DOMAIN w.tree : w.tree[i].doc = None \/ w.tree[i].doc \in DOMAIN w.time
          /\ \A q \in DOMAIN w.time : w.time[q] \in Nat
          /\ \A q \in (DOMAIN w.time) \X (Passes \union {"bytes"}) :
                /\ w.ranking[q] \in Seq(Range(w.ranking[q]))
                /\ Len(w.ranking[q]) <= IF q[2] = "bytes" THEN 20 ELSE 10
                /\ \A i \in DOMAIN w.ranking[q] : w.ranking[q][i].size \in Nat
          /\ w.matches \in Seq(Range(w.matches))
          /\ \A i \in DOMAIN w.matches : w.matches[i].size \in Nat

Prelude == "file_prelude"

\* RejectReason::rule_name.
Rules == {"merge", "maintenance_pattern", "subject_too_short",
          "no_symbols_touched", "too_many_symbols", "symbols_not_indexed"}

VARIABLES
    world,    \* the world
    pc,       \* "start", "commits", "rows", "tree", "hold", "split",
              \* "score", "done" or "failed"
    at,       \* position in the list the current loop goes through
    report,   \* MiningReport of the current loop
    mined,    \* MiningReport of mine_commits
    labels,   \* the labels so far
    seen,     \* keys that have a docstring label
    held,     \* the index without documentation: records and documents by row
    target,   \* the index the labels are scored on
    scored,   \* labels that can be scored
    scores,   \* the scores by job
    bytes     \* median_bytes_before_hit

vars == <<world, pc, at, report, mined, labels, seen, held, target, scored, scores, bytes>>
-----------------------------------------------------------------------------
(***************************************************************************)
(* Mining.                                                                 *)
(***************************************************************************)

NewReport == [examined |-> 0, accepted |-> 0, rejected |-> [r \in Rules |-> 0]]

Rejected(rep, rule) == [rep EXCEPT !.rejected = [rep.rejected EXCEPT ![rule] = @ + 1]]

\* reconciles: the reasons are added up one by one.
RejectedSum(rejected) ==
    rejected["merge"] + rejected["maintenance_pattern"] + rejected["subject_too_short"]
        + rejected["no_symbols_touched"] + rejected["too_many_symbols"]
        + rejected["symbols_not_indexed"]
Reconciles(rep) == rep.accepted + RejectedSum(rep.rejected) = rep.examined

\* line_count of the new side, and new_side_changed_lines.
LineCount(diff) == Cardinality({j \in DOMAIN diff : diff[j] # "-"})
NewSideLines(diff) ==
    {LineCount(SubSeq(diff, 1, i)) : i \in {j \in DOMAIN diff : diff[j] = "+"}}

ChangedLines(change) ==
    IF change.created THEN 1 .. LineCount(change.diff) ELSE NewSideLines(change.diff)

\* touched_symbols: the symbols of the new text that hold a changed line.
Touched(commit) ==
    LET texts == {c \in commit.changes : c.supported /\ ~c.deleted}
    IN  UNION {{chunk.key : chunk \in {k \in change.chunks :
                    /\ k.key[2] # Prelude
                    /\ \E l \in ChangedLines(change) : l \in k.first .. k.last}}
               : change \in texts}

\* indexed_symbol_set, without the preludes.
IndexedSymbols(rows) == {k \in {rows[i].key : i \in DOMAIN rows} : k[2] # Prelude}

\* Slip: a commit is refused only if none of its symbols is indexed.
VerdictIfAllMissing(commit, indexed) ==
    IF commit.parents > 1 THEN "merge"
    ELSE IF commit.maintenance THEN "maintenance_pattern"
    ELSE IF commit.subject.words < MinWords THEN "subject_too_short"
    ELSE IF Touched(commit) = {} THEN "no_symbols_touched"
    ELSE IF Cardinality(Touched(commit)) > MaxSymbols THEN "too_many_symbols"
    ELSE IF Touched(commit) \intersect indexed = {} THEN "symbols_not_indexed"
    ELSE "accepted"

\* The filters of mine_commits, in their order.
Verdict(commit, indexed) ==
    IF commit.parents > 1 THEN "merge"
    ELSE IF commit.maintenance THEN "maintenance_pattern"
    ELSE IF commit.subject.words < MinWords THEN "subject_too_short"
    ELSE IF Touched(commit) = {} THEN "no_symbols_touched"
    ELSE IF Cardinality(Touched(commit)) > MaxSymbols THEN "too_many_symbols"
    ELSE IF Touched(commit) \ indexed # {} THEN "symbols_not_indexed"
    ELSE "accepted"

CommitLabel(i, commit) ==
    [query |-> commit.subject, expected |-> Touched(commit),
     source |-> "CommitSubject", provenance |-> <<i, "commit">>]

DocLabel(key, doc) ==
    [query |-> doc, expected |-> {key}, source |-> "Docstring", provenance |-> key]
-----------------------------------------------------------------------------
(***************************************************************************)
(* The index without documentation.                                        *)
(***************************************************************************)

\* Slip: documentation of the enclosing item is left in.
StripOuter(body) == Restrict(body, {i \in DOMAIN body : body[i].kind # "outer"})

\* strip_doc_comments: the lines that are left, by their number in the body.
StripDocComments(body) ==
    Restrict(body, {i \in DOMAIN body : body[i].kind \notin {"outer", "inner"}})

IsBlank(body) == \A i \in DOMAIN body : body[i].kind = "blank"

\* What a chunk comes to in insert_batch and add_batch: content the store has
\* already keeps its row and its record, and gets the document of the last
\* chunk.
Hold(index, chunk) ==
    LET body == StripDocComments(chunk.body)
        same == {i \in DOMAIN index.records : index.records[i].hash = chunk.hash}
        new  == [key |-> chunk.key, hash |-> chunk.hash, doc |-> None]
    IN  IF IsBlank(body) THEN index
        ELSE IF same = {}
        THEN [records |-> Append(index.records, new), bodies |-> Append(index.bodies, body)]
        ELSE [records |-> index.records, bodies |-> [index.bodies EXCEPT ![Min(same)] = body]]

EmptyIndex == [records |-> <<>>, bodies |-> <<>>]
-----------------------------------------------------------------------------
(***************************************************************************)
(* Metrics.                                                                *)
(***************************************************************************)

\* LengthBucket::from_query.
Bucket(label) ==
    IF label.query.words <= 4 THEN "Short" ELSE IF label.query.words <= 10 THEN "Medium" ELSE "Long"

\* The results of a search in one pass, degraded or not.
RankedFor(label, pass) == world.ranking[<<label.query, pass>>]
Keys(results) == [i \in DOMAIN results |-> results[i].key]

\* 2520 is divisible by every rank up to ten.
One == 2520

\* reciprocal_rank.
ReciprocalRank(ranked, expected) ==
    LET hit == {i \in DOMAIN ranked : ranked[i] \in expected}
    IN  IF hit = {} THEN 0 ELSE One \div Min(hit)

\* Slip: a label is a hit only if all it expects is among the first k.
HitIfAll(ranked, expected, k) ==
    expected \subseteq {ranked[i] : i \in DOMAIN ranked \intersect (1 .. k)}

\* The filter of top_k_accuracy.
Hit(ranked, expected, k) ==
    \E i \in DOMAIN ranked : i <= k /\ ranked[i] \in expected

\* percentile, on samples in ascending order: nearest rank, at least the first
\* and at most the last.
Percentile(sorted, percent) ==
    IF sorted = <<>> THEN 0
    ELSE LET n    == Len(sorted)
             rank == (percent * n + 99) \div 100
         IN  sorted[Min({Max({rank, 1}), n})]

\* mcp_bytes_to_first_hit and baseline_bytes_to_file: what is read up to and
\* including the first hit, or all of it.
BytesToFirst(sizes, hits) ==
    LET end == IF hits = {} THEN Len(sizes) ELSE Min(hits)
    IN  SumFunction([i \in 1 .. end |-> sizes[i]])

McpBytes(label) ==
    LET results == RankedFor(label, "bytes")
    IN  BytesToFirst([i \in DOMAIN results |-> results[i].size],
                     {i \in DOMAIN results : results[i].key \in label.expected})

\* The file is that of the first expected symbol.
BaselineBytes(label) ==
    LET files == world.matches
        file  == CHOOSE f \in {k[1] : k \in label.expected} :
                     \A k \in label.expected : f <= k[1]
    IN  BytesToFirst([i \in DOMAIN files |-> files[i].size],
                     {i \in DOMAIN files : files[i].file = file})

\* Samples in ascending order: the value at position k has fewer than k samples
\* below it, and at least k up to it.
Sorted(samples) ==
    LET below(v) == Cardinality({x \in DOMAIN samples : samples[x] < v})
        upTo(v)  == Cardinality({x \in DOMAIN samples : samples[x] <= v})
    IN  [k \in 1 .. Cardinality(DOMAIN samples) |->
            CHOOSE v \in Range(samples) : below(v) < k /\ k <= upTo(v)]

\* median_bytes_before_hit.
MedianBytes(set) ==
    [mcp |-> Percentile(Sorted([l \in set |-> McpBytes(l)]), 50),
     baseline |-> Percentile(Sorted([l \in set |-> BaselineBytes(l)]), 50)]

\* The latencies of a set of labels.
Latencies(set) == [l \in set |-> world.time[l.query]]

\* run_ablation.
RunAblation(pass, set, discarded) ==
    LET ranked(l) == Keys(RankedFor(l, pass))
        hits(k)   == Cardinality({l \in set : Hit(ranked(l), l.expected, k)})
    IN  [labels_scored    |-> Cardinality(set),
         labels_discarded |-> discarded,
         top_1  |-> hits(1),
         top_3  |-> hits(3),
         top_10 |-> hits(10),
         mrr    |-> SumFunction([l \in set |-> ReciprocalRank(ranked(l), l.expected)]),
         p50    |-> Percentile(Sorted(Latencies(set)), 50),
         p95    |-> Percentile(Sorted(Latencies(set)), 95)]

\* The labels of one score.
Of(job) ==
    {l \in scored : CASE job.by = "ablation" -> TRUE
                      [] job.by = "source"   -> l.source = job.value
                      [] job.by = "length"   -> Bucket(l) = job.value}

Job(by, value) == [by |-> by, value |-> value]

\* The scores evaluate computes: every configuration on all labels, then the
\* fused one on the labels of each source and of each length.
Plan ==
    <<Job("ablation", "LexicalOnly"), Job("ablation", "DenseOnly"), Job("ablation", "Fused"),
      Job("source", "CommitSubject"), Job("source", "Docstring"),
      Job("length", "Short"), Job("length", "Medium"), Job("length", "Long")>>

PassOf(job) == IF job.by = "ablation" THEN job.value ELSE job.by

\* The records the labels are looked up in.
RecordsOf(index) == IF index = "index" THEN world.rows ELSE held.records

\* partition_labels; here preludes count.
Scorable(label, records) ==
    /\ label.expected # {}
    /\ label.expected \subseteq {records[i].key : i \in DOMAIN records}
-----------------------------------------------------------------------------
Init ==
    /\ world \in Worlds
    /\ pc = "start"
    /\ at = 1
    /\ report = NewReport
    /\ mined = NewReport
    /\ labels = {}
    /\ seen = {}
    /\ held = EmptyIndex
    /\ target = None
    /\ scored = {}
    /\ scores = <<>>
    /\ bytes = None

\* require_mined_revision.
CheckRevision ==
    /\ pc = "start"
    /\ pc' = IF world.pinned THEN "commits" ELSE "failed"
    /\ UNCHANGED <<world, at, report, mined, labels, seen, held, target, scored, scores, bytes>>

CommitsLeft == at <= Len(world.log) /\ report.examined < world.max_commits

\* One commit of the walk.
ExamineCommit ==
    LET commit  == world.log[at]
        verdict == Verdict(commit, IndexedSymbols(world.rows))
        counted == [report EXCEPT !.examined = @ + 1]
    IN  /\ pc = "commits"
        /\ CommitsLeft
        /\ commit.parents > 1 \/ commit.readable
        /\ IF verdict = "accepted"
           THEN /\ labels' = labels \union {CommitLabel(at, commit)}
                /\ report' = [counted EXCEPT !.accepted = @ + 1]
           ELSE report' = Rejected(counted, verdict) /\ UNCHANGED labels
        /\ at' = at + 1
        /\ UNCHANGED <<world, pc, mined, seen, held, target, scored, scores, bytes>>

\* A subject that is not UTF-8 ends mining with an error.
MiningFails ==
    /\ pc = "commits"
    /\ CommitsLeft
    /\ world.log[at].parents <= 1 /\ ~world.log[at].readable
    /\ pc' = "failed"
    /\ labels' = {}
    /\ UNCHANGED <<world, at, report, mined, seen, held, target, scored, scores, bytes>>

CommitsDone ==
    /\ pc = "commits"
    /\ ~CommitsLeft
    /\ pc' = "rows"
    /\ mined' = report
    /\ report' = NewReport
    /\ at' = 1
    /\ UNCHANGED <<world, labels, seen, held, target, scored, scores, bytes>>

\* One row of the store: preludes and symbols that have a label count as
\* examined and as nothing else.
MineRow ==
    LET row     == world.rows[at]
        counted == [report EXCEPT !.examined = @ + 1]
    IN  /\ pc = "rows"
        /\ at <= Len(world.rows)
        /\ \/ /\ row.key[2] = Prelude \/ (row.doc # None /\ row.key \in seen)
              /\ report' = counted
              /\ UNCHANGED <<labels, seen>>
           \/ /\ row.key[2] # Prelude /\ row.doc = None
              /\ report' = Rejected(counted, "no_symbols_touched")
              /\ UNCHANGED <<labels, seen>>
           \/ /\ row.key[2] # Prelude /\ row.doc # None /\ row.key \notin seen
              /\ report' = [counted EXCEPT !.accepted = @ + 1]
              /\ labels' = labels \union {DocLabel(row.key, row.doc)}
              /\ seen' = seen \union {row.key}
        /\ at' = at + 1
        /\ UNCHANGED <<world, pc, mined, held, target, scored, scores, bytes>>

RowsDone ==
    /\ pc = "rows"
    /\ at > Len(world.rows)
    /\ pc' = "tree"
    /\ at' = 1
    /\ UNCHANGED <<world, report, mined, labels, seen, held, target, scored, scores, bytes>>

\* One chunk of the work tree.
MineChunk ==
    LET chunk == world.tree[at]
        new   == chunk.key[2] # Prelude /\ chunk.doc # None /\ chunk.key \notin seen
    IN  /\ pc = "tree"
        /\ at <= Len(world.tree)
        /\ IF new
           THEN /\ report' = [report EXCEPT !.examined = @ + 1, !.accepted = @ + 1]
                /\ labels' = labels \union {DocLabel(chunk.key, chunk.doc)}
                /\ seen' = seen \union {chunk.key}
           ELSE UNCHANGED <<report, labels, seen>>
        /\ at' = at + 1
        /\ UNCHANGED <<world, pc, mined, held, target, scored, scores, bytes>>

TreeDone ==
    /\ pc = "tree"
    /\ at > Len(world.tree)
    /\ pc' = "hold"
    /\ at' = 1
    /\ UNCHANGED <<world, report, mined, labels, seen, held, target, scored, scores, bytes>>

\* build_held_out_index chunks the work tree again.  The chunks are written in
\* one batch when all are there; held is what that batch comes to so far.
HoldChunk ==
    /\ pc = "hold"
    /\ at <= Len(world.tree)
    /\ held' = Hold(held, world.tree[at])
    /\ at' = at + 1
    /\ UNCHANGED <<world, pc, report, mined, labels, seen, target, scored, scores, bytes>>

HeldOutDone ==
    /\ pc = "hold"
    /\ at > Len(world.tree)
    /\ pc' = "split"
    /\ UNCHANGED <<world, at, report, mined, labels, seen, held, target, scored, scores, bytes>>

\* A file that cannot be read or an embedder that fails leaves an empty index.
HoldFails ==
    /\ pc = "hold"
    /\ held' = EmptyIndex
    /\ pc' = "failed"
    /\ UNCHANGED <<world, at, report, mined, labels, seen, target, scored, scores, bytes>>

\* evaluate starts with partition_labels on the index it is given.
Partition ==
    /\ pc = "split"
    /\ \E index \in {"index", "held"} :
          /\ target' = index
          /\ scored' = {l \in labels : Scorable(l, RecordsOf(index))}
    /\ pc' = "score"
    /\ at' = 1
    /\ UNCHANGED <<world, report, mined, labels, seen, held, scores, bytes>>

Discarded == Cardinality(labels) - Cardinality(scored)

\* A breakdown leaves out a source or a length without labels.
ScoreJob ==
    LET job == Plan[at]
    IN  /\ pc = "score"
        /\ at <= Len(Plan)
        /\ scores' = IF job.by # "ablation" /\ Of(job) = {} THEN scores
                     ELSE [j \in DOMAIN scores \union {job} |->
                              IF j = job THEN RunAblation(PassOf(job), Of(job), Discarded)
                              ELSE scores[j]]
        /\ at' = at + 1
        /\ UNCHANGED <<world, pc, report, mined, labels, seen, held, target, scored, bytes>>

\* A search that fails ends the evaluation without a result.
SearchFails ==
    /\ pc = "score"
    /\ at <= Len(Plan)
    /\ Of(Plan[at]) # {}
    /\ pc' = "failed"
    /\ scores' = <<>>
    /\ UNCHANGED <<world, at, report, mined, labels, seen, held, target, scored, bytes>>

MeasureBytes ==
    /\ pc = "score"
    /\ at > Len(Plan)
    /\ bytes' = MedianBytes(labels)
    /\ pc' = "done"
    /\ UNCHANGED <<world, at, report, mined, labels, seen, held, target, scored, scores>>

\* A search or the keyword search fails: no median, the scores are there.
MeasureFails ==
    /\ pc = "score"
    /\ at > Len(Plan)
    /\ labels # {}
    /\ pc' = "failed"
    /\ UNCHANGED <<world, at, report, mined, labels, seen, held, target, scored, scores, bytes>>

\* The next evaluation is another behaviour.
Stop == pc \in {"done", "failed"} /\ UNCHANGED vars

Next ==
    \/ CheckRevision
    \/ ExamineCommit
    \/ MiningFails
    \/ CommitsDone
    \/ MineRow
    \/ RowsDone
    \/ MineChunk
    \/ TreeDone
    \/ HoldChunk
    \/ HeldOutDone
    \/ HoldFails
    \/ Partition
    \/ ScoreJob
    \/ SearchFails
    \/ MeasureBytes
    \/ MeasureFails
    \/ Stop

Spec == Init /\ [][Next]_vars
-----------------------------------------------------------------------------
CommitLabels == {l \in labels : l.source = "CommitSubject"}
DocLabels == labels \ CommitLabels

\* A label mined from a commit can be scored on the index it was mined with:
\* partition_labels, which reads the store again and counts preludes, discards
\* none of them.  And the report of mine_commits accounts for every commit it
\* looked at (MiningReport::reconciles), never more than max_commits.
CommitLabelsAreScorable ==
    pc \notin {"start", "commits", "failed"} =>
        /\ \A l \in CommitLabels :
              /\ Scorable(l, world.rows)
              /\ Cardinality(l.expected) <= MaxSymbols
        /\ target = "index" => CommitLabels \subseteq scored
        /\ mined.accepted = Cardinality(CommitLabels)
        /\ Reconciles(mined)
        /\ mined.examined <= world.max_commits

\* The index for docstring labels contains no line a docstring label asks for
\* if that line is a /// or //! comment, and still contains what each label
\* of the work tree expects: its symbol, or a copy of the same content that
\* came before it and has its row (such a label is then discarded).
HeldOutIndexIsFair ==
    pc \in {"split", "score", "done"} =>
        /\ \A l \in DocLabels : l.query.kind \in {"outer", "inner"} =>
              \A r \in DOMAIN held.bodies : l.query \notin Range(held.bodies[r])
        /\ \A r \in DOMAIN held.records : held.records[r].doc = None
        /\ \A i \in DOMAIN world.tree :
              \/ IsBlank(StripDocComments(world.tree[i].body))
              \/ \E r \in DOMAIN held.records, j \in 1 .. i :
                    /\ held.records[r].key = world.tree[j].key
                    /\ j = i \/ world.tree[j].hash = world.tree[i].hash

\* Least of the samples that at least so many percent of them do not exceed.
LeastCovering(samples, percent) ==
    LET upTo(v) == Cardinality({x \in DOMAIN samples : samples[x] <= v})
    IN  Min({v \in Range(samples) : 100 * upTo(v) >= percent * Cardinality(DOMAIN samples)})

\* The figure of one part of a breakdown; a part without labels has none.
Part(job, f) == IF job \in DOMAIN scores THEN scores[job][f] ELSE 0

\* The searches of a breakdown found what those of the fused pass found.
AsFused(pass) == \A l \in scored : Keys(RankedFor(l, pass)) = Keys(RankedFor(l, "Fused"))

\* The figures of an evaluation agree with each other: accuracy grows with the
\* cutoff, the mean reciprocal rank lies between the first and the last of
\* them, each percentile is the least sample that covers its share, every
\* label is scored or discarded, the labels of the parts of a breakdown by
\* source or by length add up to those of the fused pass, and so do the other
\* figures unless the repeated searches answered differently (a degraded
\* response is accepted like any other).
FiguresAgree ==
    pc = "done" =>
        /\ \A j \in DOMAIN scores :
              LET s == scores[j]
              IN  /\ s.top_1 <= s.top_3 /\ s.top_3 <= s.top_10
                  /\ s.top_10 <= s.labels_scored
                  /\ One * s.top_1 <= s.mrr /\ s.mrr <= One * s.top_10
                  /\ j.by = "ablation" =>
                        s.labels_scored + s.labels_discarded = Cardinality(labels)
                  /\ Of(j) # {} => /\ s.p50 = LeastCovering(Latencies(Of(j)), 50)
                                   /\ s.p95 = LeastCovering(Latencies(Of(j)), 95)
        /\ \A f \in {"labels_scored", "top_1", "top_3", "top_10", "mrr"} :
              LET fused == scores[Job("ablation", "Fused")][f]
              IN  /\ f = "labels_scored" \/ AsFused("source") =>
                        fused = Part(Job("source", "CommitSubject"), f)
                                 + Part(Job("source", "Docstring"), f)
                  /\ f = "labels_scored" \/ AsFused("length") =>
                        fused = Part(Job("length", "Short"), f)
                                 + Part(Job("length", "Medium"), f)
                                 + Part(Job("length", "Long"), f)
        /\ labels # {} => /\ bytes.mcp = LeastCovering([l \in labels |-> McpBytes(l)], 50)
                          /\ bytes.baseline =
                                LeastCovering([l \in labels |-> BaselineBytes(l)], 50)
=============================================================================
