------------------------------ MODULE Chunker -------------------------------
(***************************************************************************)
(* From a path to the chunks of its file: the exclusion rules, then        *)
(* Chunker::chunk_file, which cuts the text along the symbols tree-sitter  *)
(* reports, splits what is too long and keeps what stands above the first  *)
(* symbol as the file prelude.                                             *)
(*                                                                         *)
(* A text is a sequence of characters of four kinds: "x" code, "c" the     *)
(* first character of something that looks like a comment line, "_" space  *)
(* and "n" newline.  Offsets count from 0 and ranges are half open, as in  *)
(* the code; a body is the set or sequence of offsets it is made of, so    *)
(* that no character can be mistaken for an equal one.  Lines end with a   *)
(* single newline.  The syntax tree is an input: tree-sitter is external.  *)
(***************************************************************************)
EXTENDS Integers, Sequences, FiniteSets, SequencesExt, FiniteSetsExt

CONSTANTS
    Inputs,      \* files: path, how they are reached, content and tree
    Limit,       \* OVERSIZE_CHAR_THRESHOLD
    PreludeMin,  \* FILE_PRELUDE_MIN_CHARS
    None         \* Option::None

\* Two ranges of a syntax tree lie apart or one inside the other.
Laminar(r, s) ==
    \/ r.to <= s.from
    \/ s.to <= r.from
    \/ r.from <= s.from /\ s.to <= r.to
    \/ s.from <= r.from /\ r.to <= s.to

\* What tree-sitter answers for a text: definitions that start at a token,
\* each with a name of its own and so no two with one range, and comments
\* beside them that no definition starts in or behind; what a definition
\* starts with has none beside it.
IsTree(text, nodes) ==
    /\ IsFiniteSet(nodes)
    /\ \A n \in nodes :
          /\ n.from \in 0 .. (Len(text) - 1)
          /\ n.to \in (n.from + 1) .. Len(text)
          /\ text[n.from + 1] \notin {"_", "n"}
          /\ n.container \in BOOLEAN
          /\ n.name \in Seq(STRING) /\ n.name # <<>>
          /\ n.comment \in 0 .. n.from \union {None}
    /\ \A m, n \in nodes :
          /\ Laminar(m, n)
          /\ m # n => m.from # n.from \/ m.to # n.to
          /\ m.from < n.from /\ n.comment # None => m.from < n.comment
          /\ m.from = n.from /\ n.to < m.to => n.comment = None

ASSUME ChunkerAssumption ==
    /\ Limit \in Nat
    /\ PreludeMin \in Nat \ {0}
    /\ None \notin Nat
    /\ None \notin {"SecretPattern", "VendorDirectory", "GeneratedPattern", "GitIgnored",
                    "UnsupportedLanguage", "Unread"}
    /\ \A file \in Inputs :
          /\ file.path \in Seq(STRING)
          /\ file.text \in Seq({"x", "c", "_", "n"})
          /\ IsTree(file.text, file.nodes)
          /\ file.ends \in SUBSET (0 .. Len(file.text))

VARIABLES
    input,    \* the file
    pc,       \* "path", "parse", "hit", "cut", "lines", "done"
    refused,  \* SkipReason of a file that is not read, or None
    hits,     \* the symbols, ordered by range
    at,       \* the symbol being cut
    cut,      \* the state of the loop of split_if_oversize
    split,    \* the state of the loop of hard_split
    covered,  \* ranges of symbols that have a chunk
    chunks    \* the chunks so far

vars == <<input, pc, refused, hits, at, cut, split, covered, chunks>>
-----------------------------------------------------------------------------
(***************************************************************************)
(* Exclusions.  A path is a sequence of components, each known by the rule *)
(* its name falls under.  The asterisk of a glob also matches a slash, so  *)
(* a pattern that ends with one ("secret", "generated") matches everything *)
(* below a directory of that name, and one that ends with an extension     *)
(* ("pem", "pb2") only the end of the path.  For .gitignore the innermost  *)
(* component with a rule decides, to ignore it or, negated, to keep it.    *)
(***************************************************************************)

Matches(path, open, closed) ==
    \/ \E i \in DOMAIN path : path[i] = open
    \/ path # <<>> /\ Last(path) = closed

GitIgnored(path) ==
    LET ruled == {i \in DOMAIN path : path[i] \in {"ignored", "kept"}}
    IN  ruled # {} /\ path[Max(ruled)] = "ignored"

\* Slip: a vendor directory is recognised by the name of the file only.
CheckName(path) ==
    IF Matches(path, "secret", "pem") THEN "SecretPattern"
    ELSE IF path # <<>> /\ Last(path) = "vendor" THEN "VendorDirectory"
    ELSE IF Matches(path, "generated", "pb2") THEN "GeneratedPattern"
    ELSE IF GitIgnored(path) THEN "GitIgnored"
    ELSE None

\* Exclusions::check_path: the first rule that applies.
CheckPath(path) ==
    IF Matches(path, "secret", "pem") THEN "SecretPattern"
    ELSE IF Matches(path, "vendor", "vendor") THEN "VendorDirectory"
    ELSE IF Matches(path, "generated", "pb2") THEN "GeneratedPattern"
    ELSE IF GitIgnored(path) THEN "GitIgnored"
    ELSE None

\* collect_all_files does not go down into a directory check_path refuses;
\* work_item_for_path looks at the whole path only.
PathRefused(file, route) ==
    LET dirs == {SubSeq(file.path, 1, n) : n \in 1 .. (Len(file.path) - 1)}
    IN  IF route = "walk" /\ \E d \in dirs : CheckPath(d) # None
        THEN CheckPath(CHOOSE d \in dirs :
                           /\ CheckPath(d) # None
                           /\ \A e \in dirs : CheckPath(e) # None => Len(d) <= Len(e))
        ELSE CheckPath(file.path)

\* The decisions that follow: the language, then read_source, which answers
\* None for a file that is too large, has a zero byte among the first ones or
\* is not UTF-8.
Refused(file, route) ==
    IF PathRefused(file, route) # None THEN PathRefused(file, route)
    ELSE IF ~file.supported THEN "UnsupportedLanguage"
    ELSE IF file.content # "text" THEN "Unread"
    ELSE None
-----------------------------------------------------------------------------
(***************************************************************************)
(* Text.                                                                   *)
(***************************************************************************)

Size == Len(input.text)
Char(o) == input.text[o + 1]
Blank(o) == Char(o) \in {"_", "n"}
Span(range) == range.from .. (range.to - 1)
Between(from, to) == [from |-> from, to |-> to]

\* A sort: the i-th element of a finite set is the one that i - 1 elements
\* come before.
Ordered(set, before) ==
    [i \in 1 .. Cardinality(set) |->
        CHOOSE x \in set : Cardinality({y \in set : <<y, x>> \in before}) = i - 1]

InOrder(offsets) == Ordered(offsets, {p \in offsets \X offsets : p[1] < p[2]})

\* str::trim of a range.
Trimmed(range) ==
    LET solid == {o \in Span(range) : ~Blank(o)}
    IN  IF solid = {} THEN Between(range.to, range.to)
        ELSE Between(Min(solid), Max(solid) + 1)

\* byte_to_line.
LineOf(o) == 1 + Cardinality({p \in 0 .. (Size - 1) : p < o /\ Char(p) = "n"})

LineStarts(end) == {o \in 0 .. (end - 1) : o = 0 \/ Char(o - 1) = "n"}

LooksLikeComment(line, end) ==
    LET solid == {o \in line .. (end - 1) : ~Blank(o) /\ LineOf(o) = LineOf(line)}
    IN  solid # {} /\ Char(Min(solid)) = "c"

\* attached_doc: skip the space before the node, then take the lines above it
\* for as long as they look like comments; failing that, the comment nodes
\* next to it in the tree.
AttachedDoc(node) ==
    LET before == Trimmed(Between(0, node.from))
        end    == IF before.from = before.to THEN 0 ELSE before.to
        block  == {l \in LineStarts(end) :
                      \A m \in LineStarts(end) : m >= l => LooksLikeComment(m, end)}
    IN  IF block # {} THEN Min(block) ELSE node.comment

\* The order in which the query finds two nodes: outer ones first.
Found(m, n) == m.from < n.from \/ (m.from = n.from /\ m.to > n.to)

\* range_contains.
Encloses(outer, inner) ==
    /\ outer # inner
    /\ outer.from <= inner.from
    /\ inner.to <= outer.to

\* Slip: the lines are those of the construct without its documentation.
HitOfNodeLines(node) ==
    LET doc == AttachedDoc(node)
        r   == Between(IF doc = None THEN node.from ELSE doc, node.to)
    IN  [node |-> node, range |-> r, name |-> node.name,
         lines |-> <<LineOf(node.from), LineOf(Max({r.to - 1, r.from}))>>]

\* One match of the query: the range includes the documentation.
HitOf(node) ==
    LET doc == AttachedDoc(node)
        r   == Between(IF doc = None THEN node.from ELSE doc, node.to)
    IN  [node |-> node, range |-> r, name |-> node.name,
         lines |-> <<LineOf(r.from), LineOf(Max({r.to - 1, r.from}))>>]

\* Containers by their start, those with the same start as they were found.
OuterFirst(all) ==
    {p \in all \X all : \/ p[1].range.from < p[2].range.from
                        \/ /\ p[1].range.from = p[2].range.from
                           /\ Found(p[1].node, p[2].node)}

\* qualify_names: the simple names of the containers around it, outermost
\* first, and its own.
Qualify(hit, all) ==
    LET parents == Ordered({h \in all : h.node.container
                                        /\ Encloses(h.range, hit.range)},
                           OuterFirst(all))
        outer   == [i \in DOMAIN parents |-> Last(parents[i].name)]
    IN  IF parents = <<>> THEN hit
        ELSE [hit EXCEPT !.name = Append(outer, Last(hit.name))]

\* order_with_containers: by start and end; the sort is stable.
ByRange(all) ==
    {p \in all \X all : \/ p[1].range.from < p[2].range.from
                        \/ /\ p[1].range.from = p[2].range.from
                           /\ p[1].range.to < p[2].range.to
                        \/ p[1].range = p[2].range /\ Found(p[1].node, p[2].node)}

\* collect_symbols and order_with_containers.
Symbols ==
    LET found == {HitOf(node) : node \in input.nodes}
        all   == {Qualify(hit, found) : hit \in found}
    IN  Ordered(all, ByRange(all))

\* The cursor of body_minus_members behind some of the members.
Cursor(outer, members) == Max({outer.from} \union {m.to : m \in members})

\* The members its loop has gone through when it comes to the first that
\* starts where m does; between two that start together there is nothing.
Earlier(m, members) == {k \in members : k.from < m.from}

\* Slip: what follows the last member is dropped.
MinusMembersShort(outer, members) ==
    UNION {Cursor(outer, Earlier(m, members)) .. (m.from - 1) : m \in members}

\* body_minus_members: the pieces between the members, and what follows.
MinusMembers(outer, members) ==
    (UNION {Cursor(outer, Earlier(m, members)) .. (m.from - 1) : m \in members})
        \union (Cursor(outer, members) .. (outer.to - 1))

\* The body of a symbol: a container leaves out the symbols inside it.
BodyOf(hit) ==
    LET members == {hits[i].range : i \in {j \in DOMAIN hits :
                                             Encloses(hit.range, hits[j].range)}}
    IN  IF hit.node.container /\ members # {}
        THEN MinusMembers(hit.range, members)
        ELSE Span(hit.range)
-----------------------------------------------------------------------------
(***************************************************************************)
(* Splitting.                                                              *)
(***************************************************************************)

\* first_signature_line: the first line of the node, trimmed.
SignatureEnd(hit) ==
    LET line == {o \in Span(hit.node) : LineOf(o) = LineOf(hit.node.from)}
    IN  Trimmed(Between(hit.node.from, Max(line) + 1)).to

SignatureSize(hit) == SignatureEnd(hit) - hit.node.from

\* prefix_sig: whether the signature is put in front of this text.
Prefixed(hit, from, to) == ~(from = hit.node.from /\ to >= SignatureEnd(hit))

Fragment(hit, from, to) ==
    [text |-> from .. (to - 1), prefixed |-> Prefixed(hit, from, to)]

FragmentSize(hit, f) ==
    Cardinality(f.text) + (IF f.prefixed THEN SignatureSize(hit) + 1 ELSE 0)

\* The ends of the statements inside a symbol, in order, without repetition.
StatementEnds(hit) ==
    InOrder({e \in input.ends : hit.node.from < e /\ e <= hit.node.to})

\* body.lines(): the k-th line of a text, and their number, with no empty
\* line after a final newline.
Newlines(body) == {p \in body : Char(p) = "n"}

LineAt(body, k) ==
    {o \in body \ Newlines(body) : Cardinality({p \in Newlines(body) : p < o}) = k - 1}

LineCount(body) ==
    Cardinality(Newlines(body))
        + (IF \E o \in body : \A p \in Newlines(body) : p < o THEN 1 ELSE 0)

\* The chunks of a symbol.  All of them carry its name and its lines.
Chunk(hit, fragment, text) ==
    [symbol |-> hit.name, lines |-> hit.lines, fragment |-> fragment,
     text |-> text, of |-> hit]

Emit(hit, texts) ==
    chunks \o [i \in DOMAIN texts |-> Chunk(hit, i - 1, texts[i])]

FragmentTexts(frags) == [i \in DOMAIN frags |-> frags[i].text]

NoCut == [start |-> 0, last |-> 0, ends |-> <<>>, frags |-> <<>>]
NoSplit == [line |-> 1, out |-> <<>>, buf |-> {}, size |-> 0]
-----------------------------------------------------------------------------
Init ==
    /\ input \in Inputs
    /\ pc = "path"
    /\ refused = None
    /\ hits = <<>>
    /\ at = 1
    /\ cut = NoCut
    /\ split = NoSplit
    /\ covered = {}
    /\ chunks = <<>>

\* The path, the language, the size and the first bytes of a file.
Admit ==
    /\ pc = "path"
    /\ refused' = Refused(input, input.route)
    /\ pc' = IF refused' = None THEN "parse" ELSE "done"
    /\ UNCHANGED <<input, hits, at, cut, split, covered, chunks>>

\* chunk_file up to the symbols.  A file without a tree, or with too much of
\* it in error, yields nothing.
Parse ==
    /\ pc = "parse"
    /\ IF input.parses
       THEN pc' = "hit" /\ hits' = Symbols
       ELSE pc' = "done" /\ UNCHANGED hits
    /\ UNCHANGED <<input, refused, at, cut, split, covered, chunks>>

Current == hits[at]

\* A symbol whose body is blank has no chunk and covers nothing.
SkipBlank ==
    /\ pc = "hit"
    /\ at <= Len(hits)
    /\ \A o \in BodyOf(Current) : Blank(o)
    /\ at' = at + 1
    /\ UNCHANGED <<input, pc, refused, hits, cut, split, covered, chunks>>

HasBody ==
    /\ pc = "hit"
    /\ at <= Len(hits)
    /\ \E o \in BodyOf(Current) : ~Blank(o)

\* A symbol that fits is one chunk.
TakeWhole ==
    /\ HasBody
    /\ Cardinality(BodyOf(Current)) <= Limit
    /\ chunks' = Append(chunks, Chunk(Current, None, BodyOf(Current)))
    /\ covered' = covered \union {Current.range}
    /\ at' = at + 1
    /\ UNCHANGED <<input, pc, refused, hits, cut, split>>

\* One that does not, and has no statements, is split by lines.
SplitLines ==
    /\ HasBody
    /\ Cardinality(BodyOf(Current)) > Limit
    /\ StatementEnds(Current) = <<>>
    /\ covered' = covered \union {Current.range}
    /\ pc' = "lines"
    /\ UNCHANGED <<input, refused, hits, at, cut, split, chunks>>

\* hard_split, one line: joined to the buffer if both fit the limit.  The
\* buffer counts as empty while it has no character.
TakeLine ==
    LET line == LineAt(BodyOf(Current), split.line)
        full == split.size > 0 /\ split.size + Cardinality(line) + 1 > Limit
        kept == IF full \/ split.size = 0 THEN 0 ELSE split.size + 1
    IN  /\ pc = "lines"
        /\ split.line <= LineCount(BodyOf(Current))
        /\ split' = [line |-> split.line + 1,
                     out  |-> IF full THEN Append(split.out, split.buf) ELSE split.out,
                     buf  |-> (IF full THEN {} ELSE split.buf) \union line,
                     size |-> kept + Cardinality(line)]
        /\ UNCHANGED <<input, pc, refused, hits, at, cut, covered, chunks>>

\* The end of hard_split: the buffer, and the body itself if there is nothing.
EndLines ==
    LET out == IF split.size > 0 THEN Append(split.out, split.buf) ELSE split.out
    IN  /\ pc = "lines"
        /\ split.line > LineCount(BodyOf(Current))
        /\ chunks' = Emit(Current, IF out = <<>> THEN <<BodyOf(Current)>> ELSE out)
        /\ split' = NoSplit
        /\ at' = at + 1
        /\ pc' = "hit"
        /\ UNCHANGED <<input, refused, hits, cut, covered>>

\* One that has them is split behind statements; the text that is split is
\* the whole range, members included.
StartCut ==
    /\ HasBody
    /\ Cardinality(BodyOf(Current)) > Limit
    /\ StatementEnds(Current) # <<>>
    /\ cut' = [start |-> Current.range.from, last |-> Current.range.from,
               ends |-> StatementEnds(Current), frags |-> <<>>]
    /\ covered' = covered \union {Current.range}
    /\ pc' = "cut"
    /\ UNCHANGED <<input, refused, hits, at, split, chunks>>

\* Slip: a candidate beyond the limit is not cut at the last statement first.
CutAtStatementOnce ==
    LET end  == Head(cut.ends)
        size == end - cut.start
    IN  /\ pc = "cut"
        /\ cut.ends # <<>>
        /\ cut' = IF size >= Limit \div 2
                  THEN [start |-> end, last |-> end, ends |-> Tail(cut.ends),
                        frags |-> Append(cut.frags, Fragment(Current, cut.start, end))]
                  ELSE [cut EXCEPT !.last = end, !.ends = Tail(@)]
        /\ UNCHANGED <<input, pc, refused, hits, at, split, covered, chunks>>

\* One statement end: cut there if the candidate is at least half the limit,
\* and before it too if it is beyond the limit.
CutAtStatement ==
    LET end   == Head(cut.ends)
        size  == end - cut.start
        first == IF size > Limit /\ cut.last > cut.start
                 THEN <<Fragment(Current, cut.start, cut.last)>> ELSE <<>>
        from  == IF first = <<>> THEN cut.start ELSE cut.last
    IN  /\ pc = "cut"
        /\ cut.ends # <<>>
        /\ cut' = IF size >= Limit \div 2
                  THEN [start |-> end, last |-> end, ends |-> Tail(cut.ends),
                        frags |-> cut.frags \o first
                                      \o <<Fragment(Current, from, end)>>]
                  ELSE [cut EXCEPT !.last = end, !.ends = Tail(@)]
        /\ UNCHANGED <<input, pc, refused, hits, at, split, covered, chunks>>

\* What follows the last cut: dropped if blank, joined to the last fragment
\* if that stays within the limit, a fragment of its own otherwise.
WithRest ==
    LET whole == Between(cut.start, Current.range.to)
        rest  == Trimmed(whole)
        last  == Last(cut.frags)
    IN  IF \A o \in Span(whole) : Blank(o) THEN cut.frags
        ELSE IF cut.frags # <<>>
                /\ FragmentSize(Current, last) + rest.to - rest.from <= Limit
        THEN [cut.frags EXCEPT ![Len(cut.frags)].text = @ \union Span(rest)]
        ELSE Append(cut.frags, Fragment(Current, whole.from, whole.to))

\* Without any fragment the body is split by lines after all.
EndCut ==
    /\ pc = "cut"
    /\ cut.ends = <<>>
    /\ chunks' = Emit(Current, FragmentTexts(WithRest))
    /\ cut' = NoCut
    /\ at' = IF WithRest = <<>> THEN at ELSE at + 1
    /\ pc' = IF WithRest = <<>> THEN "lines" ELSE "hit"
    /\ UNCHANGED <<input, refused, hits, split, covered>>

\* file_prelude: the text above the first covered range, or the whole file.
Prelude ==
    LET end  == IF covered = {} THEN Size ELSE Min({r.from : r \in covered})
        text == Trimmed(Between(0, end))
    IN  IF text.to - text.from >= PreludeMin
        THEN <<[symbol |-> <<"file_prelude">>,
                lines |-> <<1, LineOf(Max({end - 1, 0}))>>,
                fragment |-> None, text |-> Span(text),
                of |-> [range |-> Between(0, end)]]>>
        ELSE <<>>

Finish ==
    /\ pc = "hit"
    /\ at > Len(hits)
    /\ chunks' = Prelude \o chunks
    /\ pc' = "done"
    /\ UNCHANGED <<input, refused, hits, at, cut, split, covered>>

\* The next file is another behaviour.
Stop == pc = "done" /\ UNCHANGED vars

Next ==
    \/ Admit
    \/ Parse
    \/ SkipBlank
    \/ TakeWhole
    \/ SplitLines
    \/ TakeLine
    \/ EndLines
    \/ StartCut
    \/ CutAtStatement
    \/ EndCut
    \/ Finish
    \/ Stop

Spec == Init /\ [][Next]_vars
-----------------------------------------------------------------------------
Chunked == pc = "done" /\ hits # <<>>

Solid(offsets) == {o \in offsets : ~Blank(o)}

\* Nothing a named construct contains vanishes (SIFT-003: "Nested constructs
\* do not silently vanish"): every character of a symbol that is not blank is
\* in the text of some chunk, whatever was nested, split or skipped, and what
\* stands above all symbols is in the prelude if it is long enough.
NothingLost ==
    pc = "done" /\ refused = None /\ input.parses =>
        LET kept  == UNION {chunks[i].text : i \in DOMAIN chunks}
            above == Solid(0 .. (Min({h.range.from : h \in ToSet(hits)}
                                        \union {Size}) - 1))
        IN  /\ \A i \in DOMAIN hits : Solid(Span(hits[i].range)) \subseteq kept
            /\ Cardinality(above) >= PreludeMin => above \subseteq kept

FragmentsOf(hit) ==
    {i \in DOMAIN chunks : chunks[i].of = hit /\ chunks[i].fragment # None}

\* The fragments of a symbol follow each other in the order of the text, none
\* reaches into the next, and one is longer than the limit only if it could
\* not be cut: no statement ends inside it, except in the last one, where one
\* may end in the first half of the limit.
FragmentsFollow ==
    Chunked =>
        \A h \in DOMAIN hits :
            LET own  == FragmentsOf(hits[h])
                ends == ToSet(StatementEnds(hits[h]))
            IN  \A i \in own :
                    LET text  == chunks[i].text
                        inner == {e \in ends : Min(text) < e /\ e <= Max(text)}
                    IN  /\ \A j \in own : i < j =>
                              \A o \in text, p \in chunks[j].text : o < p
                        /\ ends # {} /\ Cardinality(text) > Limit =>
                              IF i = Max(own)
                              THEN \A e \in inner : e - Min(text) < Limit \div 2
                              ELSE inner = {}

\* No symbol starts on a line that looks like a comment.  One that does (an
\* attribute and its item on one line, a generator method) is taken for the
\* documentation of the symbol below it.
CommentsApart ==
    \A n \in input.nodes, l \in LineStarts(Size) :
        LineOf(l) = LineOf(n.from) => ~LooksLikeComment(l, Size)

\* A record describes its text: every character that is not blank lies on the
\* lines it gives, and the containers its name gives are those whose nodes
\* enclose the symbol, outermost first.
RecordsDescribe ==
    Chunked /\ CommentsApart =>
        /\ \A i \in DOMAIN chunks : \A o \in Solid(chunks[i].text) :
              LineOf(o) \in chunks[i].lines[1] .. chunks[i].lines[2]
        /\ \A i \in DOMAIN chunks :
              chunks[i].lines[2] <= LineOf(Max(chunks[i].text \union
                                               Span(chunks[i].of.range)))
        /\ \A i \in DOMAIN hits :
              LET around == {n \in input.nodes :
                                n.container /\ n # hits[i].node
                                /\ n.from <= hits[i].node.from
                                /\ hits[i].node.to <= n.to}
                  outer  == Ordered(around, {p \in around \X around :
                                                p[1].to - p[1].from > p[2].to - p[2].from})
              IN  hits[i].name =
                      IF around = {} THEN hits[i].node.name
                      ELSE Append([k \in DOMAIN outer |-> Last(outer[k].name)],
                                  Last(hits[i].node.name))

\* A file is refused on its own when an index is updated exactly if a walk of
\* the whole repository would not have reached it, unless one of its
\* directories has a name only a file should have (keys.pem/) or a negated
\* pattern keeps something inside an ignored directory.
RoutesAgree ==
    /\ \A i \in 1 .. (Len(input.path) - 1) : input.path[i] \notin {"pem", "pb2"}
    /\ \A i \in DOMAIN input.path : input.path[i] # "kept"
    => (Refused(input, "walk") = None) = (Refused(input, "update") = None)
=============================================================================
