------------------------------- MODULE MCEval -------------------------------
EXTENDS Eval

\* Files are numbers, symbols names.
A == <<1, "a">>
B == <<1, "b">>
C == <<2, "c">>
P == <<1, Prelude>>

Line(kind, text, words) == [kind |-> kind, text |-> text, words |-> words]
Source == Line("code", "fn", 2)
Empty == Line("blank", "", 0)
Docs == {Line("outer", "says", 4), Line("inner", "says", 5), Line("plain", "says", 11)}

-----------------------------------------------------------------------------
\* Chunks of a new text: the prelude, then a on lines 1 and 2, b on line 3.
NewText ==
    {[key |-> P, first |-> 1, last |-> 1], [key |-> A, first |-> 1, last |-> 2],
     [key |-> B, first |-> 3, last |-> 3]}

Change(diff) ==
    [supported |-> TRUE, deleted |-> FALSE, created |-> FALSE, diff |-> diff,
     chunks |-> NewText]

Created ==
    [Change(<<"+">>) EXCEPT !.created = TRUE,
                            !.chunks = {[key |-> C, first |-> 1, last |-> 1]}]

Commit(text, words, changes) ==
    [parents |-> 1, maintenance |-> FALSE, readable |-> TRUE,
     subject |-> Line("subject", text, words), changes |-> changes]

Touch1 == Commit("one", 4, {Change(<<"-", "=", "=", "+">>)})
Touch2 == Commit("two", 11, {Change(<<"=", "+", "+", "-">>)})

Log == {
    Touch1, Touch2,
    [Touch1 EXCEPT !.parents = 2],
    [Touch1 EXCEPT !.parents = 2, !.readable = FALSE],
    [Touch1 EXCEPT !.readable = FALSE],
    [Touch1 EXCEPT !.maintenance = TRUE],
    [Touch1 EXCEPT !.subject = Line("subject", "one", 3)],
    [Commit("new", 5, {Created}) EXCEPT !.parents = 0],
    Commit("new", 5, {Created, Change(<<"+", "=", "+">>)}),
    Commit("new", 5, {Change(<<"=", "-", "-">>)}),
    Commit("new", 5, {[Change(<<"+">>) EXCEPT !.supported = FALSE],
               [Change(<<"-">>) EXCEPT !.deleted = TRUE]})}

Row(key, doc) == [key |-> key, hash |-> key, doc |-> doc]

Queries == {c.subject : c \in Log} \union Docs
Found(key, size) == [key |-> key, size |-> size]
SameRanking(results) == [q \in Queries \X (Passes \union {"bytes"}) |-> results]

Base ==
    [pinned |-> TRUE, max_commits |-> 3, log |-> <<>>, rows |-> <<>>, tree |-> <<>>,
     ranking |-> SameRanking(<<Found(B, 2), Found(A, 1)>>),
     time |-> [q \in Queries |-> 1],
     matches |-> <<[file |-> 2, size |-> 3], [file |-> 1, size |-> 1]>>]

\* Every log of up to two commits on several indexes.
CommitWorlds ==
    {[Base EXCEPT !.log = log, !.rows = rows, !.max_commits = max, !.pinned = pinned] :
        log \in BoundedSeq(Log, 2),
        rows \in {<<>>, <<Row(B, None)>>, <<Row(P, None), Row(A, None)>>,
                  <<Row(A, None), Row(B, None), Row(C, None)>>},
        max \in {1, 3}, pinned \in BOOLEAN}
-----------------------------------------------------------------------------
Chunk(key, hash, doc, body) == [key |-> key, hash |-> hash, doc |-> doc, body |-> body]

\* Documented and undocumented chunks, a copy in another file, a prelude of
\* documentation only, a fragment that repeats its symbol.
TreeChunks ==
    {Chunk(A, "h", d, <<d, Source>>) : d \in Docs}
        \union {Chunk(C, "h", d, <<d, Source>>) : d \in Docs}
        \union {Chunk(A, "i", None, <<Source, Line("outer", "says", 4), Empty>>),
                Chunk(P, "p", None, <<Line("inner", "says", 5), Empty>>)}

DocWorlds ==
    {[Base EXCEPT !.tree = tree, !.rows = rows] :
        tree \in BoundedSeq(TreeChunks, 3),
        rows \in {<<>>, <<Row(P, None), Row(A, Line("outer", "says", 4)), Row(B, None)>>,
                  <<Row(A, Line("inner", "says", 5)), Row(A, None), Row(A, Line("outer", "says", 4))>>}}
-----------------------------------------------------------------------------
\* Four labels, with every combination of places of the first hit and of times.
\* The fused searches are repeated by the breakdowns and for the byte count; in
\* the passes that are degraded they answer like the lexical ones.
Places == {<<>>, <<Found(B, 1), Found(A, 2)>>, <<Found(A, 3)>>,
           <<Found(P, 1), Found(P, 1), Found(P, 1), Found(B, 1)>>}

Asked == <<Touch1.subject, Touch2.subject, Line("outer", "says", 4)>>

ScoreWorlds(times, degraded) ==
    {[Base EXCEPT !.log = <<Touch1, Touch2, Commit("new", 5, {Created})>>,
                  !.rows = <<Row(A, Line("outer", "says", 4)), Row(B, None)>> \o more,
                  !.ranking = [q \in DOMAIN Base.ranking |->
                                  IF /\ q[2] \in {"Fused", "source", "length", "bytes"} \ degraded
                                     /\ q[1] \in ToSet(Asked)
                                  THEN place[CHOOSE i \in 1 .. 3 : Asked[i] = q[1]]
                                  ELSE Base.ranking[q]],
                  !.time = [q \in Queries |->
                               IF q \in ToSet(Asked)
                               THEN time[CHOOSE i \in 1 .. 3 : Asked[i] = q] ELSE 2]] :
        place \in [1 .. 3 -> Places], time \in times,
        more \in {<<>>, <<Row(C, None)>>}}

MCWorlds ==
    CommitWorlds \union DocWorlds \union ScoreWorlds([1 .. 3 -> {1, 2, 3}], {})
        \union ScoreWorlds({<<1, 2, 3>>}, {"source"})
        \union ScoreWorlds({<<1, 2, 3>>}, {"length", "bytes"})
=============================================================================
