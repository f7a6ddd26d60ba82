----------------------------- MODULE MCChunker ------------------------------
EXTENDS Chunker

Sym(from, to, container, name, comment) ==
    [from |-> from, to |-> to, container |-> container, name |-> name,
     comment |-> comment]

File(text, nodes, ends) ==
    [path |-> <<"plain">>, route |-> "walk", supported |-> TRUE,
     content |-> "text", parses |-> TRUE, text |-> text, nodes |-> nodes,
     ends |-> ends]

\* A function of eight characters below a line of code or its documentation,
\* every way to break it into lines and every set of statements in it.
Long ==
    UNION {LET text == head \o <<"x">> \o inner \o <<"x">>
               from == Len(head)
               last == {e \in (from + 2) .. (from + 8) : text[e] = "x"}
           IN  {File(text, {Sym(from, from + 8, FALSE, <<"f">>, None)}, ends) :
                   ends \in SUBSET last}
           : head \in {<<"x">>, <<"c", "n">>}, inner \in [1 .. 6 -> {"x", "n"}]}

\* Short texts with comments and blank lines.
Texts == {
    <<"x", "n", "c", "n", "x", "_", "x", "n", "x">>,
    <<"c", "n", "x", "n", "_", "x", "n", "_", "x">>,
    <<"x", "x", "c", "n", "x", "n", "n", "x", "x">>,
    <<"c", "x", "n", "c", "n", "x", "n", "x", "n">>,
    <<"_", "n", "x", "x", "x", "n", "c", "n", "x">>}

Code(text) == {o \in 0 .. (Len(text) - 1) : text[o + 1] = "x"}

\* The comment that is the node's neighbour in the tree, if it has one.
Neighbour(text, from) ==
    LET near == {o \in 0 .. (from - 1) :
                    /\ text[o + 1] = "c"
                    /\ \A p \in o .. (from - 1) : text[p + 1] # "x"}
    IN  IF near = {} THEN None ELSE Min(near)

Ranges(text) ==
    {r \in [from : Code(text), to : {o + 1 : o \in Code(text)}] : r.from < r.to}

\* Two or three symbols side by side or nested, containers or not.
Nested ==
    UNION {LET node(r, box, id) == Sym(r.from, r.to, box, id, Neighbour(text, r.from))
           IN  {File(text, {node(r, rbox, <<"t", "a">>), node(s, sbox, <<"b">>)}, ends) :
                   r \in Ranges(text), s \in Ranges(text),
                   rbox \in BOOLEAN, sbox \in BOOLEAN, ends \in {{}, {5, 9}}}
               \union
               {File(text, {node(r, TRUE, <<"a">>), node(s, TRUE, <<"b">>),
                            node(q, FALSE, <<"q">>)}, {}) :
                   r \in {x \in Ranges(text) : x.to - x.from > 5},
                   s \in {x \in Ranges(text) : x.to - x.from \in 3 .. 5},
                   q \in {x \in Ranges(text) : x.to - x.from < 3}}
           : text \in Texts}

\* What a node starts with has no neighbour before it.
Beside(nodes) ==
    {[n EXCEPT !.comment = IF \E m \in nodes : m.from = n.from /\ n.to < m.to
                           THEN None ELSE @] : n \in nodes}

Trees ==
    {[f EXCEPT !.nodes = Beside(@)] :
        f \in {g \in Nested : \A m, n \in g.nodes : m # n =>
                                  Laminar(m, n) /\ (m.from # n.from \/ m.to # n.to)}}

\* Every path of up to three components, and files that are not read.
Components == {"plain", "secret", "pem", "vendor", "generated", "pb2",
               "ignored", "kept"}

Paths ==
    {[File(<<"x">>, {}, {}) EXCEPT !.path = path, !.route = route] :
        path \in BoundedSeq(Components, 3) \ {<<>>}, route \in {"walk", "update"}}

Plain(content, supported, parses) ==
    [File(<<"c", "x", "n">>, {}, {}) EXCEPT !.content = content,
                                            !.supported = supported,
                                            !.parses = parses]

MCInputs ==
    Long \union Trees \union Paths
        \union {Plain(content, supported, parses) :
                   content \in {"text", "large", "binary", "invalid"},
                   supported \in BOOLEAN, parses \in BOOLEAN}
=============================================================================
