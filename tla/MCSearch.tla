------------------------------ MODULE MCSearch ------------------------------
EXTENDS Search

MCChunks == 1 .. 3

\* Chunks 1 and 2 have the same file and symbol.
MCNameOf == <<"f::a", "f::a", "f::b">>

\* A preview of three bytes ends inside the second character of chunk 1, at
\* the end of the first of chunk 3, and takes the whole of chunk 2.
MCCharsOf ==
    <<[bytes |-> 4, boundaries |-> {0, 2, 4}], [bytes |-> 3, boundaries |-> {0, 1, 3}],
      [bytes |-> 4, boundaries |-> {0, 3, 4}]>>

StoreOf(n, segment) ==
    [rows    |-> [i \in 1 .. n |-> i],
     live    |-> {r \in 0 .. (n - 1) : segment[r] # 0},
     segment |-> segment]

\* Up to three rows, each dead (segment 0) or in one of two segments.
MCStores ==
    {StoreOf(3, segment) : segment \in
        {[r \in 0 .. 2 |-> IF r = gap THEN 0 ELSE IF r = alone THEN 2 ELSE 1] :
            gap \in {0, 1, 3}, alone \in 0 .. 2}}
        \union {StoreOf(1, [r \in {0} |-> 1]), StoreOf(0, <<>>)}

\* Every combination of no, a weak and a strong lexical match with a low and
\* a high dense score, and one score that is not finite.
MCQueries ==
    [lexical : [MCChunks -> 0 .. 2],
     dense   : [MCChunks -> {0, 1}] \union {<<NaN, 0, 1>>, <<1, NaN, 0>>}]

MCLateQueries ==
    [lexical : {<<2, 1, 0>>, <<0, 1, 2>>, <<1, 1, 1>>},
     dense   : {<<1, 0, 1>>, <<0, 1, NaN>>}]

MCConfigs ==
    {[lexical_depth |-> 2, dense_depth |-> 2, top_k |-> 3],
     [lexical_depth |-> 1, dense_depth |-> 2, top_k |-> 1],
     [lexical_depth |-> 2, dense_depth |-> 0, top_k |-> 2]}
=============================================================================
