----------------------------- MODULE MCIndexer -----------------------------
(***************************************************************************)
(* Instances of Indexer for TLC.                                           *)
(***************************************************************************)
EXTENDS Indexer

CONSTANTS h1, h2, h3, f1, f2, f3

Tree(a, b) == [f \in Files |-> IF f = f1 THEN a ELSE b]

\* Every tree over two files and two chunks.
AllTrees == { Tree(a, b) : a, b \in (SUBSET {h1, h2}) \cup {NoFile} }

\* Trees with a file that cannot be read or parsed.
OpaqueTrees == { Tree(a, b) : a \in {NoFile, Opaque, {h1}}, b \in {NoFile, {h1}, {h2}} }

\* Trees in which both files are always there, so that nothing is untracked.
TrackedTrees == { Tree(a, b) : a \in {{}, {h1}, {h2}}, b \in {{}, {h1}} }

\* A chunk moves from one file to another.
MovedTrees == { Tree({h1, h2}, {}), Tree({h2}, {h1}) }

\* Trees between which code never moves from one surviving file to another: f1 may
\* be renamed to f2 and back, with an edit, and f3 has content of its own.
StableTrees ==
    { [f \in Files |-> CASE f = f1 -> a [] f = f2 -> b [] f = f3 -> c] :
        <<a, b>> \in { <<x, NoFile>> : x \in {{h1}, {h1, h2}, {h2}} } \cup { <<NoFile, x>> : x \in {{h1}, {h2}} },
        c \in {NoFile, {h3}} }
=============================================================================
