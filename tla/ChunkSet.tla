------------------------------ MODULE ChunkSet ------------------------------
(***************************************************************************)
(* What a client of sift's chunk store may rely on, without files, rows,   *)
(* generations or crashes: a set of live chunks, each carrying the vector  *)
(* of its own content, changed by atomic operations.  A batch that was     *)
(* asked for lands completely or not at all; compaction and recovery are   *)
(* not visible.                                                            *)
(***************************************************************************)
EXTENDS Naturals, Sequences

CONSTANTS
    Hashes,     \* content hashes; a vector is named by the content it embeds
    Files,      \* repository-relative paths
    Commits,    \* commit identifiers
    Batches,    \* the batches a client may ask for, non-empty sequences of inputs
    NoCommit    \* no commit recorded yet

VARIABLES
    live,       \* the live chunks
    commit,     \* the commit recorded as indexed
    req         \* the batch being inserted, << >> when there is none

vars == <<live, commit, req>>

Input == [hash : Hashes, file : Files]

Chunk == [hash : Hashes, file : Files, vec : Hashes]

\* A batch inserts the first chunk of every content hash that is not live yet.
Novel(batch) ==
    { [hash |-> batch[i].hash, file |-> batch[i].file, vec |-> batch[i].hash] :
        i \in { k \in DOMAIN batch :
                  /\ \A c \in live : c.hash # batch[k].hash
                  /\ \A j \in DOMAIN batch : j < k => batch[j].hash # batch[k].hash } }

Init ==
    /\ live = {}
    /\ commit = NoCommit
    /\ req = << >>

Ask(batch) ==
    /\ req = << >>
    /\ req' = batch
    /\ UNCHANGED <<live, commit>>

Land ==
    /\ req # << >>
    /\ live' = live \cup Novel(req)
    /\ req' = << >>
    /\ UNCHANGED commit

Lose ==
    /\ req # << >>
    /\ req' = << >>
    /\ UNCHANGED <<live, commit>>

Remove(gone) ==
    /\ req = << >>
    /\ live' = live \ gone
    /\ UNCHANGED <<commit, req>>

Move(from, to) ==
    /\ req = << >>
    /\ live' = { [c EXCEPT !.file = IF c.file = from THEN to ELSE c.file] : c \in live }
    /\ UNCHANGED <<commit, req>>

Record(c) ==
    /\ req = << >>
    /\ commit' = c
    /\ UNCHANGED <<live, req>>

Next ==
    \/ \E batch \in Batches : Ask(batch)
    \/ Land
    \/ Lose
    \/ \E gone \in SUBSET live : Remove(gone)
    \/ \E from, to \in Files : Move(from, to)
    \/ \E c \in Commits : Record(c)

Spec == Init /\ [][Next]_vars
=============================================================================
