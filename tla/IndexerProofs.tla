--------------------------- MODULE IndexerProofs ---------------------------
(***************************************************************************)
(* Proofs about Indexer: RunInv is an inductive invariant wherever runs    *)
(* are killed, and so is IndexerInv when they are killed between a store   *)
(* operation and the next, for any files, hashes, trees, batch size and    *)
(* number of changes.                                                      *)
(***************************************************************************)
EXTENDS Indexer, FiniteSetTheorems, SequenceTheorems, TLAPS

USE IndexerAssumption DEF repoVars, indexVars, runVars, vars

Record == [hash : Hashes, file : Files, live : BOOLEAN]

Chunk == [hash : Hashes, file : Files]

-----------------------------------------------------------------------------
\* Sets of numbers in order.

\* How many members of S there are up to one of them.
Rank(S, k) == Cardinality({ j \in S : j <= k })

\* No two members of a finite set of numbers have the same rank.
LEMMA RankInjective ==
    ASSUME NEW S \in SUBSET Nat, IsFiniteSet(S), NEW j \in S, NEW k \in S, j < k
    PROVE  Rank(S, j) < Rank(S, k)
<1> DEFINE J == { i \in S : i <= j }
           K == { i \in S : i <= k }
<1>1. IsFiniteSet(J) /\ IsFiniteSet(K)
  BY FS_Subset
<1>2. J \subseteq K /\ k \in K /\ k \notin J
  <2>1. j \in Nat /\ k \in Nat /\ \A i \in S : i \in Nat
    OBVIOUS
  <2>2. \A i \in S : i <= j => i <= k
    BY <2>1
  <2>3. k <= k /\ ~(k <= j)
    BY <2>1
  <2> QED
    BY <2>2, <2>3
<1>3. Cardinality(J) \in Nat /\ Cardinality(K) \in Nat
  BY <1>1, FS_CardinalityType
<1>4. Cardinality(J) <= Cardinality(K) /\ Cardinality(J) # Cardinality(K)
  BY <1>1, <1>2, FS_Subset
<1> QED
  BY <1>3, <1>4 DEF Rank

\* InOrder lists every member of a finite set of numbers once.
LEMMA InOrderBijective ==
    ASSUME NEW S \in SUBSET Nat, IsFiniteSet(S)
    PROVE  /\ Cardinality(S) \in Nat
           /\ InOrder(S) \in [1 .. Cardinality(S) -> S]
           /\ \A m, n \in 1 .. Cardinality(S) : InOrder(S)[m] = InOrder(S)[n] => m = n
           /\ \A k \in S : \E n \in 1 .. Cardinality(S) : InOrder(S)[n] = k
           /\ \A n \in 1 .. Cardinality(S) : Rank(S, InOrder(S)[n]) = n
<1> DEFINE N == Cardinality(S)
           rank == [k \in S |-> Rank(S, k)]
<1>1. N \in Nat
  BY FS_CardinalityType
<1>2. rank \in [S -> 1 .. N]
  <2> SUFFICES ASSUME NEW k \in S PROVE Rank(S, k) \in 1 .. N
    OBVIOUS
  <2> DEFINE K == { i \in S : i <= k }
  <2>1. IsFiniteSet(K) /\ Cardinality(K) <= N /\ Cardinality(K) \in Nat
    BY FS_Subset, FS_CardinalityType
  <2>2. K # {}
    OBVIOUS
  <2>3. Cardinality(K) # 0
    BY <2>1, <2>2, FS_EmptySet
  <2> QED
    BY <1>1, <2>1, <2>3 DEF Rank
<1>3. \A j, k \in S : rank[j] = rank[k] => j = k
  <2> SUFFICES ASSUME NEW j \in S, NEW k \in S, j # k PROVE rank[j] # rank[k]
    OBVIOUS
  <2>0. rank[j] = Rank(S, j) /\ rank[k] = Rank(S, k) /\ rank[j] \in 1 .. N /\ rank[k] \in 1 .. N
    BY <1>2
  <2>1. CASE j < k
    BY <2>0, <2>1, RankInjective
  <2>2. CASE k < j
    BY <2>0, <2>2, RankInjective
  <2> QED
    BY <2>1, <2>2
<1>4. rank \in Injection(S, 1 .. N)
  BY <1>2, <1>3 DEF Injection, IsInjective
<1>5. IsFiniteSet(1 .. N) /\ Cardinality(1 .. N) = N
  BY <1>1, FS_Interval
<1>6. rank \in Surjection(S, 1 .. N)
  BY <1>4, <1>5, FS_Injection
<1>7. \A n \in 1 .. N : \E k \in S : Rank(S, k) = n
  BY <1>6 DEF Surjection
<1>8. \A n \in 1 .. N : InOrder(S)[n] \in S /\ Rank(S, InOrder(S)[n]) = n
  BY <1>7 DEF InOrder, Rank
<1>9. InOrder(S) \in [1 .. N -> S]
  BY <1>8 DEF InOrder
<1>10. \A k \in S : \E n \in 1 .. N : InOrder(S)[n] = k
  <2> SUFFICES ASSUME NEW k \in S PROVE InOrder(S)[rank[k]] = k /\ rank[k] \in 1 .. N
    OBVIOUS
  <2>1. rank[k] \in 1 .. N
    BY <1>2
  <2> QED
    BY <1>3, <1>8, <2>1
<1> QED
  BY <1>1, <1>8, <1>9, <1>10

\* InOrder of the first numbers lists them as they are.
LEMMA InOrderInterval ==
    ASSUME NEW n \in Nat
    PROVE  InOrder(1 .. n) = [k \in 1 .. n |-> k]
<1>1. IsFiniteSet(1 .. n) /\ Cardinality(1 .. n) = n /\ 1 .. n \in SUBSET Nat
  BY FS_Interval
<1>2. \A k \in 1 .. n : Rank(1 .. n, k) = k
  <2> SUFFICES ASSUME NEW k \in 1 .. n PROVE Rank(1 .. n, k) = k
    OBVIOUS
  <2>1. { j \in 1 .. n : j <= k } = 1 .. k
    OBVIOUS
  <2>2. Cardinality(1 .. k) = k
    BY FS_Interval
  <2> QED
    BY <2>1, <2>2 DEF Rank
<1>3. InOrder(1 .. n) \in [1 .. n -> 1 .. n]
  BY <1>1, InOrderBijective
<1>4. \A k \in 1 .. n : Rank(1 .. n, InOrder(1 .. n)[k]) = k
  BY <1>1, InOrderBijective
<1>5. \A k \in 1 .. n : InOrder(1 .. n)[k] = k
  BY <1>2, <1>3, <1>4
<1> QED
  BY <1>3, <1>5

-----------------------------------------------------------------------------
\* What the operations of the store do to the table.

\* The live rows of a table are finitely many of its rows.
LEMMA LiveRowsFinite ==
    ASSUME TypeOK
    PROVE  /\ Len(table) \in Nat /\ DOMAIN table = 1 .. Len(table)
           /\ \A r \in DOMAIN table : table[r] \in Record
           /\ LiveRows \subseteq DOMAIN table /\ LiveRows \in SUBSET Nat
           /\ IsFiniteSet(LiveRows) /\ Cardinality(LiveRows) \in Nat
<1>1. table \in Seq(Record)
  BY DEF TypeOK, Record
<1>2. Len(table) \in Nat /\ DOMAIN table = 1 .. Len(table)
  BY <1>1
<1>3. \A r \in DOMAIN table : table[r] \in Record
  BY <1>1, <1>2
<1>4. LiveRows \subseteq DOMAIN table /\ LiveRows \in SUBSET Nat
  BY <1>2 DEF LiveRows
<1>5. IsFiniteSet(DOMAIN table)
  BY <1>2, FS_Interval
<1>6. IsFiniteSet(LiveRows)
  BY <1>4, <1>5, FS_Subset
<1> QED
  BY <1>2, <1>3, <1>4, <1>6, FS_CardinalityType

\* A function on the first n numbers is a sequence.
LEMMA Listed ==
    ASSUME NEW S, NEW n \in Nat, NEW f \in [1 .. n -> S]
    PROVE  f \in Seq(S) /\ Len(f) = n /\ DOMAIN f = 1 .. n
BY IsASeq

\* tombstone_rows clears the live mark of live rows and nothing else.
LEMMA Tombstoned ==
    ASSUME TypeOK, NEW rows, rows \subseteq LiveRows, table' = TombstoneRows(rows)
    PROVE  /\ table' \in Seq(Record) /\ DOMAIN table' = DOMAIN table
           /\ \A r \in DOMAIN table : /\ table'[r].hash = table[r].hash
                                      /\ table'[r].file = table[r].file
           /\ LiveRows' = LiveRows \ rows
           /\ LiveHashes' \subseteq LiveHashes
           /\ LiveDocs' = { d \in LiveDocs : d.row \notin rows }
           /\ Cardinality(rows) \in Nat
           /\ Cardinality(LiveRows') = Cardinality(LiveRows) - Cardinality(rows)
<1>1. /\ Len(table) \in Nat /\ DOMAIN table = 1 .. Len(table)
      /\ \A r \in DOMAIN table : table[r] \in Record
      /\ LiveRows \subseteq DOMAIN table /\ IsFiniteSet(LiveRows)
  BY LiveRowsFinite
<1>2. \A r \in DOMAIN table : [table[r] EXCEPT !.live = FALSE] \in Record
  BY <1>1 DEF Record
<1>3. table' \in [1 .. Len(table) -> Record]
  BY <1>1, <1>2 DEF TombstoneRows
<1>4. table' \in Seq(Record) /\ DOMAIN table' = DOMAIN table
  BY <1>1, <1>3, Listed
<1>5. \A r \in DOMAIN table : /\ table'[r].hash = table[r].hash
                              /\ table'[r].file = table[r].file
                              /\ r \in rows => ~table'[r].live
                              /\ r \notin rows => table'[r] = table[r]
  BY <1>1 DEF TombstoneRows, Record
<1>6. LiveRows' = LiveRows \ rows
  BY <1>1, <1>4, <1>5 DEF LiveRows
<1>7. LiveHashes' \subseteq LiveHashes
  BY <1>1, <1>5, <1>6 DEF LiveHashes
<1>8. LiveDocs' = { d \in LiveDocs : d.row \notin rows }
  BY <1>1, <1>5, <1>6 DEF LiveDocs
<1>9. IsFiniteSet(rows) /\ LiveRows \cap rows = rows
  BY <1>1, FS_Subset
<1>10. Cardinality(LiveRows') = Cardinality(LiveRows) - Cardinality(rows)
  BY <1>1, <1>6, <1>9, FS_Difference
<1> QED
  BY <1>4, <1>5, <1>6, <1>7, <1>8, <1>9, <1>10, FS_CardinalityType

\* The update of file_path re-keys live rows and moves none.
LEMMA RekeyedRows ==
    ASSUME TypeOK, NEW rows, rows \subseteq LiveRows, NEW g \in Files,
           table' = RekeyRows(rows, g)
    PROVE  /\ table' \in Seq(Record) /\ DOMAIN table' = DOMAIN table
           /\ \A r \in DOMAIN table : /\ table'[r].hash = table[r].hash
                                      /\ table'[r].file = IF r \in rows THEN g ELSE table[r].file
           /\ LiveRows' = LiveRows
           /\ LiveHashes' = LiveHashes
<1>1. /\ Len(table) \in Nat /\ DOMAIN table = 1 .. Len(table)
      /\ \A r \in DOMAIN table : table[r] \in Record
      /\ LiveRows \subseteq DOMAIN table
  BY LiveRowsFinite
<1>2. \A r \in DOMAIN table : [table[r] EXCEPT !.file = g] \in Record
  BY <1>1 DEF Record
<1>3. table' \in [1 .. Len(table) -> Record]
  BY <1>1, <1>2 DEF RekeyRows
<1>4. table' \in Seq(Record) /\ DOMAIN table' = DOMAIN table
  BY <1>1, <1>3, Listed
<1>5. \A r \in DOMAIN table : /\ table'[r].hash = table[r].hash
                              /\ table'[r].file = IF r \in rows THEN g ELSE table[r].file
                              /\ table'[r].live = table[r].live
  BY <1>1 DEF Record, RekeyRows
<1>6. LiveRows' = LiveRows
  BY <1>4, <1>5 DEF LiveRows
<1>7. LiveHashes' = LiveHashes
  BY <1>1, <1>5, <1>6 DEF LiveHashes
<1> QED
  BY <1>4, <1>5, <1>6, <1>7

\* the documents when those of some rows get another path
DocsMoved(rows, f) ==
    { d \in LiveDocs : d.row \notin rows }
      \cup { [d EXCEPT !.file = f] : d \in { x \in LiveDocs : x.row \in rows } }

\* The documents of re-keyed rows get the new path, the others stay.
LEMMA RekeyedDocs ==
    ASSUME TypeOK, NEW rows, rows \subseteq LiveRows, NEW g \in Files,
           table' = RekeyRows(rows, g)
    PROVE  LiveDocs' = DocsMoved(rows, g)
<1>1. LiveRows \subseteq DOMAIN table
  BY LiveRowsFinite
<1>2. \A r \in DOMAIN table : /\ table'[r].hash = table[r].hash
                              /\ table'[r].file = IF r \in rows THEN g ELSE table[r].file
  BY RekeyedRows
<1>3. LiveRows' = LiveRows
  BY RekeyedRows
<1>4. \A r \in LiveRows : [row |-> r, hash |-> table'[r].hash, file |-> table'[r].file] =
           IF r \in rows
           THEN [[row |-> r, hash |-> table[r].hash, file |-> table[r].file] EXCEPT !.file = g]
           ELSE [row |-> r, hash |-> table[r].hash, file |-> table[r].file]
  BY <1>1, <1>2
<1>5. LiveDocs' = { [row |-> r, hash |-> table'[r].hash, file |-> table'[r].file] : r \in LiveRows }
  BY <1>3 DEF LiveDocs
<1>6. LiveDocs' = { d \in LiveDocs : d.row \notin rows }
                     \cup { [d EXCEPT !.file = g] : d \in { x \in LiveDocs : x.row \in rows } }
  <2> DEFINE doc(r) == [row |-> r, hash |-> table[r].hash, file |-> table[r].file]
             moved(r) == [doc(r) EXCEPT !.file = g]
  <2>1. \A r \in LiveRows : doc(r) \in LiveDocs /\ doc(r).row = r
    BY DEF LiveDocs
  <2>2. \A d \in LiveDocs : \E r \in LiveRows : d = doc(r) /\ d.row = r
    BY DEF LiveDocs
  <2>3. LiveDocs' = { IF r \in rows THEN moved(r) ELSE doc(r) : r \in LiveRows }
    BY <1>4, <1>5
  <2>4. \A d : d \in LiveDocs' <=>
           \/ \E r \in LiveRows : r \in rows /\ d = moved(r)
           \/ \E r \in LiveRows : r \notin rows /\ d = doc(r)
    BY <2>3
  <2> HIDE DEF doc
  <2>5. { d \in LiveDocs : d.row \notin rows } = { doc(r) : r \in LiveRows \ rows }
    BY <2>1, <2>2
  <2>6. { [d EXCEPT !.file = g] : d \in { x \in LiveDocs : x.row \in rows } }
          = { moved(r) : r \in LiveRows \cap rows }
    BY <2>1, <2>2
  <2> QED
    BY <2>4, <2>5, <2>6
<1> QED
  BY <1>6 DEF DocsMoved

\* compact keeps the live records, in order, and nothing else.
LEMMA Compacted ==
    ASSUME TypeOK, table' = [k \in DOMAIN LiveRowsInOrder |-> table[LiveRowsInOrder[k]]]
    PROVE  /\ table' \in Seq(Record)
           /\ DOMAIN table' = 1 .. Cardinality(LiveRows)
           /\ LiveRowsInOrder \in [1 .. Cardinality(LiveRows) -> LiveRows]
           /\ LiveRowsInOrder \in Seq(Nat)
           /\ \A k \in DOMAIN table' : table'[k] = table[LiveRowsInOrder[k]]
           /\ \A j, k \in DOMAIN table' : LiveRowsInOrder[j] = LiveRowsInOrder[k] => j = k
           /\ \A r \in LiveRows : \E k \in DOMAIN table' : LiveRowsInOrder[k] = r
           /\ LiveRows' = DOMAIN table'
           /\ Cardinality(LiveRows') = Cardinality(LiveRows)
<1> DEFINE n == Cardinality(LiveRows)
<1>1. /\ \A r \in DOMAIN table : table[r] \in Record
      /\ LiveRows \subseteq DOMAIN table /\ LiveRows \in SUBSET Nat
      /\ IsFiniteSet(LiveRows) /\ n \in Nat
  BY LiveRowsFinite
<1>2. /\ LiveRowsInOrder \in [1 .. n -> LiveRows]
      /\ \A j, k \in 1 .. n : LiveRowsInOrder[j] = LiveRowsInOrder[k] => j = k
      /\ \A r \in LiveRows : \E k \in 1 .. n : LiveRowsInOrder[k] = r
  BY <1>1, InOrderBijective DEF LiveRowsInOrder
<1>3. /\ DOMAIN table' = 1 .. n
      /\ \A k \in 1 .. n : table'[k] = table[LiveRowsInOrder[k]] /\ LiveRowsInOrder[k] \in LiveRows
  BY <1>2
<1>4. table' \in [1 .. n -> Record]
  BY <1>1, <1>2
<1>5. table' \in Seq(Record) /\ LiveRowsInOrder \in Seq(Nat)
  <2>1. LiveRowsInOrder \in [1 .. n -> Nat]
    BY <1>1, <1>2
  <2> QED
    BY <1>1, <1>4, <2>1, Listed
<1>6. LiveRows' = 1 .. n
  BY <1>3 DEF LiveRows
<1>7. Cardinality(LiveRows') = n
  BY <1>1, <1>6, FS_Interval
<1> QED
  BY <1>2, <1>3, <1>5, <1>6, <1>7

\* The members of a concatenation, by place.
LEMMA Concatenated ==
    ASSUME NEW S, NEW s \in Seq(S), NEW t \in Seq(S)
    PROVE  /\ s \o t \in Seq(S)
           /\ DOMAIN (s \o t) = 1 .. (Len(s) + Len(t))
           /\ \A r \in 1 .. (Len(s) + Len(t)) :
                (s \o t)[r] = IF r <= Len(s) THEN s[r] ELSE t[r - Len(s)]
<1>1. /\ s \o t \in Seq(S) /\ Len(s \o t) = Len(s) + Len(t)
      /\ \A i \in 1 .. Len(s) + Len(t) : (s \o t)[i] = IF i <= Len(s) THEN s[i] ELSE t[i - Len(s)]
  BY ConcatProperties
<1>2. DOMAIN (s \o t) = 1 .. Len(s \o t)
  BY <1>1, LenProperties
<1> QED
  BY <1>1, <1>2

\* Hashes are queued once, so a batch is the queue itself.
LEMMA BatchIsPending ==
    ASSUME TypeOK, QueuePart
    PROVE  Batch = pending /\ Len(pending) \in Nat /\ DOMAIN pending = 1 .. Len(pending)
<1>1. /\ pending \in Seq(Chunk) /\ Len(pending) \in Nat /\ DOMAIN pending = 1 .. Len(pending)
  BY DEF TypeOK, Chunk
<1> DEFINE firsts == { k \in DOMAIN pending :
                         \A j \in 1 .. (k - 1) : pending[j].hash # pending[k].hash }
<1>2. firsts = 1 .. Len(pending)
  BY <1>1 DEF QueuePart
<1>3. InOrder(firsts) = [k \in 1 .. Len(pending) |-> k]
  BY <1>1, <1>2, InOrderInterval
<1>4. Batch = [n \in DOMAIN InOrder(firsts) |-> pending[InOrder(firsts)[n]]]
  BY DEF Batch
<1>5. Batch = [n \in 1 .. Len(pending) |-> pending[n]]
  BY <1>3, <1>4
<1> QED
  BY <1>1, <1>5

\* insert_batch appends every chunk of the batch as a live row, and finds each of
\* them there.
LEMMA Appended ==
    ASSUME TypeOK, HashPart, QueuePart, pc \notin Flushing, table' = TableAfter(Batch)
    PROVE  /\ table' \in Seq(Record)
           /\ DOMAIN table' = 1 .. (Len(table) + Len(pending))
           /\ \A r \in DOMAIN table : table'[r] = table[r]
           /\ \A k \in DOMAIN pending :
                table'[Len(table) + k] = [hash |-> pending[k].hash, file |-> pending[k].file, live |-> TRUE]
           /\ LiveRows' = LiveRows \cup ((Len(table) + 1) .. (Len(table) + Len(pending)))
           /\ Cardinality(LiveRows') = Cardinality(LiveRows) + Len(pending)
           /\ HashPart'
           /\ \A k \in DOMAIN pending : RowOf(table', pending[k].hash) = Len(table) + k
<1>1. /\ Len(table) \in Nat /\ DOMAIN table = 1 .. Len(table)
      /\ \A r \in DOMAIN table : table[r] \in Record
      /\ LiveRows \subseteq DOMAIN table /\ IsFiniteSet(LiveRows) /\ Cardinality(LiveRows) \in Nat
  BY LiveRowsFinite
<1>2. Batch = pending /\ Len(pending) \in Nat /\ DOMAIN pending = 1 .. Len(pending)
  BY BatchIsPending
<1>3. \A k \in DOMAIN pending : pending[k] \in Chunk
  <2>1. pending \in Seq(Chunk)
    BY DEF TypeOK, Chunk
  <2> QED
    BY <1>2, <2>1
<1> DEFINE added == [k \in 1 .. Len(pending) |->
                       [hash |-> pending[k].hash, file |-> pending[k].file, live |-> TRUE]]
           M == Len(table)
           N == Len(pending)
<1>4. { k \in DOMAIN pending : pending[k].hash \notin LiveHashes } = 1 .. N
  BY <1>2 DEF QueuePart
<1>5. InOrder(1 .. N) = [k \in 1 .. N |-> k]
  BY <1>2, InOrderInterval
<1>6. table' = table \o added
  <2> DEFINE novel == InOrder({ k \in DOMAIN pending : pending[k].hash \notin LiveHashes })
  <2>1. table' = table \o [n \in DOMAIN novel |-> [hash |-> pending[novel[n]].hash,
                             file |-> pending[novel[n]].file, live |-> TRUE]]
    BY <1>2 DEF TableAfter
  <2>2. novel = [k \in 1 .. N |-> k]
    BY <1>4, <1>5
  <2>3. [n \in DOMAIN novel |-> [hash |-> pending[novel[n]].hash,
                             file |-> pending[novel[n]].file, live |-> TRUE]] = added
    BY <2>2
  <2> QED
    BY <2>1, <2>3
<1>7. added \in Seq(Record) /\ Len(added) = N /\ DOMAIN added = 1 .. N
  <2>1. \A k \in 1 .. N : [hash |-> pending[k].hash, file |-> pending[k].file, live |-> TRUE] \in Record
    BY <1>2, <1>3 DEF Record, Chunk
  <2>2. added \in [1 .. N -> Record]
    BY <2>1
  <2> QED
    BY <1>2, <2>2, Listed
<1>8. table \in Seq(Record)
  BY DEF TypeOK, Record
<1>9. /\ table' \in Seq(Record) /\ DOMAIN table' = 1 .. (M + N)
      /\ \A r \in 1 .. (M + N) : table'[r] = IF r <= M THEN table[r] ELSE added[r - M]
  <2> HIDE DEF added
  <2>1. Len(added) = N /\ added \in Seq(Record)
    BY <1>7
  <2> HIDE DEF N
  <2>2. /\ table \o added \in Seq(Record)
        /\ DOMAIN (table \o added) = 1 .. (M + Len(added))
        /\ \A r \in 1 .. (M + Len(added)) :
             (table \o added)[r] = IF r <= M THEN table[r] ELSE added[r - M]
    BY <1>8, <2>1, Concatenated, Zenon
  <2> DEFINE cat == table \o added
  <2> HIDE DEF cat, M
  <2>3. /\ cat \in Seq(Record) /\ DOMAIN cat = 1 .. (M + N)
        /\ \A r \in 1 .. (M + N) : cat[r] = IF r <= M THEN table[r] ELSE added[r - M]
    BY <2>1, <2>2, Zenon DEF cat
  <2>4. table' = cat
    BY <1>6 DEF cat
  <2> QED
    BY <2>3, <2>4, Zenon
<1>0. M \in Nat /\ N \in Nat
  BY <1>1, <1>2
<1> HIDE DEF M, N
<1>10. \A r \in DOMAIN table : table'[r] = table[r]
  <2>1. \A r \in DOMAIN table : r \in 1 .. (M + N) /\ r <= M
    BY <1>0, <1>1 DEF M
  <2> QED
    BY <1>9, <2>1
<1>11. \A k \in 1 .. N : /\ M + k \in 1 .. (M + N)
                         /\ table'[M + k] = [hash |-> pending[k].hash, file |-> pending[k].file, live |-> TRUE]
  <2> SUFFICES ASSUME NEW k \in 1 .. N
               PROVE  M + k \in 1 .. (M + N) /\ table'[M + k] = added[k]
    BY DEF N
  <2>1. M + k \in 1 .. (M + N) /\ ~(M + k <= M) /\ (M + k) - M = k
    BY <1>0
  <2> QED
    BY <1>9, <2>1
<1>18. \A k \in 1 .. N : table'[M + k].live /\ table'[M + k].hash = pending[k].hash
  <2> SUFFICES ASSUME NEW k \in 1 .. N
               PROVE  table'[M + k].live /\ table'[M + k].hash = pending[k].hash
    OBVIOUS
  <2>1. table'[M + k] = [hash |-> pending[k].hash, file |-> pending[k].file, live |-> TRUE]
    BY <1>11
  <2> QED
    BY <2>1
<1>12. LiveRows' = LiveRows \cup ((M + 1) .. (M + N))
  <2>1. LiveRows' = { r \in 1 .. (M + N) : table'[r].live }
    BY <1>9 DEF LiveRows
  <2>2. \A r \in (M + 1) .. (M + N) : r - M \in 1 .. N /\ r = M + (r - M)
    BY <1>0
  <2>3. \A r \in (M + 1) .. (M + N) : table'[r].live
    <3> SUFFICES ASSUME NEW r \in (M + 1) .. (M + N) PROVE table'[r].live
      OBVIOUS
    <3> DEFINE k == r - M
    <3>1. k \in 1 .. N /\ r = M + k
      BY <2>2
    <3> HIDE DEF k
    <3>2. table'[M + k].live
      BY <1>18, <3>1
    <3> QED
      BY <3>1, <3>2
  <2>4. \A r \in 1 .. (M + N) : r \in 1 .. M \/ r \in (M + 1) .. (M + N)
    BY <1>0
  <2>5. \A r \in (M + 1) .. (M + N) : r \in 1 .. (M + N)
    BY <1>0
  <2>6. \A r \in 1 .. M : r \in 1 .. (M + N)
    BY <1>0
  <2>7. LiveRows = { r \in 1 .. M : table[r].live }
    BY <1>1 DEF LiveRows, M
  <2>8. \A r \in 1 .. M : table'[r] = table[r]
    BY <1>1, <1>10 DEF M
  <2>9. \A r : r \in LiveRows' <=> r \in 1 .. (M + N) /\ table'[r].live
    BY <2>1
  <2>10. \A r : r \in LiveRows <=> r \in 1 .. M /\ table[r].live
    BY <2>7
  <2> HIDE DEF LiveRows
  <2>11. \A r : r \in LiveRows' <=> r \in LiveRows \/ r \in (M + 1) .. (M + N)
    BY <2>3, <2>4, <2>5, <2>6, <2>8, <2>9, <2>10
  <2> QED
    BY <2>11
<1>13. Cardinality(LiveRows') = Cardinality(LiveRows) + N
  <2> DEFINE new == (M + 1) .. (M + N)
  <2>1. IsFiniteSet(new) /\ Cardinality(new) = N
    <3>1. M + 1 \in Int /\ M + N \in Int /\ (M + 1 > M + N => N = 0) /\ (M + N) - (M + 1) + 1 = N
      BY <1>0
    <3> QED
      BY <1>0, <3>1, FS_Interval
  <2>2. LiveRows \cap new = {}
    BY <1>0, <1>1 DEF M
  <2>3. Cardinality(LiveRows \cap new) = 0
    BY <2>2, FS_EmptySet
  <2> HIDE DEF new
  <2>4. Cardinality(LiveRows \cup new) = Cardinality(LiveRows) + Cardinality(new) - Cardinality(LiveRows \cap new)
    BY <1>1, <2>1, FS_Union
  <2> QED
    BY <1>0, <1>1, <1>12, <2>1, <2>3, <2>4 DEF new
<1>14. \A r \in LiveRows' : \/ r \in LiveRows /\ table'[r] = table[r]
                            \/ \E k \in 1 .. N : /\ r = M + k
                                                 /\ table'[r].hash = pending[k].hash
  <2>1. \A r \in LiveRows : table'[r] = table[r]
    BY <1>1, <1>10
  <2>2. ASSUME NEW r \in (M + 1) .. (M + N)
        PROVE  \E k \in 1 .. N : r = M + k /\ table'[r].hash = pending[k].hash
    <3> DEFINE k == r - M
    <3>1. k \in 1 .. N /\ r = M + k
      BY <1>0
    <3> HIDE DEF k
    <3>2. table'[M + k].hash = pending[k].hash
      BY <1>18, <3>1
    <3> QED
      BY <3>1, <3>2
  <2> QED
    BY <1>12, <2>1, <2>2
<1>15. \A k \in 1 .. N : pending[k].hash \notin LiveHashes
  BY <1>2, <1>4
<1>16. HashPart'
  <2> SUFFICES ASSUME NEW r \in LiveRows', NEW q \in LiveRows', table'[r].hash = table'[q].hash
               PROVE  r = q
    BY DEF HashPart
  <2>1. CASE r \in LiveRows /\ q \in LiveRows
    BY <1>1, <1>10, <2>1 DEF HashPart
  <2>2. CASE r \in LiveRows /\ q \notin LiveRows
    BY <1>1, <1>10, <1>14, <1>15, <2>2 DEF LiveHashes
  <2>3. CASE r \notin LiveRows /\ q \in LiveRows
    BY <1>1, <1>10, <1>14, <1>15, <2>3 DEF LiveHashes
  <2>4. CASE r \notin LiveRows /\ q \notin LiveRows
    BY <1>2, <1>14, <2>4 DEF QueuePart, N
  <2> QED
    BY <2>1, <2>2, <2>3, <2>4
<1>17. \A k \in 1 .. N : RowOf(table', pending[k].hash) = M + k
  <2> SUFFICES ASSUME NEW k \in 1 .. N PROVE RowOf(table', pending[k].hash) = M + k
    OBVIOUS
  <2>1. M + k \in DOMAIN table' /\ table'[M + k].live /\ table'[M + k].hash = pending[k].hash
    BY <1>9, <1>11, <1>18
  <2>2. \A r \in DOMAIN table' : table'[r].live /\ table'[r].hash = pending[k].hash => r = M + k
    BY <1>16, <2>1 DEF HashPart, LiveRows
  <2> QED
    BY <2>1, <2>2 DEF RowOf
<1> QED
  BY <1>2, <1>9, <1>10, <1>11, <1>12, <1>13, <1>16, <1>17 DEF M, N

-----------------------------------------------------------------------------
\* Type correctness.

Item == [rel : Files, src : (SUBSET Hashes) \cup {Opaque}]

Change == [kind : {"written", "deleted", "renamed"}, from : Files, to : Files]

Owed == [remove : SUBSET Nat, add : SUBSET Docs, order : Seq(Nat)]

\* What read_source returns is the content of a file.
LEMMA SourceTyped ==
    ASSUME TypeOK, NEW f \in Files
    PROVE  Source(f) # NoFile => [rel |-> f, src |-> Source(f)] \in Item
<1>1. head \in Trees /\ work \in Trees
  BY DEF TypeOK
<1>2. head \in [Files -> (SUBSET Hashes) \cup {NoFile, Opaque}]
  BY <1>1
<1>3. work \in [Files -> (SUBSET Hashes) \cup {NoFile, Opaque}]
  BY <1>1
<1>4. Source(f) \in (SUBSET Hashes) \cup {NoFile, Opaque}
  BY <1>2, <1>3 DEF Source
<1> QED
  BY <1>4 DEF Item

\* Work items are built from such contents.
LEMMA ItemsTyped ==
    ASSUME TypeOK, NEW paths, paths \subseteq Files
    PROVE  ItemsFor(paths) \subseteq Item
BY SourceTyped DEF ItemsFor

\* The changes git reports are about the repository's files.
LEMMA DiffTyped ==
    ASSUME NEW old, NEW new, NEW R \in Renames(old, new)
    PROVE  Diff(old, new, R) \subseteq Change
<1>1. \A p \in R : p[1] \in Files /\ p[2] \in Files
  BY DEF Renames
<1>2. \A p \in R : [kind |-> "renamed", from |-> p[1], to |-> p[2]] \in Change
  BY <1>1 DEF Change
<1>3. \A f \in Files : /\ [kind |-> "deleted", from |-> f, to |-> f] \in Change
                       /\ [kind |-> "written", from |-> f, to |-> f] \in Change
  BY DEF Change
<1> QED
  BY <1>2, <1>3 DEF Diff

\* Nothing is owed after the lexical index has been told.
LEMMA NoOwedTyped == NoOwed \in Owed
<1>1. << >> \in Seq(Nat)
  OBVIOUS
<1> QED
  BY <1>1 DEF NoOwed, Owed

\* The documents to remove and to add are documents.
LEMMA OwedTyped ==
    ASSUME NEW rows \in SUBSET Nat, NEW docs \in SUBSET Docs
    PROVE  /\ [NoOwed EXCEPT !.remove = rows] \in Owed
           /\ [NoOwed EXCEPT !.remove = rows, !.add = docs] \in Owed
           /\ [NoOwed EXCEPT !.remove = rows].remove = rows
           /\ [NoOwed EXCEPT !.remove = rows].add = {}
           /\ [NoOwed EXCEPT !.remove = rows, !.add = docs].remove = rows
           /\ [NoOwed EXCEPT !.remove = rows, !.add = docs].add = docs
<1>1. << >> \in Seq(Nat)
  OBVIOUS
<1> QED
  BY <1>1 DEF NoOwed, Owed

\* Adding a work item keeps the items typed.
LEMMA AddItemTyped ==
    ASSUME TypeOK, NEW f \in Files, AddItem(f)
    PROVE  items' \subseteq Item
<1>1. items \subseteq Item
  BY DEF TypeOK, Item
<1> QED
  BY <1>1, SourceTyped DEF AddItem

\* The state Finish and Kill leave behind.
LEMMA ClearedTyped ==
    ASSUME Cleared
    PROVE  /\ dirty' \in BOOLEAN /\ changes' \subseteq Change /\ items' \subseteq Item
           /\ existing' \subseteq [file : Files, hash : Hashes, row : Nat]
           /\ known' \subseteq Hashes /\ file' \in Files \cup {NoFile} /\ todo' \subseteq Hashes
           /\ pending' \in Seq(Chunk) /\ Len(pending') <= EmbedBatch
           /\ owed' \in Owed
           /\ count' \in [before : Nat, added : Nat, removed : Nat]
<1>1. << >> \in Seq(Chunk) /\ Len(<< >>) = 0
  OBVIOUS
<1>2. [before |-> 0, added |-> 0, removed |-> 0] \in [before : Nat, added : Nat, removed : Nat]
  OBVIOUS
<1>3. 0 <= EmbedBatch
  OBVIOUS
<1>4. pending' \in Seq(Chunk) /\ Len(pending') <= EmbedBatch
  BY <1>1, <1>3 DEF Cleared
<1> QED
  BY <1>2, <1>4, NoOwedTyped DEF Cleared

\* Indexed documents are documents.
LEMMA LexAppliedTyped == TypeOK => LexApplied \subseteq Docs
BY DEF TypeOK, LexApplied

\* Initially nothing is indexed and no run is in progress.
LEMMA TypeInit == Init => TypeOK
<1> SUFFICES ASSUME Init PROVE TypeOK
  OBVIOUS
<1>1. << >> \in Seq(Record) /\ << >> \in Seq(Chunk) /\ Len(<< >>) = 0 /\ 0 <= EmbedBatch
  OBVIOUS
<1>2. [before |-> 0, added |-> 0, removed |-> 0] \in [before : Nat, added : Nat, removed : Nat]
  OBVIOUS
<1>3. table \in Seq(Record) /\ pending \in Seq(Chunk) /\ Len(pending) <= EmbedBatch
  BY <1>1 DEF Init
<1>4. head \in Trees /\ work \in Trees /\ edits \in 0 .. MaxEdits /\ lex \subseteq Docs
  BY DEF Init
<1>5. /\ indexed \in [tree : Trees, dirty : BOOLEAN] \cup {NoCommit} /\ dirty \in BOOLEAN
      /\ changes = {} /\ items = {} /\ existing = {} /\ known = {} /\ todo = {}
      /\ file \in Files \cup {NoFile} /\ pc = "idle"
  BY DEF Init
<1>6. owed \in Owed /\ count \in [before : Nat, added : Nat, removed : Nat]
  BY <1>2, NoOwedTyped DEF Init
<1> QED
  BY <1>3, <1>4, <1>5, <1>6 DEF TypeOK, Record, Chunk, Owed

RepoType == head \in Trees /\ work \in Trees /\ edits \in 0 .. MaxEdits

IndexType ==
    /\ table \in Seq(Record) /\ lex \subseteq Docs
    /\ indexed \in [tree : Trees, dirty : BOOLEAN] \cup {NoCommit}

PlaceType ==
    /\ pc \in {"idle", "changes", "changes_lex", "parse", "consume", "consume_lex", "chunks",
               "flush_lex", "last_flush_lex", "compact", "renumber", "finish"}
    /\ dirty \in BOOLEAN /\ changes \subseteq Change /\ items \subseteq Item

RunType ==
    /\ existing \subseteq [file : Files, hash : Hashes, row : Nat]
    /\ known \subseteq Hashes /\ file \in Files \cup {NoFile} /\ todo \subseteq Hashes
    /\ pending \in Seq(Chunk) /\ Len(pending) <= EmbedBatch

OwedType == owed \in Owed /\ count \in [before : Nat, added : Nat, removed : Nat]

\* TypeOK in parts.
LEMMA TypeParts ==
    /\ TypeOK <=> RepoType /\ IndexType /\ PlaceType /\ RunType /\ OwedType
    /\ TypeOK' <=> RepoType' /\ IndexType' /\ PlaceType' /\ RunType' /\ OwedType'
BY DEF TypeOK, RepoType, IndexType, PlaceType, RunType, OwedType, Record, Chunk, Change, Item, Owed

\* The rows a consumed file loses are live.
LEMMA VanishedRowsLive ==
    ASSUME RunInv, NEW i \in items, pc = "consume"
    PROVE  { e.row : e \in { x \in OldOf(i.rel) : x.hash \notin i.src } } \subseteq LiveRows
BY DEF RunInv, SnapshotPart, Consuming, OldOf

\* Changes of the repository keep the types.
LEMMA TypeRepo ==
    ASSUME TypeOK, NEW t \in Trees, CommitTree(t) \/ EditWorktree(t)
    PROVE  TypeOK'
<1>1. RepoType /\ IndexType /\ PlaceType /\ RunType /\ OwedType
  BY TypeParts
<1>2. edits' \in 0 .. MaxEdits
  BY <1>1 DEF RepoType, CommitTree, EditWorktree, RepoMayChange
<1>3. RepoType'
  BY <1>1, <1>2 DEF RepoType, CommitTree, EditWorktree
<1>4. UNCHANGED <<indexVars, pc, runVars>>
  BY DEF CommitTree, EditWorktree
<1>5. IndexType' /\ PlaceType' /\ RunType' /\ OwedType'
  BY <1>1, <1>4 DEF IndexType, PlaceType, RunType, OwedType
<1> QED
  BY <1>3, <1>5, TypeParts

\* Starting a run keeps the types.
LEMMA TypeStart ==
    ASSUME TypeOK, IndexAll \/ Update
    PROVE  TypeOK'
<1>1. RepoType /\ IndexType /\ PlaceType /\ RunType /\ OwedType
  BY TypeParts
<1>2. RepoType' /\ IndexType'
  BY <1>1 DEF RepoType, IndexType, IndexAll, Update
<1>3. RunType'
  BY <1>1 DEF RunType, IndexAll, Update
<1>4. dirty' \in BOOLEAN /\ OwedType'
  <2>1. Cardinality(LiveRows) \in Nat
    BY LiveRowsFinite
  <2>2. Begin /\ owed' = owed
    BY DEF IndexAll, Update
  <2> QED
    BY <1>1, <2>1, <2>2 DEF Begin, IsDirty, OwedType
<1>5. items' \subseteq Item
  <2>1. Present \subseteq Files /\ DirtyPaths \subseteq Files
    BY DEF Present, DirtyPaths
  <2> QED
    BY <2>1, ItemsTyped DEF IndexAll, Update
<1>6. changes' \subseteq Change
  BY <1>1, DiffTyped DEF PlaceType, IndexAll, Update
<1>7. PlaceType'
  BY <1>4, <1>5, <1>6 DEF PlaceType, IndexAll, Update
<1> QED
  BY <1>2, <1>3, <1>4, <1>7, TypeParts

\* Applying the changes of git keeps the types.
LEMMA TypeChanges ==
    ASSUME TypeOK, NEW c \in changes, ApplyWritten(c) \/ ApplyDeleted(c) \/ ApplyRenamed(c)
    PROVE  TypeOK'
<1>1. RepoType /\ IndexType /\ PlaceType /\ RunType /\ OwedType
  BY TypeParts
<1>2. c \in Change
  BY <1>1 DEF PlaceType
<1>3. c.from \in Files /\ c.to \in Files
  BY <1>2 DEF Change
<1>4. RepoType' /\ RunType'
  BY <1>1 DEF RepoType, RunType, ApplyWritten, ApplyDeleted, ApplyRenamed
<1> DEFINE rows == RowsForFile(c.from)
<1>5. rows \subseteq LiveRows /\ rows \in SUBSET Nat
  BY LiveRowsFinite DEF RowsForFile
<1>6. CASE ApplyWritten(c)
  <2>1. items' \subseteq Item
    BY <1>3, <1>6, AddItemTyped DEF ApplyWritten
  <2> QED
    BY <1>1, <1>4, <1>6, <2>1, TypeParts DEF ApplyWritten, IndexType, PlaceType, OwedType
<1>7. CASE ApplyDeleted(c)
  <2>1. PlaceType'
    BY <1>1, <1>7 DEF ApplyDeleted, PlaceType
  <2>2. CASE rows = {}
    BY <1>1, <1>4, <1>7, <2>1, <2>2, TypeParts DEF ApplyDeleted, IndexType, OwedType
  <2>3. CASE rows # {}
    <3>1. /\ table' = TombstoneRows(rows) /\ owed' = [NoOwed EXCEPT !.remove = rows]
          /\ count' = [count EXCEPT !.removed = @ + Cardinality(rows)]
          /\ lex' = lex /\ indexed' = indexed
      BY <1>7, <2>3 DEF ApplyDeleted
    <3>2. table' \in Seq(Record) /\ Cardinality(rows) \in Nat
      BY <1>5, <3>1, Tombstoned
    <3>3. owed' \in Owed
      BY <1>5, <3>1, OwedTyped
    <3>4. count' \in [before : Nat, added : Nat, removed : Nat]
      BY <1>1, <3>1, <3>2 DEF OwedType
    <3> QED
      BY <1>1, <1>4, <2>1, <3>1, <3>2, <3>3, <3>4, TypeParts DEF IndexType, OwedType
  <2> QED
    BY <2>2, <2>3
<1>8. CASE ApplyRenamed(c)
  <2>1. items' \subseteq Item
    BY <1>3, <1>8, AddItemTyped DEF ApplyRenamed
  <2>2. PlaceType'
    BY <1>1, <1>8, <2>1 DEF ApplyRenamed, PlaceType
  <2>3. CASE rows = {}
    BY <1>1, <1>4, <1>8, <2>2, <2>3, TypeParts DEF ApplyRenamed, IndexType, OwedType
  <2>4. CASE rows # {}
    <3> DEFINE gone == { r \in rows : \E d \in lex : d.row = r }
               docs == { [d EXCEPT !.file = c.to] : d \in { x \in lex : x.row \in rows } }
    <3>1. /\ table' = RekeyRows(rows, c.to)
          /\ owed' = [NoOwed EXCEPT !.remove = gone, !.add = docs]
          /\ lex' = lex /\ indexed' = indexed /\ count' = count
      BY <1>8, <2>4 DEF ApplyRenamed
    <3>2. table' \in Seq(Record)
      BY <1>3, <1>5, <3>1, RekeyedRows
    <3>3. gone \in SUBSET Nat /\ docs \in SUBSET Docs
      BY <1>1, <1>3, <1>5 DEF IndexType, Docs
    <3>4. owed' \in Owed
      BY <3>1, <3>3, OwedTyped
    <3> QED
      BY <1>1, <1>4, <2>2, <3>1, <3>2, <3>4, TypeParts DEF IndexType, OwedType
  <2> QED
    BY <2>3, <2>4
<1> QED
  BY <1>6, <1>7, <1>8

\* Reading what is stored, and telling the lexical index, keep the types.
LEMMA TypePrepare ==
    ASSUME TypeOK, ChangesLex \/ ChangesDone \/ StartParse \/ ConsumeLex
    PROVE  TypeOK'
<1>1. RepoType /\ IndexType /\ PlaceType /\ RunType /\ OwedType
  BY TypeParts
<1>2. LexApplied \subseteq Docs /\ NoOwed \in Owed
  BY LexAppliedTyped, NoOwedTyped
<1>3. CASE ChangesLex \/ ConsumeLex
  <2>1. RepoType' /\ IndexType' /\ PlaceType'
    BY <1>1, <1>2, <1>3 DEF ChangesLex, ConsumeLex, RepoType, IndexType, PlaceType
  <2>2. RunType' /\ OwedType'
    BY <1>1, <1>2, <1>3 DEF ChangesLex, ConsumeLex, RunType, OwedType
  <2> QED
    BY <2>1, <2>2, TypeParts
<1>4. CASE ChangesDone
  BY <1>1, <1>4, TypeParts DEF ChangesDone, RepoType, IndexType, PlaceType, RunType, OwedType
<1>5. CASE StartParse
  <2>1. /\ \A r \in DOMAIN table : table[r] \in Record
        /\ LiveRows \subseteq DOMAIN table /\ LiveRows \in SUBSET Nat
    BY LiveRowsFinite
  <2>2. existing' \subseteq [file : Files, hash : Hashes, row : Nat]
    BY <1>5, <2>1 DEF StartParse, Record
  <2>3. known' \subseteq Hashes
    BY <1>5, <2>1 DEF StartParse, LiveHashes, Record
  <2>4. RunType'
    BY <1>1, <1>5, <2>2, <2>3 DEF StartParse, RunType
  <2> QED
    BY <1>1, <1>5, <2>4, TypeParts DEF StartParse, RepoType, IndexType, PlaceType, OwedType
<1> QED
  BY <1>3, <1>4, <1>5

\* Consuming a parsed file keeps the types.
LEMMA TypeFile ==
    ASSUME RunInv, NEW i \in items, SkipFile(i) \/ ConsumeFile(i)
    PROVE  TypeOK'
<1>0. TypeOK
  BY DEF RunInv
<1>1. RepoType /\ IndexType /\ PlaceType /\ RunType /\ OwedType
  BY <1>0, TypeParts
<1>2. i \in Item
  BY <1>1 DEF PlaceType
<1>3. CASE SkipFile(i)
  BY <1>1, <1>3, TypeParts DEF SkipFile, RepoType, IndexType, PlaceType, RunType, OwedType
<1>4. CASE ConsumeFile(i)
  <2> DEFINE rows == { e.row : e \in { x \in OldOf(i.rel) : x.hash \notin i.src } }
  <2>1. i.rel \in Files /\ i.src \subseteq Hashes
    BY <1>2, <1>4 DEF Item, ConsumeFile
  <2>2. RepoType' /\ RunType'
    BY <1>1, <1>4, <2>1 DEF ConsumeFile, RepoType, RunType
  <2>3. rows \subseteq LiveRows /\ rows \in SUBSET Nat
    BY <1>0, <1>4, VanishedRowsLive, LiveRowsFinite DEF ConsumeFile
  <2>4. PlaceType'
    BY <1>1, <1>4 DEF ConsumeFile, PlaceType
  <2>5. CASE rows = {}
    BY <1>1, <1>4, <2>2, <2>4, <2>5, TypeParts DEF ConsumeFile, IndexType, OwedType
  <2>6. CASE rows # {}
    <3>1. /\ table' = TombstoneRows(rows) /\ owed' = [NoOwed EXCEPT !.remove = rows]
          /\ count' = [count EXCEPT !.removed = @ + Cardinality(rows)]
          /\ lex' = lex /\ indexed' = indexed
      BY <1>4, <2>6 DEF ConsumeFile
    <3>2. table' \in Seq(Record) /\ Cardinality(rows) \in Nat
      BY <1>0, <2>3, <3>1, Tombstoned
    <3>3. owed' \in Owed
      BY <2>3, <3>1, OwedTyped
    <3>4. count' \in [before : Nat, added : Nat, removed : Nat]
      BY <1>1, <3>1, <3>2 DEF OwedType
    <3> QED
      BY <1>1, <2>2, <2>4, <3>1, <3>2, <3>3, <3>4, TypeParts DEF IndexType, OwedType
  <2> QED
    BY <2>5, <2>6
<1> QED
  BY <1>3, <1>4

\* Looking at the chunks of a file keeps the types, and the queue within a batch.
LEMMA TypeChunk ==
    ASSUME RunInv, FileDone \/ \E h \in Hashes : ReuseChunk(h) \/ QueueChunk(h)
    PROVE  TypeOK'
<1>0. TypeOK
  BY DEF RunInv
<1>1. RepoType /\ IndexType /\ PlaceType /\ RunType /\ OwedType
  BY <1>0, TypeParts
<1>2. CASE FileDone
  BY <1>1, <1>2, TypeParts DEF FileDone, RepoType, IndexType, PlaceType, RunType, OwedType
<1>3. ASSUME NEW h \in Hashes, ReuseChunk(h)
      PROVE  TypeOK'
  BY <1>1, <1>3, TypeParts DEF ReuseChunk, RepoType, IndexType, PlaceType, RunType, OwedType
<1>4. ASSUME NEW h \in Hashes, QueueChunk(h)
      PROVE  TypeOK'
  <2>1. file \in Files
    BY <1>4 DEF RunInv, QueuePart, QueueChunk
  <2>2. [hash |-> h, file |-> file] \in Chunk
    BY <2>1 DEF Chunk
  <2>3. pending \in Seq(Chunk) /\ Len(pending) \in Nat /\ Len(pending) < EmbedBatch
    BY <1>1, <1>4 DEF RunType, QueueChunk, Full
  <2>4. pending' \in Seq(Chunk) /\ Len(pending') = Len(pending) + 1
    BY <1>4, <2>2, <2>3 DEF QueueChunk
  <2>5. Len(pending') <= EmbedBatch
    BY <2>3, <2>4
  <2>6. RunType'
    BY <1>1, <1>4, <2>4, <2>5 DEF QueueChunk, RunType
  <2> QED
    BY <1>1, <1>4, <2>6, TypeParts DEF QueueChunk, RepoType, IndexType, PlaceType, OwedType
<1> QED
  BY <1>2, <1>3, <1>4

\* Writing a batch keeps the types.
LEMMA TypeFlush ==
    ASSUME RunInv, FlushStore \/ FlushLex
    PROVE  TypeOK'
<1>0. TypeOK /\ HashPart /\ QueuePart
  BY DEF RunInv
<1>1. RepoType /\ IndexType /\ PlaceType /\ RunType /\ OwedType
  BY <1>0, TypeParts
<1>2. Batch = pending /\ Len(pending) \in Nat /\ DOMAIN pending = 1 .. Len(pending)
  BY <1>0, BatchIsPending
<1>3. CASE FlushStore
  <2>1. table' = TableAfter(Batch) /\ pc \notin Flushing
    BY <1>3 DEF FlushStore, FlushDue, Flushing
  <2>2. /\ table' \in Seq(Record)
        /\ \A k \in DOMAIN pending : RowOf(table', pending[k].hash) = Len(table) + k
    BY <1>0, <2>1, Appended
  <2> DEFINE docs == { [row |-> RowOf(TableAfter(Batch), Batch[k].hash),
                        hash |-> Batch[k].hash, file |-> Batch[k].file] : k \in DOMAIN Batch }
  <2>3. docs = { [row |-> RowOf(table', pending[k].hash),
                  hash |-> pending[k].hash, file |-> pending[k].file] : k \in DOMAIN pending }
    BY <1>2, <2>1
  <2>4. \A k \in DOMAIN pending : /\ pending[k].hash \in Hashes /\ pending[k].file \in Files
                                  /\ RowOf(table', pending[k].hash) \in Nat
    <3>1. Len(table) \in Nat
      BY <1>1 DEF IndexType
    <3>2. \A k \in DOMAIN pending : pending[k] \in Chunk
      BY <1>1, <1>2 DEF RunType
    <3> QED
      BY <1>2, <2>2, <3>1, <3>2 DEF Chunk
  <2>5. docs \in SUBSET Docs /\ { d.row : d \in docs } \in SUBSET Nat
    BY <2>3, <2>4 DEF Docs
  <2>6. owed' = [NoOwed EXCEPT !.remove = { d.row : d \in docs }, !.add = docs]
    BY <1>3 DEF FlushStore
  <2>7. owed' \in Owed
    BY <2>5, <2>6, OwedTyped
  <2>8. OwedType' /\ IndexType'
    BY <1>1, <1>3, <2>2, <2>7 DEF FlushStore, OwedType, IndexType
  <2> QED
    BY <1>1, <1>3, <2>8, TypeParts DEF FlushStore, RepoType, PlaceType, RunType
<1>4. CASE FlushLex
  <2>1. << >> \in Seq(Chunk) /\ Len(<< >>) = 0 /\ 0 <= EmbedBatch
    OBVIOUS
  <2>2. RunType'
    BY <1>1, <1>4, <2>1 DEF FlushLex, RunType
  <2>3. count' \in [before : Nat, added : Nat, removed : Nat]
    BY <1>1, <1>2, <1>4 DEF FlushLex, OwedType
  <2>4. OwedType'
    BY <1>4, <2>3, NoOwedTyped DEF FlushLex, OwedType
  <2>5. IndexType' /\ PlaceType'
    BY <1>1, <1>4, <1>0, LexAppliedTyped DEF FlushLex, IndexType, PlaceType
  <2> QED
    BY <1>1, <1>4, <2>2, <2>4, <2>5, TypeParts DEF FlushLex, RepoType
<1> QED
  BY <1>3, <1>4

\* Ending a run keeps the types.
LEMMA TypeEnd ==
    ASSUME TypeOK, RecordCommit \/ Compact \/ NoCompact \/ Renumber \/ Finish \/ Kill
    PROVE  TypeOK'
<1>1. RepoType /\ IndexType /\ PlaceType /\ RunType /\ OwedType
  BY TypeParts
<1>2. CASE RecordCommit
  <2>1. indexed' \in [tree : Trees, dirty : BOOLEAN]
    BY <1>1, <1>2 DEF RecordCommit, RepoType, PlaceType
  <2>2. IndexType'
    BY <1>1, <1>2, <2>1 DEF RecordCommit, IndexType
  <2> QED
    BY <1>1, <1>2, <2>2, TypeParts DEF RecordCommit, RepoType, PlaceType, RunType, OwedType
<1>3. CASE Compact
  <2>1. table' \in Seq(Record) /\ LiveRowsInOrder \in Seq(Nat)
    BY <1>3, Compacted DEF Compact
  <2>2. owed' \in Owed
    BY <1>3, <2>1 DEF Compact, NoOwed, Owed
  <2>3. IndexType' /\ OwedType'
    BY <1>1, <1>3, <2>1, <2>2 DEF Compact, IndexType, OwedType
  <2> QED
    BY <1>1, <1>3, <2>3, TypeParts DEF Compact, RepoType, PlaceType, RunType
<1>4. CASE NoCompact
  BY <1>1, <1>4, TypeParts DEF NoCompact, RepoType, IndexType, PlaceType, RunType, OwedType
<1>5. CASE Renumber
  <2> DEFINE moved == { k \in DOMAIN owed.order : \E d \in lex : d.row = owed.order[k] }
  <2>1. \A k \in DOMAIN owed.order : k \in Nat
    BY <1>1 DEF OwedType, Owed
  <2>2. \A k \in moved : \A d \in lex : [d EXCEPT !.row = k] \in Docs
    BY <1>1, <2>1 DEF IndexType, Docs
  <2>3. lex' \subseteq Docs
    BY <1>1, <1>5, <2>2 DEF Renumber, IndexType
  <2>4. IndexType' /\ OwedType'
    BY <1>1, <1>5, <2>3, NoOwedTyped DEF Renumber, IndexType, OwedType
  <2> QED
    BY <1>1, <1>5, <2>4, TypeParts DEF Renumber, RepoType, PlaceType, RunType
<1>6. CASE Finish \/ Kill
  <2>1. Cleared /\ UNCHANGED <<repoVars, indexVars>> /\ pc' = "idle"
    BY <1>6 DEF Finish, Kill
  <2>2. PlaceType' /\ RunType' /\ OwedType'
    BY <2>1, ClearedTyped DEF PlaceType, RunType, OwedType
  <2> QED
    BY <1>1, <2>1, <2>2, TypeParts DEF RepoType, IndexType
<1> QED
  BY <1>2, <1>3, <1>4, <1>5, <1>6

-----------------------------------------------------------------------------
\* The parts of RunInv beyond types.

RunParts == HashPart /\ ItemPart /\ QueuePart /\ SnapshotPart /\ CountPart

\* A tombstone makes no two live rows alike.
LEMMA TombstonedHash ==
    ASSUME TypeOK, HashPart, NEW rows, rows \subseteq LiveRows, table' = TombstoneRows(rows)
    PROVE  HashPart'
<1>1. /\ \A r \in DOMAIN table : table'[r].hash = table[r].hash
      /\ LiveRows' = LiveRows \ rows /\ LiveRows \subseteq DOMAIN table
  BY Tombstoned, LiveRowsFinite
<1> QED
  BY <1>1 DEF HashPart

\* Work items are added once per path.
LEMMA AddItemOnce ==
    ASSUME TypeOK, ItemPart, NEW f \in Files, AddItem(f)
    PROVE  ItemPart'
<1>1. CASE items' = items
  BY <1>1 DEF ItemPart
<1>2. CASE items' # items
  <2>1. items' = items \cup {[rel |-> f, src |-> Source(f)]} /\ \A i \in items : i.rel # f
    BY <1>2 DEF AddItem
  <2> QED
    BY <2>1 DEF ItemPart
<1> QED
  BY <1>1, <1>2

\* Changes of the repository do not touch the run.
LEMMA PartsRepo ==
    ASSUME RunInv, NEW t \in Trees, CommitTree(t) \/ EditWorktree(t)
    PROVE  RunParts'
<1>1. UNCHANGED <<indexVars, pc, runVars>>
  BY DEF CommitTree, EditWorktree
<1>2. LiveRows' = LiveRows /\ LiveHashes' = LiveHashes
  BY <1>1 DEF LiveRows, LiveHashes
<1>3. HashPart' /\ ItemPart'
  BY <1>1, <1>2 DEF RunInv, HashPart, ItemPart
<1>4. QueuePart'
  BY <1>1, <1>2 DEF RunInv, QueuePart
<1>5. SnapshotPart' /\ CountPart'
  BY <1>1, <1>2 DEF RunInv, SnapshotPart, CountPart
<1> QED
  BY <1>3, <1>4, <1>5 DEF RunParts

\* A run starts with an empty queue and the rows it finds.
LEMMA PartsStart ==
    ASSUME RunInv, IndexAll \/ Update
    PROVE  RunParts'
<1>1. TypeOK /\ HashPart /\ QueuePart
  BY DEF RunInv
<1>2. /\ pc = "idle" /\ pc' \in {"parse", "changes"} /\ Begin
      /\ table' = table /\ pending' = pending /\ known' = known
  BY DEF IndexAll, Update, MayStart
<1>3. LiveRows' = LiveRows
  BY <1>2 DEF LiveRows
<1>4. pending' = << >>
  BY <1>1, <1>2 DEF QueuePart, Consuming
<1>5. HashPart'
  BY <1>1, <1>2, <1>3 DEF HashPart
<1>6. ItemPart'
  BY DEF ItemPart, IndexAll, Update, ItemsFor
<1>7. QueuePart'
  BY <1>2, <1>4 DEF QueuePart, Consuming
<1>8. SnapshotPart'
  BY <1>2 DEF SnapshotPart, Consuming
<1>9. CountPart'
  <2>1. Cardinality(LiveRows) \in Nat
    BY <1>1, LiveRowsFinite
  <2>2. count'.before = Cardinality(LiveRows) /\ count'.added = 0 /\ count'.removed = 0
    BY <1>2 DEF Begin
  <2>3. pc' \notin Flushing
    BY <1>2 DEF Flushing
  <2> QED
    BY <1>3, <2>1, <2>2, <2>3 DEF CountPart
<1> QED
  BY <1>5, <1>6, <1>7, <1>8, <1>9 DEF RunParts

\* The changes of git are applied before anything is queued.
LEMMA PartsChanges ==
    ASSUME RunInv, NEW c \in changes, ApplyWritten(c) \/ ApplyDeleted(c) \/ ApplyRenamed(c)
    PROVE  RunParts'
<1>1. TypeOK /\ HashPart /\ ItemPart /\ QueuePart /\ CountPart
  BY DEF RunInv
<1>2. /\ pc = "changes" /\ pc' \in {"changes", "changes_lex"}
      /\ pending' = pending
  BY DEF ApplyWritten, ApplyDeleted, ApplyRenamed
<1>3. pending' = << >>
  BY <1>1, <1>2 DEF QueuePart, Consuming
<1>4. QueuePart' /\ SnapshotPart'
  BY <1>2, <1>3 DEF QueuePart, SnapshotPart, Consuming
<1>5. c.from \in Files /\ c.to \in Files
  BY <1>1 DEF TypeOK
<1>6. ItemPart'
  <2>1. CASE ApplyDeleted(c)
    BY <1>1, <2>1 DEF ApplyDeleted, ItemPart
  <2>2. CASE ApplyWritten(c) \/ ApplyRenamed(c)
    BY <1>1, <1>5, <2>2, AddItemOnce DEF ApplyWritten, ApplyRenamed
  <2> QED
    BY <2>1, <2>2
<1> DEFINE rows == RowsForFile(c.from)
<1>7. rows \subseteq LiveRows
  BY DEF RowsForFile
<1>8. pc \notin Flushing /\ pc' \notin Flushing /\ pc # "idle" /\ pc' # "idle"
  BY <1>2 DEF Flushing
<1>9. CASE table' = table /\ count' = count
  <2>1. LiveRows' = LiveRows
    BY <1>9 DEF LiveRows
  <2> QED
    BY <1>1, <1>4, <1>6, <1>8, <1>9, <2>1 DEF RunParts, HashPart, CountPart
<1>10. CASE ApplyDeleted(c) /\ rows # {}
  <2>1. table' = TombstoneRows(rows) /\ count' = [count EXCEPT !.removed = @ + Cardinality(rows)]
    BY <1>10 DEF ApplyDeleted
  <2>2. /\ Cardinality(rows) \in Nat
        /\ Cardinality(LiveRows') = Cardinality(LiveRows) - Cardinality(rows)
    BY <1>1, <1>7, <2>1, Tombstoned
  <2>3. HashPart'
    BY <1>1, <1>7, <2>1, TombstonedHash
  <2>4. /\ count'.before = count.before /\ count'.added = count.added
        /\ count'.removed = count.removed + Cardinality(rows)
        /\ count.before \in Nat /\ count.added \in Nat /\ count.removed \in Nat
    BY <1>1, <2>1 DEF TypeOK
  <2>5. CountPart'
    BY <1>1, <1>8, <2>2, <2>4 DEF CountPart
  <2> QED
    BY <1>4, <1>6, <2>3, <2>5 DEF RunParts
<1>11. CASE ApplyRenamed(c) /\ rows # {}
  <2>1. /\ table' = RekeyRows(rows, c.to)
        /\ count' = count
    BY <1>11 DEF ApplyRenamed
  <2>2. /\ \A r \in DOMAIN table : table'[r].hash = table[r].hash
        /\ LiveRows' = LiveRows /\ LiveRows \subseteq DOMAIN table
    BY <1>1, <1>5, <1>7, <2>1, RekeyedRows, LiveRowsFinite
  <2>3. HashPart' /\ CountPart'
    BY <1>1, <1>8, <2>1, <2>2 DEF HashPart, CountPart
  <2> QED
    BY <1>4, <1>6, <2>3 DEF RunParts
<1> QED
  BY <1>9, <1>10, <1>11 DEF ApplyWritten, ApplyDeleted, ApplyRenamed

\* Reading what is stored fixes what is known; telling the lexical index changes
\* nothing of it.
LEMMA PartsPrepare ==
    ASSUME RunInv, ChangesLex \/ ChangesDone \/ StartParse \/ ConsumeLex
    PROVE  RunParts'
<1>1. TypeOK /\ HashPart /\ ItemPart /\ QueuePart /\ SnapshotPart /\ CountPart
  BY DEF RunInv
<1>2. table' = table /\ pending' = pending /\ items' = items /\ count' = count /\ file' = file
  BY DEF ChangesLex, ChangesDone, StartParse, ConsumeLex
<1>3. LiveRows' = LiveRows /\ LiveHashes' = LiveHashes
  BY <1>2 DEF LiveRows, LiveHashes
<1>4. HashPart' /\ ItemPart'
  BY <1>1, <1>2, <1>3 DEF HashPart, ItemPart
<1>5. CountPart'
  BY <1>1, <1>2, <1>3 DEF ChangesLex, ChangesDone, StartParse, ConsumeLex, CountPart, Flushing
<1>6. CASE ChangesLex \/ ChangesDone
  <2>1. pc \notin Consuming /\ pc' \notin Consuming
    BY <1>6 DEF ChangesLex, ChangesDone, Consuming
  <2>2. pending = << >>
    BY <1>1, <2>1 DEF QueuePart
  <2>3. QueuePart' /\ SnapshotPart'
    BY <1>2, <2>1, <2>2 DEF QueuePart, SnapshotPart, Consuming
  <2> QED
    BY <1>4, <1>5, <2>3 DEF RunParts
<1>7. CASE ConsumeLex
  <2>1. pc = "consume_lex" /\ pc' = "chunks" /\ known' = known /\ existing' = existing
    BY <1>7 DEF ConsumeLex
  <2>2. QueuePart'
    BY <1>1, <1>2, <1>3, <2>1 DEF QueuePart, Consuming, Flushing
  <2>3. SnapshotPart'
    BY <1>1, <1>2, <1>3, <2>1 DEF SnapshotPart, Consuming
  <2> QED
    BY <1>4, <1>5, <2>2, <2>3 DEF RunParts
<1>8. CASE StartParse
  <2>1. pc = "parse" /\ pc' = "consume" /\ known' = IF items = {} THEN {} ELSE LiveHashes
    BY <1>8 DEF StartParse
  <2>2. pending = << >>
    BY <1>1, <2>1 DEF QueuePart, Consuming
  <2>3. QueuePart'
    BY <1>2, <1>3, <2>1, <2>2 DEF QueuePart, Consuming
  <2>4. SnapshotPart'
    BY <1>2, <1>3, <1>8 DEF StartParse, SnapshotPart
  <2> QED
    BY <1>4, <1>5, <2>3, <2>4 DEF RunParts
<1> QED
  BY <1>6, <1>7, <1>8

\* Consuming a file tombstones rows of that file only, and makes none live.
LEMMA PartsFile ==
    ASSUME RunInv, NEW i \in items, SkipFile(i) \/ ConsumeFile(i)
    PROVE  RunParts'
<1>1. TypeOK /\ HashPart /\ ItemPart /\ QueuePart /\ SnapshotPart /\ CountPart
  BY DEF RunInv
<1>2. /\ pc = "consume" /\ pc' \in {"consume", "consume_lex", "chunks"}
      /\ items' = items \ {i} /\ pending' = pending /\ known' = known /\ existing' = existing
  BY DEF SkipFile, ConsumeFile
<1>3. ItemPart'
  BY <1>1, <1>2 DEF ItemPart
<1>4. LiveHashes \subseteq known
  BY <1>1, <1>2 DEF QueuePart
<1>5. i.rel \in Files
  BY <1>1 DEF TypeOK
<1> DEFINE rows == { e.row : e \in { x \in OldOf(i.rel) : x.hash \notin i.src } }
<1>6. rows \subseteq LiveRows
  BY <1>2, VanishedRowsLive
<1>7. CASE table' = table /\ count' = count /\ (pc' = "chunks" => file' = i.rel) /\ pc' # "consume_lex"
  <2>1. LiveRows' = LiveRows /\ LiveHashes' = LiveHashes
    BY <1>7 DEF LiveRows, LiveHashes
  <2>2. HashPart'
    BY <1>1, <1>7, <2>1 DEF HashPart
  <2>3. QueuePart'
    BY <1>1, <1>2, <1>4, <1>5, <1>7, <2>1 DEF QueuePart, Consuming, Flushing
  <2>4. SnapshotPart'
    BY <1>1, <1>2, <1>7, <2>1 DEF SnapshotPart, Consuming
  <2>5. CountPart'
    BY <1>1, <1>2, <1>7, <2>1 DEF CountPart, Flushing
  <2> QED
    BY <1>3, <2>2, <2>3, <2>4, <2>5 DEF RunParts
<1>8. CASE ConsumeFile(i) /\ rows # {}
  <2>1. /\ table' = TombstoneRows(rows) /\ count' = [count EXCEPT !.removed = @ + Cardinality(rows)]
        /\ pc' = "consume_lex" /\ file' = i.rel
    BY <1>8 DEF ConsumeFile
  <2>2. /\ Cardinality(rows) \in Nat
        /\ Cardinality(LiveRows') = Cardinality(LiveRows) - Cardinality(rows)
        /\ LiveRows' = LiveRows \ rows /\ LiveHashes' \subseteq LiveHashes
        /\ \A r \in DOMAIN table : table'[r].hash = table[r].hash /\ table'[r].file = table[r].file
        /\ LiveRows \subseteq DOMAIN table
    BY <1>1, <1>6, <2>1, Tombstoned, LiveRowsFinite
  <2>3. HashPart'
    BY <1>1, <1>6, <2>1, TombstonedHash
  <2>4. /\ count'.before = count.before /\ count'.added = count.added
        /\ count'.removed = count.removed + Cardinality(rows)
        /\ count.before \in Nat /\ count.added \in Nat /\ count.removed \in Nat
    BY <1>1, <2>1 DEF TypeOK
  <2>5. CountPart'
    BY <1>1, <1>2, <2>1, <2>2, <2>4 DEF CountPart, Flushing
  <2>6. QueuePart'
    BY <1>1, <1>2, <1>4, <1>5, <2>1, <2>2 DEF QueuePart, Consuming, Flushing
  <2>7. SnapshotPart'
    <3> SUFFICES ASSUME NEW e \in existing, NEW j \in items, j # i, j.rel = e.file
                 PROVE  e.row \in LiveRows' /\ table'[e.row].hash = e.hash /\ table'[e.row].file = e.file
      BY <1>2 DEF SnapshotPart
    <3>1. e.row \in LiveRows /\ table[e.row].hash = e.hash /\ table[e.row].file = e.file
      BY <1>1, <1>2 DEF SnapshotPart, Consuming
    <3>2. e.file # i.rel
      BY <1>1 DEF ItemPart
    <3>3. \A x \in OldOf(i.rel) : table[x.row].file = i.rel
      BY <1>1, <1>2 DEF OldOf, SnapshotPart, Consuming
    <3>4. e.row \notin rows
      BY <3>1, <3>2, <3>3
    <3> QED
      BY <2>2, <3>1, <3>4
  <2> QED
    BY <1>3, <2>3, <2>5, <2>6, <2>7 DEF RunParts
<1> QED
  BY <1>7, <1>8 DEF SkipFile, ConsumeFile

\* A chunk is queued only when nobody has seen its hash.
LEMMA PartsChunk ==
    ASSUME RunInv, FileDone \/ \E h \in Hashes : ReuseChunk(h) \/ QueueChunk(h)
    PROVE  RunParts'
<1>1. TypeOK /\ HashPart /\ ItemPart /\ QueuePart /\ SnapshotPart /\ CountPart
  BY DEF RunInv
<1>2. /\ pc = "chunks" /\ pc' \in {"chunks", "consume"} /\ table' = table /\ items' = items
      /\ existing' = existing /\ count' = count
  BY DEF FileDone, ReuseChunk, QueueChunk
<1>3. LiveRows' = LiveRows /\ LiveHashes' = LiveHashes
  BY <1>2 DEF LiveRows, LiveHashes
<1>4. HashPart' /\ ItemPart'
  BY <1>1, <1>2, <1>3 DEF HashPart, ItemPart
<1>5. SnapshotPart' /\ CountPart'
  BY <1>1, <1>2, <1>3 DEF SnapshotPart, CountPart, Consuming, Flushing
<1>6. LiveHashes \subseteq known /\ file \in Files
  BY <1>1, <1>2 DEF QueuePart
<1>7. CASE FileDone
  BY <1>1, <1>2, <1>3, <1>4, <1>5, <1>6, <1>7
     DEF FileDone, RunParts, QueuePart, Consuming, Flushing
<1>8. ASSUME NEW h \in Hashes, ReuseChunk(h)
      PROVE  RunParts'
  BY <1>1, <1>2, <1>3, <1>4, <1>5, <1>6, <1>8
     DEF ReuseChunk, RunParts, QueuePart, Consuming, Flushing
<1>9. ASSUME NEW h \in Hashes, QueueChunk(h)
      PROVE  RunParts'
  <2>1. h \notin known /\ known' = known \cup {h} /\ file' = file /\ pc' = "chunks"
    BY <1>2, <1>9 DEF QueueChunk
  <2>2. /\ pending \in Seq(Chunk) /\ Len(pending) \in Nat /\ DOMAIN pending = 1 .. Len(pending)
    BY <1>1 DEF TypeOK, Chunk
  <2>3. [hash |-> h, file |-> file] \in Chunk
    BY <1>6 DEF Chunk
  <2>4. /\ DOMAIN pending' = 1 .. (Len(pending) + 1)
        /\ \A k \in 1 .. Len(pending) : pending'[k] = pending[k]
        /\ pending'[Len(pending) + 1].hash = h
    BY <1>9, <2>2, <2>3 DEF QueueChunk
  <2>5. \A k \in DOMAIN pending' : \/ k \in DOMAIN pending /\ pending'[k] = pending[k]
                                   \/ k = Len(pending) + 1 /\ pending'[k].hash = h
    BY <2>2, <2>4
  <2>6. \A k \in DOMAIN pending : pending[k].hash \in known /\ pending[k].hash \notin LiveHashes
    BY <1>1, <1>2 DEF QueuePart, Flushing
  <2>7. \A j, k \in DOMAIN pending' : pending'[j].hash = pending'[k].hash => j = k
    BY <1>1, <2>1, <2>5, <2>6 DEF QueuePart
  <2>8. \A k \in DOMAIN pending' : pending'[k].hash \in known' /\ pending'[k].hash \notin LiveHashes
    BY <1>6, <2>1, <2>5, <2>6
  <2>9. QueuePart'
    BY <1>3, <1>6, <2>1, <2>7, <2>8 DEF QueuePart, Consuming
  <2> QED
    BY <1>4, <1>5, <2>9 DEF RunParts
<1> QED
  BY <1>7, <1>8, <1>9

\* A batch makes exactly the queued chunks live, and is counted once it is over.
LEMMA PartsFlush ==
    ASSUME RunInv, FlushStore \/ FlushLex
    PROVE  RunParts'
<1>1. TypeOK /\ HashPart /\ ItemPart /\ QueuePart /\ SnapshotPart /\ CountPart
  BY DEF RunInv
<1>2. items' = items /\ known' = known /\ existing' = existing /\ file' = file
  BY DEF FlushStore, FlushLex
<1>3. ItemPart'
  BY <1>1, <1>2 DEF ItemPart
<1>4. Batch = pending /\ Len(pending) \in Nat /\ DOMAIN pending = 1 .. Len(pending)
  BY <1>1, BatchIsPending
<1>5. CASE FlushStore
  <2>1. /\ table' = TableAfter(Batch) /\ pc \in {"chunks", "consume"} /\ pc' \in Flushing
        /\ (pc' = "flush_lex" => pc = "chunks") /\ (pc' = "last_flush_lex" => items = {})
        /\ pending' = pending /\ count' = count
    BY <1>5 DEF FlushStore, FlushDue, Flushing
  <2>2. pc \notin Flushing
    BY <2>1 DEF Flushing
  <2>3. /\ \A r \in DOMAIN table : table'[r] = table[r]
        /\ \A k \in DOMAIN pending :
             table'[Len(table) + k] = [hash |-> pending[k].hash, file |-> pending[k].file, live |-> TRUE]
        /\ LiveRows' = LiveRows \cup ((Len(table) + 1) .. (Len(table) + Len(pending)))
        /\ Cardinality(LiveRows') = Cardinality(LiveRows) + Len(pending)
        /\ HashPart'
    BY <1>1, <2>1, <2>2, Appended
  <2>4. LiveRows \subseteq DOMAIN table /\ Len(table) \in Nat
    BY <1>1, LiveRowsFinite
  <2>5. CountPart'
    BY <1>1, <2>1, <2>2, <2>3 DEF CountPart, TypeOK, Flushing
  <2>6. SnapshotPart'
    BY <1>1, <1>2, <2>1, <2>3, <2>4 DEF SnapshotPart, Consuming
  <2>7. LiveHashes' \subseteq LiveHashes \cup { pending[k].hash : k \in DOMAIN pending }
    <3> SUFFICES ASSUME NEW r \in LiveRows'
                 PROVE  \/ table'[r].hash \in LiveHashes
                        \/ \E k \in DOMAIN pending : table'[r].hash = pending[k].hash
      BY DEF LiveHashes
    <3>1. CASE r \in LiveRows
      BY <2>3, <2>4, <3>1 DEF LiveHashes
    <3>2. CASE r \in (Len(table) + 1) .. (Len(table) + Len(pending))
      <4> DEFINE k == r - Len(table)
      <4>1. k \in DOMAIN pending /\ r = Len(table) + k
        BY <1>4, <2>4, <3>2
      <4> HIDE DEF k
      <4>2. table'[Len(table) + k]
              = [hash |-> pending[k].hash, file |-> pending[k].file, live |-> TRUE]
        BY <2>3, <4>1
      <4> QED
        BY <4>1, <4>2
    <3> QED
      BY <2>3, <3>1, <3>2
  <2>8. \A k \in DOMAIN pending : pending[k].hash \in known
    BY <1>1 DEF QueuePart
  <2>9. pc' = "flush_lex" => LiveHashes' \subseteq known /\ file \in Files
    BY <1>1, <2>1, <2>7, <2>8 DEF QueuePart
  <2>10. QueuePart'
    BY <1>1, <1>2, <2>1, <2>9 DEF QueuePart, Consuming, Flushing
  <2> QED
    BY <1>3, <2>3, <2>5, <2>6, <2>10 DEF RunParts
<1>6. CASE FlushLex
  <2>1. /\ pc \in Flushing /\ table' = table /\ pending' = << >>
        /\ count' = [count EXCEPT !.added = @ + Len(Batch)]
        /\ pc' = IF pc = "flush_lex" THEN "chunks" ELSE "consume"
    BY <1>6 DEF FlushLex, Flushing
  <2>2. LiveRows' = LiveRows /\ LiveHashes' = LiveHashes
    BY <2>1 DEF LiveRows, LiveHashes
  <2>3. HashPart' /\ SnapshotPart'
    BY <1>1, <1>2, <2>1, <2>2 DEF HashPart, SnapshotPart, Consuming, Flushing
  <2>4. /\ count'.before = count.before /\ count'.added = count.added + Len(pending)
        /\ count'.removed = count.removed
        /\ count.before \in Nat /\ count.added \in Nat /\ count.removed \in Nat
    BY <1>1, <1>4, <2>1 DEF TypeOK
  <2>5. CountPart'
    BY <1>1, <1>4, <2>1, <2>2, <2>4 DEF CountPart, Flushing
  <2>6. CASE pc = "flush_lex"
    <3>1. QueuePart'
      BY <1>1, <1>2, <2>1, <2>2, <2>6 DEF QueuePart, Consuming
    <3> QED
      BY <1>3, <2>3, <2>5, <3>1 DEF RunParts
  <2>7. CASE pc = "last_flush_lex"
    <3>1. QueuePart'
      BY <1>1, <1>2, <2>1, <2>2, <2>7 DEF QueuePart, Consuming
    <3> QED
      BY <1>3, <2>3, <2>5, <3>1 DEF RunParts
  <2> QED
    BY <2>1, <2>6, <2>7 DEF Flushing
<1> QED
  BY <1>5, <1>6

\* The end of a run keeps the live rows, whatever their numbers become.
LEMMA PartsEnd ==
    ASSUME RunInv, RecordCommit \/ Compact \/ NoCompact \/ Renumber \/ Finish \/ Kill
    PROVE  RunParts'
<1>1. TypeOK /\ HashPart /\ ItemPart /\ QueuePart /\ SnapshotPart /\ CountPart
  BY DEF RunInv
<1>2. CASE Finish \/ Kill
  <2>1. /\ pc' = "idle" /\ table' = table /\ items' = {} /\ pending' = << >>
    BY <1>2 DEF Finish, Kill, Cleared
  <2>2. LiveRows' = LiveRows
    BY <2>1 DEF LiveRows
  <2>3. HashPart' /\ ItemPart' /\ SnapshotPart' /\ CountPart'
    BY <1>1, <2>1, <2>2 DEF HashPart, ItemPart, SnapshotPart, CountPart, Consuming
  <2>4. QueuePart'
    BY <2>1 DEF QueuePart
  <2> QED
    BY <2>3, <2>4 DEF RunParts
<1>3. CASE RecordCommit \/ Compact \/ NoCompact \/ Renumber
  <2>1. /\ items' = items /\ pending' = pending /\ count' = count /\ pending = << >>
        /\ pc # "idle" /\ pc' \notin Consuming /\ pc \notin Flushing /\ pc' \notin Flushing
        /\ pc' \notin {"consume_lex", "chunks", "flush_lex", "consume", "last_flush_lex"}
    BY <1>1, <1>3 DEF RecordCommit, Compact, NoCompact, Renumber, QueuePart, Consuming, Flushing
  <2>2. QueuePart'
    BY <2>1 DEF QueuePart
  <2>3. ItemPart' /\ SnapshotPart'
    BY <1>1, <2>1 DEF ItemPart, SnapshotPart
  <2>4. HashPart' /\ Cardinality(LiveRows') = Cardinality(LiveRows)
    <3>1. CASE Compact
      <4>1. /\ LiveRowsInOrder \in [1 .. Cardinality(LiveRows) -> LiveRows]
            /\ DOMAIN table' = 1 .. Cardinality(LiveRows)
            /\ \A k \in DOMAIN table' : table'[k] = table[LiveRowsInOrder[k]]
            /\ \A j, k \in DOMAIN table' : LiveRowsInOrder[j] = LiveRowsInOrder[k] => j = k
            /\ LiveRows' = DOMAIN table'
            /\ Cardinality(LiveRows') = Cardinality(LiveRows)
        BY <1>1, <3>1, Compacted DEF Compact
      <4>2. \A k \in DOMAIN table' : LiveRowsInOrder[k] \in LiveRows
        BY <4>1
      <4>3. HashPart'
        BY <1>1, <4>1, <4>2 DEF HashPart
      <4> QED
        BY <4>1, <4>3
    <3>2. CASE table' = table
      <4>1. LiveRows' = LiveRows
        BY <3>2 DEF LiveRows
      <4> QED
        BY <1>1, <3>2, <4>1 DEF HashPart
    <3> QED
      BY <1>3, <3>1, <3>2 DEF RecordCommit, NoCompact, Renumber
  <2>5. CountPart'
    BY <1>1, <2>1, <2>4 DEF CountPart
  <2> QED
    BY <2>2, <2>3, <2>4, <2>5 DEF RunParts
<1> QED
  BY <1>2, <1>3

\* Every step preserves RunInv.
LEMMA RunStep == RunInv /\ [Next]_vars => RunInv'
<1> SUFFICES ASSUME RunInv, [Next]_vars PROVE TypeOK' /\ RunParts'
  BY DEF RunInv, RunParts
<1>0. TypeOK
  BY DEF RunInv
<1>1. ASSUME NEW t \in Trees, CommitTree(t) \/ EditWorktree(t) PROVE TypeOK' /\ RunParts'
  BY <1>0, <1>1, TypeRepo, PartsRepo
<1>2. CASE IndexAll \/ Update
  BY <1>0, <1>2, TypeStart, PartsStart
<1>3. ASSUME NEW c \in changes, ApplyWritten(c) \/ ApplyDeleted(c) \/ ApplyRenamed(c)
      PROVE  TypeOK' /\ RunParts'
  BY <1>0, <1>3, TypeChanges, PartsChanges
<1>4. CASE ChangesLex \/ ChangesDone \/ StartParse \/ ConsumeLex
  BY <1>0, <1>4, TypePrepare, PartsPrepare
<1>5. ASSUME NEW i \in items, SkipFile(i) \/ ConsumeFile(i) PROVE TypeOK' /\ RunParts'
  BY <1>5, TypeFile, PartsFile
<1>6. CASE FileDone \/ \E h \in Hashes : ReuseChunk(h) \/ QueueChunk(h)
  BY <1>6, TypeChunk, PartsChunk
<1>7. CASE FlushStore \/ FlushLex
  BY <1>7, TypeFlush, PartsFlush
<1>8. CASE RecordCommit \/ Compact \/ NoCompact \/ Renumber \/ Finish \/ Kill
  BY <1>0, <1>8, TypeEnd, PartsEnd
<1>9. CASE UNCHANGED vars
  <2>1. TypeOK'
    BY <1>0, <1>9 DEF TypeOK
  <2>2. LiveRows' = LiveRows /\ LiveHashes' = LiveHashes
    BY <1>9 DEF LiveRows, LiveHashes
  <2>3. HashPart' /\ ItemPart' /\ SnapshotPart' /\ CountPart'
    BY <1>9, <2>2 DEF RunInv, HashPart, ItemPart, SnapshotPart, CountPart
  <2>4. QueuePart'
    BY <1>9, <2>2 DEF RunInv, QueuePart
  <2> QED
    BY <2>1, <2>3, <2>4 DEF RunParts
<1> QED
  BY <1>1, <1>2, <1>3, <1>4, <1>5, <1>6, <1>7, <1>8, <1>9 DEF Next

\* Initially there are no rows and there is no run.
LEMMA RunInit == Init => RunInv
<1> SUFFICES ASSUME Init PROVE RunInv
  OBVIOUS
<1>1. DOMAIN table = {} /\ DOMAIN pending = {} /\ pc = "idle" /\ items = {} /\ pending = << >>
  BY DEF Init
<1>2. LiveRows = {}
  BY <1>1 DEF LiveRows
<1>3. HashPart /\ ItemPart /\ SnapshotPart /\ CountPart
  BY <1>1, <1>2 DEF HashPart, ItemPart, SnapshotPart, CountPart, Consuming
<1>4. QueuePart
  BY <1>1 DEF QueuePart
<1> QED
  BY <1>3, <1>4, TypeInit DEF RunInv

\* RunInv holds in every state, wherever runs are killed or fail.
THEOREM RunInvariance == Spec => []RunInv
<1>1. Init => RunInv
  BY RunInit
<1>2. RunInv /\ [Next]_vars => RunInv'
  BY RunStep
<1> QED
  BY <1>1, <1>2, PTL DEF Spec

\* assert_reconciles never aborts the process: the counters of a run agree with the
\* live rows, in whatever order files arrive and batches fill up.
THEOREM CountersReconcile == Spec => []Reconciles
<1>1. RunInv => Reconciles
  <2> SUFFICES ASSUME RunInv, pc = "finish"
               PROVE  Cardinality(LiveRows) = count.before + count.added - count.removed
    BY DEF Reconciles
  <2>1. TypeOK /\ CountPart
    BY DEF RunInv
  <2>2. count.before \in Nat /\ count.added \in Nat /\ count.removed \in Nat
    BY <2>1 DEF TypeOK
  <2> QED
    BY <2>1, <2>2 DEF CountPart, Flushing
<1> QED
  BY <1>1, RunInvariance, PTL

-----------------------------------------------------------------------------
\* The lexical index.

LexInv == LexicalMirrorsStore /\ DocPart /\ LexPart

\* There is one document per live row.
LEMMA LiveDocsByRow ==
    /\ \A d, e \in LiveDocs : d.row = e.row => d = e
    /\ \A d \in LiveDocs : d.row \in LiveRows /\ d.hash = table[d.row].hash /\ d.file = table[d.row].file
    /\ \A r \in LiveRows : \E d \in LiveDocs : d.row = r
<1> DEFINE doc(r) == [row |-> r, hash |-> table[r].hash, file |-> table[r].file]
<1>1. LiveDocs = { doc(r) : r \in LiveRows }
  BY DEF LiveDocs
<1>2. \A r : doc(r).row = r /\ doc(r).hash = table[r].hash /\ doc(r).file = table[r].file
  OBVIOUS
<1> HIDE DEF doc
<1> QED
  BY <1>1, <1>2

\* Steps that change neither index and wait for nothing.
LEMMA LexStill ==
    ASSUME LexInv, pc \in Between, pc' \in Between, table' = table, lex' = lex
    PROVE  LexInv'
<1>1. LiveDocs' = LiveDocs
  BY DEF LiveDocs, LiveRows
<1>2. pc' \notin HalfDone /\ pc' # "renumber"
  BY DEF Between, HalfDone, Flushing
<1> QED
  BY <1>1, <1>2 DEF LexInv, LexicalMirrorsStore, DocPart, LexPart

\* Changes of the repository, and no change at all.
LEMMA LexRepo ==
    ASSUME LexInv, UNCHANGED <<indexVars, pc, runVars>>
    PROVE  LexInv'
<1>1. LiveDocs' = LiveDocs /\ LexApplied' = LexApplied
  BY DEF LiveDocs, LiveRows, LexApplied
<1>2. LexicalMirrorsStore' /\ DocPart'
  BY <1>1 DEF LexInv, LexicalMirrorsStore, DocPart
<1>3. LexPart'
  BY <1>1 DEF LexInv, LexPart
<1> QED
  BY <1>2, <1>3 DEF LexInv

\* Telling the lexical index what it is owed.
LEMMA LexPaid ==
    ASSUME LexInv, pc \in HalfDone, pc' \in Between, table' = table, lex' = LexApplied
    PROVE  LexInv'
<1>1. LiveDocs' = LiveDocs
  BY DEF LiveDocs, LiveRows
<1>2. lex' = LiveDocs'
  BY <1>1 DEF LexInv, LexPart
<1>3. DocPart'
  BY <1>1, <1>2, LiveDocsByRow DEF DocPart
<1>4. pc' \notin HalfDone /\ pc' # "renumber"
  BY DEF Between, HalfDone, Flushing
<1> QED
  BY <1>2, <1>3, <1>4 DEF LexInv, LexicalMirrorsStore, LexPart

\* After the half of an operation that changes the store, what is owed is right.
LEMMA LexOwed ==
    ASSUME LexInv, pc' \in HalfDone, lex' = lex, LexApplied' = LiveDocs'
    PROVE  LexInv'
<1>1. pc' \notin Between /\ pc' # "renumber"
  BY DEF Between, HalfDone, Flushing
<1> QED
  BY <1>1 DEF LexInv, LexicalMirrorsStore, DocPart, LexPart

\* Tombstones of live rows leave their documents to be removed.
LEMMA LexTombstoned ==
    ASSUME TypeOK, LexInv, pc \in Between, NEW rows, rows \subseteq LiveRows,
           table' = TombstoneRows(rows), owed' = [NoOwed EXCEPT !.remove = rows], lex' = lex
    PROVE  LexApplied' = LiveDocs'
<1>1. lex = LiveDocs
  BY DEF LexInv, LexicalMirrorsStore
<1>2. LiveDocs' = { d \in LiveDocs : d.row \notin rows }
  BY Tombstoned
<1>3. owed'.remove = rows /\ owed'.add = {}
  BY DEF NoOwed
<1>4. LexApplied' = { d \in lex : d.row \notin rows } \cup {}
  BY <1>3 DEF LexApplied
<1> QED
  BY <1>1, <1>2, <1>4

\* Applying the changes of git.
LEMMA LexChanges ==
    ASSUME TypeOK, LexInv, NEW c \in changes, ApplyWritten(c) \/ ApplyDeleted(c) \/ ApplyRenamed(c)
    PROVE  LexInv'
<1>1. pc = "changes" /\ pc \in Between /\ lex' = lex
  BY DEF ApplyWritten, ApplyDeleted, ApplyRenamed, Between
<1>2. lex = LiveDocs
  BY <1>1 DEF LexInv, LexicalMirrorsStore
<1>3. c.from \in Files /\ c.to \in Files
  BY DEF TypeOK
<1> DEFINE rows == RowsForFile(c.from)
<1>4. rows \subseteq LiveRows
  BY DEF RowsForFile
<1>5. CASE table' = table /\ pc' = pc
  BY <1>1, <1>5, LexStill
<1>6. CASE ApplyDeleted(c) /\ rows # {}
  <2>1. /\ table' = TombstoneRows(rows) /\ owed' = [NoOwed EXCEPT !.remove = rows]
        /\ pc' = "changes_lex"
    BY <1>6 DEF ApplyDeleted
  <2>2. LexApplied' = LiveDocs'
    BY <1>1, <1>4, <2>1, LexTombstoned
  <2> QED
    BY <1>1, <2>1, <2>2, LexOwed DEF HalfDone
<1>7. CASE ApplyRenamed(c) /\ rows # {}
  <2> DEFINE gone == { r \in rows : \E d \in lex : d.row = r }
             docs == { [d EXCEPT !.file = c.to] : d \in { x \in lex : x.row \in rows } }
  <2>1. /\ table' = RekeyRows(rows, c.to)
        /\ owed' = [NoOwed EXCEPT !.remove = gone, !.add = docs]
        /\ pc' = "changes_lex"
    BY <1>7 DEF ApplyRenamed
  <2>2. gone = rows
    BY <1>2, <1>4, LiveDocsByRow
  <2>3. LiveDocs' = { d \in LiveDocs : d.row \notin rows }
                      \cup { [d EXCEPT !.file = c.to] : d \in { x \in LiveDocs : x.row \in rows } }
    <3> DEFINE g == c.to
    <3>1. g \in Files /\ table' = RekeyRows(rows, g)
      BY <1>3, <2>1
    <3> HIDE DEF rows, g
    <3>2. LiveDocs' = DocsMoved(rows, g)
      BY <1>4, <3>1, RekeyedDocs
    <3> QED
      BY <3>2 DEF g, DocsMoved
  <2>4. owed'.remove = gone /\ owed'.add = docs
    BY <2>1 DEF NoOwed
  <2>5. LexApplied' = { d \in lex : d.row \notin gone } \cup docs
    BY <1>1, <2>4 DEF LexApplied
  <2>6. LexApplied' = LiveDocs'
    BY <1>2, <2>2, <2>3, <2>5
  <2> QED
    BY <1>1, <2>1, <2>6, LexOwed DEF HalfDone
<1> QED
  BY <1>5, <1>6, <1>7 DEF ApplyWritten, ApplyDeleted, ApplyRenamed

\* Consuming a file.
LEMMA LexFile ==
    ASSUME RunInv, LexInv, NEW i \in items, SkipFile(i) \/ ConsumeFile(i)
    PROVE  LexInv'
<1>1. pc = "consume" /\ pc \in Between /\ lex' = lex
  BY DEF SkipFile, ConsumeFile, Between
<1> DEFINE rows == { e.row : e \in { x \in OldOf(i.rel) : x.hash \notin i.src } }
<1>2. CASE table' = table /\ pc' \in {"consume", "chunks"}
  BY <1>1, <1>2, LexStill DEF Between
<1>3. CASE ConsumeFile(i) /\ rows # {}
  <2>1. /\ table' = TombstoneRows(rows) /\ owed' = [NoOwed EXCEPT !.remove = rows]
        /\ pc' = "consume_lex"
    BY <1>3 DEF ConsumeFile
  <2>2. rows \subseteq LiveRows
    BY <1>1, VanishedRowsLive
  <2>3. LexApplied' = LiveDocs'
    BY <1>1, <2>1, <2>2, LexTombstoned DEF RunInv
  <2> QED
    BY <1>1, <2>1, <2>3, LexOwed DEF HalfDone
<1> QED
  BY <1>1, <1>2, <1>3 DEF SkipFile, ConsumeFile

\* Writing a batch leaves the documents of exactly its rows to be added.
LEMMA LexFlush ==
    ASSUME RunInv, LexInv, FlushStore
    PROVE  LexInv'
<1>1. TypeOK /\ HashPart /\ QueuePart
  BY DEF RunInv
<1>2. /\ pc \in {"chunks", "consume"} /\ pc \notin Flushing /\ pc' \in HalfDone
      /\ table' = TableAfter(Batch) /\ lex' = lex
  BY DEF FlushStore, FlushDue, Flushing, HalfDone
<1>3. lex = LiveDocs
  BY <1>2 DEF LexInv, LexicalMirrorsStore, Between
<1>4. Batch = pending /\ Len(pending) \in Nat /\ DOMAIN pending = 1 .. Len(pending)
  BY <1>1, BatchIsPending
<1> DEFINE M == Len(table)
           N == Len(pending)
           new(k) == [row |-> M + k, hash |-> pending[k].hash, file |-> pending[k].file]
           docs == { [row |-> RowOf(TableAfter(Batch), Batch[k].hash),
                      hash |-> Batch[k].hash, file |-> Batch[k].file] : k \in DOMAIN Batch }
<1>5. /\ M \in Nat /\ N \in Nat /\ DOMAIN table = 1 .. M /\ LiveRows \subseteq DOMAIN table
      /\ DOMAIN pending = 1 .. N
  BY <1>1, <1>4, LiveRowsFinite
<1>6. /\ \A r \in DOMAIN table : table'[r] = table[r]
      /\ \A k \in DOMAIN pending :
           table'[M + k] = [hash |-> pending[k].hash, file |-> pending[k].file, live |-> TRUE]
      /\ LiveRows' = LiveRows \cup ((M + 1) .. (M + N))
      /\ \A k \in DOMAIN pending : RowOf(table', pending[k].hash) = M + k
  BY <1>1, <1>2, Appended
<1>7. docs = { new(k) : k \in 1 .. N }
  <2>1. docs = { [row |-> RowOf(table', pending[k].hash),
                  hash |-> pending[k].hash, file |-> pending[k].file] : k \in 1 .. N }
    BY <1>2, <1>4
  <2>2. \A k \in 1 .. N : RowOf(table', pending[k].hash) = M + k
    BY <1>5, <1>6
  <2> QED
    BY <2>1, <2>2
<1>8. owed' = [NoOwed EXCEPT !.remove = { d.row : d \in docs }, !.add = docs]
  BY DEF FlushStore
<1>9. owed'.remove = { d.row : d \in docs } /\ owed'.add = docs
  BY <1>8 DEF NoOwed
<1> HIDE DEF M, N, docs
<1>10. \A d \in docs : d.row \notin LiveRows
  <2>1. \A k \in 1 .. N : M + k \notin 1 .. M
    BY <1>5
  <2>2. \A k \in 1 .. N : new(k).row = M + k
    OBVIOUS
  <2> QED
    BY <1>5, <1>7, <2>1, <2>2
<1>11. LexApplied' = lex \cup docs
  <2>1. LexApplied' = { d \in lex : d.row \notin { e.row : e \in docs } } \cup docs
    BY <1>2, <1>9 DEF LexApplied
  <2>2. \A d \in lex : d.row \in LiveRows
    BY <1>3, LiveDocsByRow
  <2> QED
    BY <1>10, <2>1, <2>2
<1>12. LiveDocs' = LiveDocs \cup docs
  <2> DEFINE doc(r) == [row |-> r, hash |-> table'[r].hash, file |-> table'[r].file]
             old(r) == [row |-> r, hash |-> table[r].hash, file |-> table[r].file]
  <2>1. LiveDocs' = { doc(r) : r \in LiveRows' }
    BY DEF LiveDocs
  <2>2. LiveDocs = { old(r) : r \in LiveRows }
    BY DEF LiveDocs
  <2>3. \A r \in LiveRows : doc(r) = old(r)
    BY <1>5, <1>6
  <2>4. \A k \in 1 .. N : doc(M + k) = new(k)
    <3> SUFFICES ASSUME NEW k \in 1 .. N PROVE doc(M + k) = new(k)
      OBVIOUS
    <3>1. table'[M + k] = [hash |-> pending[k].hash, file |-> pending[k].file, live |-> TRUE]
      BY <1>5, <1>6
    <3> QED
      BY <3>1
  <2>5. \A r \in (M + 1) .. (M + N) : \E k \in 1 .. N : r = M + k
    <3> SUFFICES ASSUME NEW r \in (M + 1) .. (M + N) PROVE r - M \in 1 .. N /\ r = M + (r - M)
      OBVIOUS
    <3> QED
      BY <1>5
  <2>6. \A k \in 1 .. N : M + k \in (M + 1) .. (M + N)
    BY <1>5
  <2> HIDE DEF doc, old, new
  <2> QED
    BY <1>6, <1>7, <2>1, <2>2, <2>3, <2>4, <2>5, <2>6
<1> QED
  BY <1>2, <1>3, <1>11, <1>12, LexOwed

\* After compaction every document is under the row its record left.
LEMMA LexCompact ==
    ASSUME TypeOK, LexInv, Compact
    PROVE  LexInv'
<1>1. pc = "compact" /\ pc' = "renumber" /\ lex' = lex /\ owed' = [NoOwed EXCEPT !.order = LiveRowsInOrder]
  BY DEF Compact
<1>2. lex = LiveDocs
  BY <1>1 DEF LexInv, LexicalMirrorsStore, Between
<1>3. owed'.order = LiveRowsInOrder
  BY <1>1 DEF NoOwed
<1> DEFINE n == Cardinality(LiveRows)
           ord == LiveRowsInOrder
<1>4. /\ DOMAIN table' = 1 .. n /\ ord \in [1 .. n -> LiveRows]
      /\ \A k \in DOMAIN table' : table'[k] = table[ord[k]]
      /\ \A j, k \in DOMAIN table' : ord[j] = ord[k] => j = k
      /\ \A r \in LiveRows : \E k \in DOMAIN table' : ord[k] = r
      /\ LiveRows' = DOMAIN table'
  BY Compacted DEF Compact
<1>5. \A k \in DOMAIN table' : table'[k].live
  BY <1>4 DEF LiveRows
<1> HIDE DEF ord, n
<1>6. lex = { [row |-> ord[k], hash |-> table'[k].hash, file |-> table'[k].file] : k \in DOMAIN table' }
  <2> DEFINE doc(r) == [row |-> r, hash |-> table[r].hash, file |-> table[r].file]
  <2>1. lex = { doc(r) : r \in LiveRows }
    BY <1>2 DEF LiveDocs
  <2>2. \A k \in DOMAIN table' :
          /\ [row |-> ord[k], hash |-> table'[k].hash, file |-> table'[k].file] = doc(ord[k])
          /\ ord[k] \in LiveRows
    BY <1>4
  <2> HIDE DEF doc
  <2> QED
    BY <1>4, <2>1, <2>2
<1>7. LexPart'
  <2>1. pc' \notin HalfDone
    BY <1>1 DEF HalfDone, Flushing
  <2>2. DOMAIN owed'.order = DOMAIN table'
    BY <1>3, <1>4 DEF ord
  <2> QED
    BY <1>1, <1>3, <1>4, <1>5, <1>6, <2>1, <2>2 DEF LexPart, ord
<1> QED
  BY <1>1, <1>7 DEF LexInv, LexicalMirrorsStore, DocPart, Between

\* renumber moves every document to the row of its record.
LEMMA LexRenumber ==
    ASSUME LexInv, Renumber
    PROVE  LexInv'
<1>1. pc = "renumber" /\ pc' = "finish" /\ table' = table
  BY DEF Renumber
<1> DEFINE ord == owed.order
           D == DOMAIN table
           at(k) == [row |-> ord[k], hash |-> table[k].hash, file |-> table[k].file]
           moved == { k \in DOMAIN ord : \E d \in lex : d.row = ord[k] }
<1>2. /\ \A k \in D : table[k].live
      /\ DOMAIN ord = D
      /\ \A j, k \in D : ord[j] = ord[k] => j = k
      /\ lex = { at(k) : k \in D }
  BY <1>1 DEF LexInv, LexPart
<1>3. \A k \in D : at(k).row = ord[k]
  OBVIOUS
<1>4. moved = D
  <2>1. \A k \in D : at(k) \in lex
    BY <1>2
  <2> HIDE DEF at, D, ord
  <2>2. \A k \in D : \E d \in lex : d.row = ord[k]
    BY <1>3, <2>1
  <2> QED
    BY <1>2, <2>2
<1>5. { d \in lex : d.row \notin moved /\ d.row \notin { ord[k] : k \in moved } } = {}
  BY <1>2, <1>3, <1>4
<1>6. \A k \in D : { [d EXCEPT !.row = k] : d \in { x \in lex : x.row = ord[k] } }
                     = {[row |-> k, hash |-> table[k].hash, file |-> table[k].file]}
  <2> SUFFICES ASSUME NEW k \in D
               PROVE  { [d EXCEPT !.row = k] : d \in { x \in lex : x.row = ord[k] } }
                        = {[row |-> k, hash |-> table[k].hash, file |-> table[k].file]}
    OBVIOUS
  <2>1. { x \in lex : x.row = ord[k] } = {at(k)}
    <3> HIDE DEF at, D, ord
    <3> QED
      BY <1>2, <1>3
  <2>2. [at(k) EXCEPT !.row = k] = [row |-> k, hash |-> table[k].hash, file |-> table[k].file]
    OBVIOUS
  <2> HIDE DEF at
  <2>3. \A e : e \in { [d EXCEPT !.row = k] : d \in { x \in lex : x.row = ord[k] } }
                <=> e = [at(k) EXCEPT !.row = k]
    BY <2>1
  <2> QED
    BY <2>2, <2>3
<1>7. lex' = { d \in lex : d.row \notin moved /\ d.row \notin { ord[k] : k \in moved } }
             \cup UNION { { [d EXCEPT !.row = k] : d \in { x \in lex : x.row = ord[k] } } : k \in moved }
  BY DEF Renumber
<1>8. lex' = { [row |-> k, hash |-> table[k].hash, file |-> table[k].file] : k \in D }
  <2> DEFINE part(k) == { [d EXCEPT !.row = k] : d \in { x \in lex : x.row = ord[k] } }
             new(k) == [row |-> k, hash |-> table[k].hash, file |-> table[k].file]
  <2>1. lex' = UNION { part(k) : k \in D }
    BY <1>4, <1>5, <1>7
  <2>2. \A k \in D : part(k) = {new(k)}
    BY <1>6
  <2> HIDE DEF part, new
  <2>3. lex' = { new(k) : k \in D }
    BY <2>1, <2>2
  <2> QED
    BY <2>3 DEF new
<1>9. LiveRows = D
  BY <1>2 DEF LiveRows
<1>10. lex' = LiveDocs /\ LiveDocs' = LiveDocs
  BY <1>1, <1>8, <1>9 DEF LiveDocs, LiveRows
<1>11. DocPart'
  BY <1>10, LiveDocsByRow DEF DocPart
<1>12. LexPart'
  BY <1>1 DEF LexPart, HalfDone, Flushing
<1> QED
  BY <1>10, <1>11, <1>12 DEF LexInv, LexicalMirrorsStore

\* Every step keeps the lexical index in step with the store, when a run is killed
\* only where neither waits for the other.
LEMMA LexStep ==
    ASSUME KillPoints \subseteq Between, RunInv, LexInv, [Next]_vars
    PROVE  LexInv'
<1>0. TypeOK
  BY DEF RunInv
<1>1. ASSUME NEW t \in Trees, CommitTree(t) \/ EditWorktree(t) PROVE LexInv'
  BY <1>1, LexRepo DEF CommitTree, EditWorktree
<1>2. CASE IndexAll \/ Update
  BY <1>2, LexStill DEF IndexAll, Update, MayStart, Between
<1>3. ASSUME NEW c \in changes, ApplyWritten(c) \/ ApplyDeleted(c) \/ ApplyRenamed(c)
      PROVE  LexInv'
  BY <1>0, <1>3, LexChanges
<1>4. CASE ChangesLex \/ ConsumeLex \/ FlushLex
  <2>1. pc \in HalfDone /\ pc' \in Between /\ table' = table /\ lex' = LexApplied
    BY <1>4 DEF ChangesLex, ConsumeLex, FlushLex, HalfDone, Flushing, Between
  <2> QED
    BY <2>1, LexPaid
<1>5. CASE ChangesDone \/ StartParse \/ FileDone \/ RecordCommit \/ NoCompact \/ Finish
  <2>1. pc \in Between /\ pc' \in Between /\ table' = table /\ lex' = lex
    BY <1>5 DEF ChangesDone, StartParse, FileDone, RecordCommit, NoCompact, Finish, Between
  <2> QED
    BY <2>1, LexStill
<1>6. ASSUME NEW h \in Hashes, ReuseChunk(h) \/ QueueChunk(h) PROVE LexInv'
  <2>1. pc \in Between /\ pc' \in Between /\ table' = table /\ lex' = lex
    BY <1>6 DEF ReuseChunk, QueueChunk, Between
  <2> QED
    BY <2>1, LexStill
<1>7. ASSUME NEW i \in items, SkipFile(i) \/ ConsumeFile(i) PROVE LexInv'
  BY <1>7, LexFile
<1>8. CASE FlushStore
  BY <1>8, LexFlush
<1>9. CASE Compact
  BY <1>0, <1>9, LexCompact
<1>10. CASE Renumber
  BY <1>10, LexRenumber
<1>11. CASE Kill
  <2>1. pc \in Between /\ pc' \in Between /\ table' = table /\ lex' = lex
    BY <1>11 DEF Kill, Between
  <2> QED
    BY <2>1, LexStill
<1>12. CASE UNCHANGED vars
  BY <1>12, LexRepo
<1> QED
  BY <1>1, <1>2, <1>3, <1>4, <1>5, <1>6, <1>7, <1>8, <1>9, <1>10, <1>11, <1>12 DEF Next

\* IndexerInv is inductive when runs are killed between operations: the store and
\* the lexical index agree up to what is owed.
THEOREM IndexerInvariance ==
    ASSUME KillPoints \subseteq Between
    PROVE  Spec => []IndexerInv
<1>1. Init => LexInv
  <2> SUFFICES ASSUME Init PROVE LexInv
    OBVIOUS
  <2>1. table = << >> /\ lex = {} /\ pc = "idle"
    BY DEF Init
  <2>2. LiveRows = {}
    BY <2>1 DEF LiveRows
  <2>3. LiveDocs = {}
    BY <2>2 DEF LiveDocs
  <2> QED
    BY <2>1, <2>3 DEF LexInv, LexicalMirrorsStore, DocPart, LexPart, HalfDone, Flushing
<1>2. RunInv /\ LexInv /\ [Next]_vars => LexInv'
  BY LexStep
<1>3. RunInv /\ LexInv => IndexerInv
  BY DEF LexInv, IndexerInv
<1> QED
  BY <1>1, <1>2, <1>3, RunInvariance, PTL DEF Spec

\* Wherever a run stands between two operations, and between runs, the lexical index
\* holds exactly one document per live row, with its content and its path.
THEOREM IndexesAgree ==
    ASSUME KillPoints \subseteq Between
    PROVE  Spec => []LexicalMirrorsStore
<1>1. IndexerInv => LexicalMirrorsStore
  BY DEF IndexerInv
<1> QED
  BY <1>1, IndexerInvariance, PTL

=============================================================================
