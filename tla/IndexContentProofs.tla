------------------------- MODULE IndexContentProofs -------------------------
(***************************************************************************)
(* Proofs about what an index holds once a run has recorded its commit:    *)
(* no row for code that HEAD does not have (NoGhostRows), and every chunk  *)
(* of HEAD (IndexComplete) when code does not move between files.  Both    *)
(* are about runs that are left alone: see Undisturbed.                    *)
(***************************************************************************)
EXTENDS IndexerProofs

USE IndexerAssumption DEF repoVars, indexVars, runVars, vars

\* The repository is left alone by everything but commits between runs, no run is
\* killed, and a store that has a commit is only updated.
Undisturbed ==
    /\ WorktreeEdits = FALSE /\ ConcurrentEdits = FALSE
    /\ Reindex = FALSE /\ KillPoints = {}

\* A row is for code of the tree, or for a file that could not be parsed there.
OfTree(r, t) ==
    \/ table[r].hash \in Chunks(t[table[r].file])
    \/ t[table[r].file] = Opaque

Awaited(f) == \E i \in items : i.rel = f

Leaves(c, f) == c.kind \in {"deleted", "renamed"} /\ c.from = f

Arrives(c, f) == c.kind \in {"written", "renamed"} /\ c.to = f

\* What is read of the repository during a run is HEAD.
CalmPart ==
    /\ work = head
    /\ pc # "idle" => \A i \in items : i.src = head[i.rel] /\ i.src # NoFile

\* The changes still to be applied lead to HEAD, each file leaves once.
ChangePart ==
    pc \in {"changes", "changes_lex"} =>
        /\ \A c \in changes : c.kind \in {"written", "renamed"} => head[c.to] # NoFile
        /\ \A c \in changes : c.kind \in {"deleted", "renamed"} => head[c.from] = NoFile
        /\ \A c, d \in changes : \A f \in Files : Leaves(c, f) /\ Leaves(d, f) => c = d

\* A row that is not of HEAD is in a file still to be looked at.
GhostPart ==
    /\ pc = "idle" => IF indexed = NoCommit THEN table = << >>
                      ELSE \A r \in LiveRows : OfTree(r, indexed.tree)
    /\ pc \in {"changes", "changes_lex"} =>
         \A r \in LiveRows :
            \/ OfTree(r, head)
            \/ Awaited(table[r].file)
            \/ \E c \in changes : \/ Leaves(c, table[r].file)
                                  \/ c.kind = "written" /\ c.to = table[r].file
    /\ pc \in Consuming \cup {"parse"} =>
         \A r \in LiveRows : OfTree(r, head) \/ Awaited(table[r].file)
    /\ pc \in {"compact", "renumber", "finish"} =>
         /\ indexed # NoCommit /\ indexed.tree = head
         /\ \A r \in LiveRows : OfTree(r, head)

\* What was read before parsing is all there is of a file that is still awaited, and
\* what is queued belongs to HEAD and to a file that is not.
ReadPart ==
    /\ pc \in Consuming =>
         /\ \A r \in LiveRows : Awaited(table[r].file) =>
              [file |-> table[r].file, hash |-> table[r].hash, row |-> r] \in existing
         /\ \A k \in DOMAIN pending : /\ pending[k].hash \in Chunks(head[pending[k].file])
                                      /\ ~Awaited(pending[k].file)
    /\ pc \in {"consume_lex", "chunks", "flush_lex"} =>
         todo \subseteq Chunks(head[file]) /\ ~Awaited(file)

ContentInv == CalmPart /\ ChangePart /\ GhostPart /\ ReadPart

\* Code does not move: every file can be parsed, and a file shares code with another,
\* in one tree or in two, only when the one is gone where the other is, and then with
\* that one file alone.
CodeStays ==
    /\ \A t \in Trees : \A f \in Files : t[f] # Opaque
    /\ \A t, u \in Trees : \A f, g \in Files :
         f # g /\ Chunks(t[f]) \cap Chunks(u[g]) # {} =>
            /\ u[f] = NoFile /\ t[g] = NoFile
            /\ \A k \in Files : Chunks(t[f]) \cap Chunks(u[k]) # {} => k = g

Held(h, f) == \E r \in LiveRows : table[r].hash = h /\ table[r].file = f

\* f will be parsed
Due(f) == Awaited(f) \/ \E c \in changes : Arrives(c, f)

\* h is live in a file that is about to be deleted or renamed to f
Leaving(h, f) ==
    \E r \in LiveRows : \E c \in changes :
        /\ table[r].hash = h /\ Leaves(c, table[r].file)
        /\ c.kind = "renamed" => c.to = f

\* h is to be looked at, or waits for the next flush
InHand(h, f) ==
    \/ h \notin known /\ Awaited(f)
    \/ h \notin known /\ f = file /\ h \in todo /\ pc \in {"consume_lex", "chunks", "flush_lex"}
    \/ pc \notin Flushing /\ \E k \in DOMAIN pending : pending[k].hash = h /\ pending[k].file = f

\* A chunk of HEAD that is not held under its file is on its way there.
CompletePart ==
    /\ pc = "idle" /\ indexed # NoCommit => TreeHashes(indexed.tree) \subseteq LiveHashes
    /\ pc \in {"changes", "changes_lex"} =>
         \A g \in Files : \A h \in Chunks(head[g]) :
            Held(h, g) \/ ((h \notin LiveHashes \/ Leaving(h, g)) /\ Due(g))
    /\ pc = "parse" =>
         \A g \in Files : \A h \in Chunks(head[g]) :
            Held(h, g) \/ (h \notin LiveHashes /\ Awaited(g))
    /\ pc \in Consuming =>
         /\ \A e \in existing : e.hash \in known
         /\ \A g \in Files : \A h \in Chunks(head[g]) : Held(h, g) \/ InHand(h, g)
    /\ pc \in {"compact", "renumber", "finish"} => TreeHashes(head) \subseteq LiveHashes


-----------------------------------------------------------------------------
\* The records of live rows and the contents of HEAD have their types.
LEMMA RowTypes ==
    ASSUME RunInv
    PROVE  /\ TypeOK /\ LiveRows \subseteq DOMAIN table
           /\ \A r \in LiveRows : table[r].file \in Files /\ table[r].hash \in Hashes
           /\ head \in Trees /\ head \in [Files -> (SUBSET Hashes) \cup {NoFile, Opaque}]
<1>1. TypeOK
  BY DEF RunInv
<1>2. LiveRows \subseteq DOMAIN table /\ \A r \in DOMAIN table : table[r] \in Record
  BY <1>1, LiveRowsFinite
<1>3. head \in Trees
  BY <1>1 DEF TypeOK
<1> QED
  BY <1>1, <1>2, <1>3 DEF Record

\* A chunk of a content: the content is neither absent nor opaque, and holds it.
LEMMA ChunkOf ==
    ASSUME NEW content, NEW h
    PROVE  h \in Chunks(content) <=> content # NoFile /\ content # Opaque /\ h \in content
BY DEF Chunks

\* Between runs only commits change the repository, during a run nothing does.
LEMMA ContentRepo ==
    ASSUME Undisturbed, RunInv, ContentInv, NEW t \in Trees, CommitTree(t) \/ EditWorktree(t)
    PROVE  ContentInv' /\ pc = "idle" /\ UNCHANGED <<indexVars, pc, runVars>>
<1>1. /\ pc = "idle" /\ head' = t /\ work' = t /\ UNCHANGED <<indexVars, pc, runVars>>
  BY DEF Undisturbed, CommitTree, EditWorktree, RepoMayChange
<1>2. CalmPart' /\ ChangePart' /\ ReadPart'
  BY <1>1 DEF CalmPart, ChangePart, ReadPart, Consuming
<1>3. GhostPart'
  <2>1. LiveRows' = LiveRows
    BY <1>1 DEF LiveRows
  <2> QED
    BY <1>1, <2>1 DEF ContentInv, GhostPart, OfTree, Consuming
<1> QED
  BY <1>1, <1>2, <1>3 DEF ContentInv

\* Everything a run reads is HEAD.
LEMMA SourceIsHead == ASSUME CalmPart, NEW f PROVE Source(f) = head[f]
BY DEF CalmPart, Source

\* index_all starts on an empty store.
LEMMA ContentIndexAll ==
    ASSUME Undisturbed, RunInv, ContentInv, IndexAll
    PROVE  ContentInv' /\ table = << >> /\ LiveRows = {} /\ LiveRows' = {}
<1>1. /\ pc = "idle" /\ pc' = "parse" /\ indexed = NoCommit /\ items' = ItemsFor(Present)
      /\ UNCHANGED <<repoVars, indexVars>>
  BY DEF Undisturbed, IndexAll, MayStart
<1>2. table = << >>
  BY <1>1 DEF ContentInv, GhostPart
<1>3. LiveRows' = {} /\ LiveRows = {}
  BY <1>1, <1>2 DEF LiveRows
<1>4. CalmPart'
  <2>1. \A i \in items' : i.src = head[i.rel] /\ i.src # NoFile
    BY <1>1, SourceIsHead DEF ContentInv, ItemsFor
  <2> QED
    BY <1>1, <2>1 DEF ContentInv, CalmPart
<1>5. ChangePart' /\ ReadPart'
  BY <1>1 DEF ChangePart, ReadPart, Consuming
<1>6. GhostPart'
  BY <1>1, <1>3 DEF GhostPart
<1> QED
  BY <1>2, <1>3, <1>4, <1>5, <1>6 DEF ContentInv

\* The changes between two trees, by kind.
LEMMA DiffMembers ==
    ASSUME NEW old, NEW new, NEW R \in Renames(old, new)
    PROVE  /\ \A p \in R : /\ p[1] \in Files /\ p[2] \in Files
                           /\ old[p[1]] # NoFile /\ new[p[1]] = NoFile
                           /\ old[p[2]] = NoFile /\ new[p[2]] # NoFile
                           /\ \/ old[p[1]] = new[p[2]]
                              \/ Chunks(old[p[1]]) \cap Chunks(new[p[2]]) # {}
           /\ \A p, q \in R : (p[1] = q[1] \/ p[2] = q[2]) => p = q
           /\ \A c \in Diff(old, new, R) :
                \/ \E p \in R : c = [kind |-> "renamed", from |-> p[1], to |-> p[2]]
                \/ /\ c.kind = "deleted" /\ c.from \in Files /\ c.to = c.from
                   /\ old[c.from] # NoFile /\ new[c.from] = NoFile /\ \A p \in R : p[1] # c.from
                   /\ c = [kind |-> "deleted", from |-> c.from, to |-> c.from]
                \/ /\ c.kind = "written" /\ c.from \in Files /\ c.to = c.from /\ new[c.from] # NoFile
           /\ \A p \in R : [kind |-> "renamed", from |-> p[1], to |-> p[2]] \in Diff(old, new, R)
           /\ \A f \in Files : old[f] # NoFile /\ new[f] = NoFile /\ (\A p \in R : p[1] # f) =>
                [kind |-> "deleted", from |-> f, to |-> f] \in Diff(old, new, R)
           /\ \A f \in Files : new[f] # NoFile /\ new[f] # old[f] /\ (\A p \in R : p[2] # f) =>
                [kind |-> "written", from |-> f, to |-> f] \in Diff(old, new, R)
<1>1. \A p \in R : /\ p[1] \in Files /\ p[2] \in Files
                   /\ old[p[1]] # NoFile /\ new[p[1]] = NoFile
                   /\ old[p[2]] = NoFile /\ new[p[2]] # NoFile
                   /\ \/ old[p[1]] = new[p[2]]
                      \/ Chunks(old[p[1]]) \cap Chunks(new[p[2]]) # {}
  BY DEF Renames
<1>2. \A p, q \in R : (p[1] = q[1] \/ p[2] = q[2]) => p = q
  BY DEF Renames
<1>3. \A c \in Diff(old, new, R) :
                \/ \E p \in R : c = [kind |-> "renamed", from |-> p[1], to |-> p[2]]
                \/ /\ c.kind = "deleted" /\ c.from \in Files /\ c.to = c.from
                   /\ old[c.from] # NoFile /\ new[c.from] = NoFile /\ \A p \in R : p[1] # c.from
                   /\ c = [kind |-> "deleted", from |-> c.from, to |-> c.from]
                \/ /\ c.kind = "written" /\ c.from \in Files /\ c.to = c.from /\ new[c.from] # NoFile
  BY DEF Diff
<1>4. \A p \in R : [kind |-> "renamed", from |-> p[1], to |-> p[2]] \in Diff(old, new, R)
  BY DEF Diff
<1>5. \A f \in Files : old[f] # NoFile /\ new[f] = NoFile /\ (\A p \in R : p[1] # f) =>
                [kind |-> "deleted", from |-> f, to |-> f] \in Diff(old, new, R)
  BY DEF Diff
<1>6. \A f \in Files : new[f] # NoFile /\ new[f] # old[f] /\ (\A p \in R : p[2] # f) =>
                [kind |-> "written", from |-> f, to |-> f] \in Diff(old, new, R)
  BY DEF Diff
<1> QED
  BY <1>1, <1>2, <1>3, <1>4, <1>5, <1>6

\* update starts with the changes from the recorded commit to HEAD, which account for
\* every row that is not of HEAD.
LEMMA ContentUpdate ==
    ASSUME Undisturbed, RunInv, ContentInv, Update
    PROVE  ContentInv'
<1>0. PICK R \in Renames(indexed.tree, head) : changes' = Diff(indexed.tree, head, R)
  BY DEF Update
<1> DEFINE old == indexed.tree
<1>1. /\ pc = "idle" /\ pc' = "changes" /\ indexed # NoCommit
      /\ UNCHANGED <<repoVars, indexVars>>
      /\ items' = IF IsDirty /\ Policy = "IndexWorktree" THEN ItemsFor(DirtyPaths) ELSE {}
  BY DEF Update, MayStart
<1>2. LiveRows' = LiveRows
  BY <1>1 DEF LiveRows
<1>3. CalmPart'
  <2>1. \A i \in items' : i.src = head[i.rel] /\ i.src # NoFile
    BY <1>1, SourceIsHead DEF ContentInv, ItemsFor
  <2> QED
    BY <1>1, <2>1 DEF ContentInv, CalmPart
<1>4. ReadPart'
  BY <1>1 DEF ReadPart, Consuming
<1>5. /\ \A p \in R : /\ head[p[1]] = NoFile /\ old[p[2]] = NoFile /\ head[p[2]] # NoFile
                      /\ p[1] \in Files /\ p[2] \in Files
      /\ \A p, q \in R : (p[1] = q[1] \/ p[2] = q[2]) => p = q
      /\ \A p \in R : [kind |-> "renamed", from |-> p[1], to |-> p[2]] \in changes'
      /\ \A f \in Files : old[f] # NoFile /\ head[f] = NoFile /\ (\A p \in R : p[1] # f) =>
           [kind |-> "deleted", from |-> f, to |-> f] \in changes'
      /\ \A f \in Files : head[f] # NoFile /\ head[f] # old[f] /\ (\A p \in R : p[2] # f) =>
           [kind |-> "written", from |-> f, to |-> f] \in changes'
  BY <1>0, DiffMembers
<1>6. \A c \in changes' :
         \/ \E p \in R : c = [kind |-> "renamed", from |-> p[1], to |-> p[2]]
         \/ /\ c.kind = "deleted" /\ head[c.from] = NoFile /\ \A p \in R : p[1] # c.from
            /\ c = [kind |-> "deleted", from |-> c.from, to |-> c.from]
         \/ c.kind = "written" /\ c.to = c.from /\ head[c.from] # NoFile
  BY <1>0, DiffMembers
<1>7. ChangePart'
  <2>1. \A c \in changes' : c.kind \in {"written", "renamed"} => head[c.to] # NoFile
    BY <1>5, <1>6
  <2>2. \A c \in changes' : c.kind \in {"deleted", "renamed"} => head[c.from] = NoFile
    BY <1>5, <1>6
  <2>3. ASSUME NEW c \in changes', NEW d \in changes', NEW f \in Files, Leaves(c, f), Leaves(d, f)
        PROVE  c = d
    <3>1. c.kind \in {"deleted", "renamed"} /\ d.kind \in {"deleted", "renamed"} /\ c.from = f /\ d.from = f
      BY <2>3 DEF Leaves
    <3>2. CASE c.kind = "deleted" /\ d.kind = "deleted"
      BY <1>6, <3>1, <3>2
    <3>3. CASE c.kind = "renamed" /\ d.kind = "renamed"
      <4>1. PICK p \in R : c = [kind |-> "renamed", from |-> p[1], to |-> p[2]]
        BY <1>6, <3>3
      <4>2. PICK q \in R : d = [kind |-> "renamed", from |-> q[1], to |-> q[2]]
        BY <1>6, <3>3
      <4>3. p[1] = f /\ q[1] = f
        BY <3>1, <4>1, <4>2
      <4> QED
        BY <1>5, <4>1, <4>2, <4>3
    <3>4. CASE c.kind = "deleted" /\ d.kind = "renamed"
      BY <1>6, <3>1, <3>4
    <3>5. CASE c.kind = "renamed" /\ d.kind = "deleted"
      BY <1>6, <3>1, <3>5
    <3> QED
      BY <3>1, <3>2, <3>3, <3>4, <3>5
  <2>4. \A c, d \in changes' : \A f \in Files : Leaves(c, f) /\ Leaves(d, f) => c = d
    BY <2>3
  <2> QED
    BY <1>1, <2>1, <2>2, <2>4 DEF ChangePart, Leaves
<1>8. ASSUME NEW r \in LiveRows, ~OfTree(r, head)
      PROVE  \E c \in changes' : \/ Leaves(c, table[r].file)
                                 \/ c.kind = "written" /\ c.to = table[r].file
  <2> DEFINE f == table[r].file
  <2>1. f \in Files
    BY RowTypes
  <2>2. OfTree(r, old)
    BY <1>1 DEF ContentInv, GhostPart
  <2>3. old[f] # NoFile /\ head[f] # old[f]
    BY <1>8, <2>2 DEF OfTree, Chunks
  <2> HIDE DEF f, old
  <2>4. CASE head[f] = NoFile /\ \A p \in R : p[1] # f
    <3>1. [kind |-> "deleted", from |-> f, to |-> f] \in changes'
      BY <1>5, <2>1, <2>3, <2>4
    <3> QED
      BY <3>1 DEF Leaves, f
  <2>5. CASE head[f] = NoFile /\ ~(\A p \in R : p[1] # f)
    <3>1. PICK p \in R : p[1] = f
      BY <2>5
    <3>2. [kind |-> "renamed", from |-> f, to |-> p[2]] \in changes'
      BY <1>5, <3>1
    <3> QED
      BY <3>2 DEF Leaves, f
  <2>6. CASE head[f] # NoFile
    <3>1. \A p \in R : p[2] # f
      BY <1>5, <2>3
    <3>2. [kind |-> "written", from |-> f, to |-> f] \in changes'
      BY <1>5, <2>1, <2>3, <2>6, <3>1
    <3> QED
      BY <3>2 DEF f
  <2> QED
    BY <2>4, <2>5, <2>6
<1>9. GhostPart'
  BY <1>1, <1>2, <1>8 DEF GhostPart, OfTree, Leaves, Consuming
<1> QED
  BY <1>3, <1>4, <1>7, <1>9 DEF ContentInv

\* A path that can be read is awaited once it has been added.
LEMMA AddItemAwaits ==
    ASSUME CalmPart, pc # "idle", NEW f, AddItem(f), head[f] # NoFile, head' = head
    PROVE  /\ \E i \in items' : i.rel = f
           /\ items \subseteq items'
           /\ \A i \in items' : i.src = head[i.rel] /\ i.src # NoFile
<1>1. Source(f) = head[f]
  BY SourceIsHead
<1>2. \A i \in items : i.src = head[i.rel] /\ i.src # NoFile
  BY DEF CalmPart
<1>3. CASE \E i \in items : i.rel = f
  <2>1. items' = items
    BY <1>3 DEF AddItem
  <2> QED
    BY <1>2, <1>3, <2>1
<1>4. CASE ~\E i \in items : i.rel = f
  <2>1. items' = items \cup {[rel |-> f, src |-> head[f]]}
    BY <1>1, <1>4 DEF AddItem
  <2>2. \A i \in items' : i \in items \/ (i.rel = f /\ i.src = head[f])
    BY <2>1
  <2>3. \E i \in items' : i.rel = f
    <3>1. [rel |-> f, src |-> head[f]] \in items' /\ [rel |-> f, src |-> head[f]].rel = f
      BY <2>1
    <3> QED
      BY <3>1
  <2> QED
    BY <1>2, <2>1, <2>2, <2>3
<1> QED
  BY <1>3, <1>4

\* Applying a change brings the rows it is about to HEAD, or to a file to be parsed.
LEMMA ContentChanges ==
    ASSUME RunInv, ContentInv, NEW c \in changes,
           ApplyWritten(c) \/ ApplyDeleted(c) \/ ApplyRenamed(c)
    PROVE  /\ ContentInv' /\ items \subseteq items'
           /\ c.kind \in {"written", "renamed"} => \E i \in items' : i.rel = c.to
<1>0. CalmPart /\ ChangePart /\ GhostPart
  BY DEF ContentInv
<1>1. /\ pc = "changes" /\ pc' \in {"changes", "changes_lex"} /\ changes' = changes \ {c}
      /\ UNCHANGED repoVars /\ indexed' = indexed
  BY DEF ApplyWritten, ApplyDeleted, ApplyRenamed
<1>2. TypeOK /\ LiveRows \subseteq DOMAIN table /\ \A r \in LiveRows : table[r].file \in Files
  BY RowTypes
<1>3. c.from \in Files /\ c.to \in Files
  BY <1>2 DEF TypeOK
<1>4. c.kind \in {"written", "renamed"} => head[c.to] # NoFile
  BY <1>0, <1>1 DEF ChangePart
<1>5. /\ items \subseteq items' /\ \A i \in items' : i.src = head[i.rel] /\ i.src # NoFile
      /\ c.kind \in {"written", "renamed"} => \E i \in items' : i.rel = c.to
  <2>1. CASE ApplyWritten(c) \/ ApplyRenamed(c)
    BY <1>0, <1>1, <1>4, <2>1, AddItemAwaits DEF ApplyWritten, ApplyRenamed
  <2>2. CASE ApplyDeleted(c)
    BY <1>0, <1>1, <2>2 DEF ApplyDeleted, CalmPart
  <2> QED
    BY <2>1, <2>2
<1>6. CalmPart'
  BY <1>0, <1>1, <1>5 DEF CalmPart
<1>7. ChangePart'
  BY <1>0, <1>1 DEF ChangePart, Leaves
<1>8. ReadPart'
  BY <1>1 DEF ReadPart, Consuming
<1> DEFINE rows == RowsForFile(c.from)
           Kept(r) == \/ OfTree(r, head)
                      \/ \E i \in items' : i.rel = table[r].file
                      \/ \E d \in changes' : \/ Leaves(d, table[r].file)
                                             \/ d.kind = "written" /\ d.to = table[r].file
<1>9. rows \subseteq LiveRows /\ \A r \in LiveRows : table[r].file = c.from => r \in rows
  BY DEF RowsForFile
<1>10. ASSUME NEW r \in LiveRows, c.kind = "written" \/ table[r].file # c.from
       PROVE  Kept(r)
  <2>1. \/ OfTree(r, head)
        \/ \E i \in items : i.rel = table[r].file
        \/ \E d \in changes : \/ Leaves(d, table[r].file)
                              \/ d.kind = "written" /\ d.to = table[r].file
    BY <1>0, <1>1 DEF GhostPart, Awaited
  <2>2. CASE \E d \in changes : \/ Leaves(d, table[r].file)
                                \/ d.kind = "written" /\ d.to = table[r].file
    <3>1. PICK d \in changes : \/ Leaves(d, table[r].file)
                               \/ d.kind = "written" /\ d.to = table[r].file
      BY <2>2
    <3>2. CASE d = c
      BY <1>5, <1>10, <3>1, <3>2 DEF Leaves
    <3>3. CASE d # c
      BY <1>1, <3>1, <3>3
    <3> QED
      BY <3>2, <3>3
  <2> QED
    BY <1>5, <2>1, <2>2
<1>11. GhostPart'
  <2> SUFFICES ASSUME NEW r \in LiveRows'
               PROVE  \/ OfTree(r, head)'
                      \/ Awaited(table[r].file)'
                      \/ \E d \in changes' : \/ Leaves(d, table'[r].file)
                                             \/ d.kind = "written" /\ d.to = table'[r].file
    BY <1>1 DEF GhostPart, Leaves, Consuming
  <2>0. head' = head
    BY <1>1
  <2>1. ASSUME r \in LiveRows, table'[r].file = table[r].file, table'[r].hash = table[r].hash, Kept(r)
        PROVE  \/ OfTree(r, head)'
               \/ Awaited(table[r].file)'
               \/ \E d \in changes' : \/ Leaves(d, table'[r].file)
                                      \/ d.kind = "written" /\ d.to = table'[r].file
    BY <2>0, <2>1 DEF OfTree, Awaited
  <2>2. CASE ApplyWritten(c)
    <3>1. table' = table /\ LiveRows' = LiveRows /\ c.kind = "written"
      BY <2>2 DEF ApplyWritten, LiveRows
    <3>2. Kept(r)
      BY <1>10, <3>1
    <3> QED
      BY <2>1, <3>1, <3>2
  <2>3. CASE ~ApplyWritten(c) /\ rows = {}
    <3>1. table' = table /\ LiveRows' = LiveRows
      BY <2>3 DEF ApplyDeleted, ApplyRenamed, LiveRows
    <3>2. table[r].file # c.from
      BY <1>9, <2>3, <3>1
    <3>3. Kept(r)
      BY <1>10, <3>1, <3>2
    <3> QED
      BY <2>1, <3>1, <3>3
  <2>4. CASE ApplyDeleted(c) /\ rows # {}
    <3>1. table' = TombstoneRows(rows)
      BY <2>4 DEF ApplyDeleted
    <3>2. LiveRows' = LiveRows \ rows
          /\ \A q \in DOMAIN table : table'[q].hash = table[q].hash /\ table'[q].file = table[q].file
      BY <1>2, <1>9, <3>1, Tombstoned
    <3>3. r \in LiveRows /\ table[r].file # c.from
      BY <1>9, <3>2
    <3>4. Kept(r)
      BY <1>10, <3>3
    <3> QED
      BY <1>2, <2>1, <3>2, <3>3, <3>4
  <2>5. CASE ApplyRenamed(c) /\ rows # {}
    <3>1. table' = RekeyRows(rows, c.to) /\ c.kind = "renamed"
      BY <2>5 DEF ApplyRenamed
    <3>2. LiveRows' = LiveRows
          /\ \A q \in DOMAIN table : /\ table'[q].hash = table[q].hash
                                     /\ table'[q].file = IF q \in rows THEN c.to ELSE table[q].file
      <4> DEFINE g == c.to
      <4>1. g \in Files /\ table' = RekeyRows(rows, g)
        BY <1>3, <3>1
      <4> HIDE DEF rows, g
      <4>2. LiveRows' = LiveRows
            /\ \A q \in DOMAIN table : /\ table'[q].hash = table[q].hash
                                       /\ table'[q].file = IF q \in rows THEN g ELSE table[q].file
        BY <1>2, <1>9, <4>1, RekeyedRows
      <4> QED
        BY <4>2 DEF g
    <3>3. CASE r \in rows
      <4>1. table'[r].file = c.to
        BY <1>2, <1>9, <3>2, <3>3
      <4>2. \E i \in items' : i.rel = table'[r].file
        BY <1>5, <3>1, <4>1
      <4> QED
        BY <4>2 DEF Awaited
    <3>4. CASE r \notin rows
      <4>1. r \in LiveRows /\ table[r].file # c.from
        BY <1>9, <3>2, <3>4
      <4>2. Kept(r)
        BY <1>10, <4>1
      <4> QED
        BY <1>2, <2>1, <3>2, <3>4, <4>1, <4>2
    <3> QED
      BY <3>3, <3>4
  <2> QED
    BY <2>2, <2>3, <2>4, <2>5
<1> QED
  BY <1>5, <1>6, <1>7, <1>8, <1>11 DEF ContentInv

\* Paying the lexical index touches no row.
LEMMA ContentPaid ==
    ASSUME ContentInv, ChangesLex \/ ConsumeLex
    PROVE  ContentInv' /\ LiveRows' = LiveRows
<1>1. /\ pc \in {"changes_lex", "consume_lex"}
      /\ pc' = IF pc = "changes_lex" THEN "changes" ELSE "chunks"
      /\ UNCHANGED <<repoVars, table, indexed, changes, items, existing, known, file, todo, pending>>
  BY DEF ChangesLex, ConsumeLex
<1>2. LiveRows' = LiveRows
  BY <1>1 DEF LiveRows
<1>3. CalmPart' /\ ChangePart'
  BY <1>1 DEF ContentInv, CalmPart, ChangePart, Leaves
<1>4. GhostPart' /\ ReadPart'
  BY <1>1, <1>2 DEF ContentInv, GhostPart, ReadPart, OfTree, Awaited, Leaves, Consuming
<1> QED
  BY <1>2, <1>3, <1>4 DEF ContentInv

\* Once every change has been applied, only awaited files have rows that are not of HEAD.
LEMMA ContentChangesDone ==
    ASSUME ContentInv, ChangesDone
    PROVE  ContentInv' /\ LiveRows' = LiveRows
<1>1. pc = "changes" /\ pc' = "parse" /\ changes = {} /\ UNCHANGED <<repoVars, indexVars, runVars>>
  BY DEF ChangesDone
<1>2. LiveRows' = LiveRows
  BY <1>1 DEF LiveRows
<1>3. CalmPart' /\ ChangePart' /\ ReadPart'
  BY <1>1 DEF ContentInv, CalmPart, ChangePart, ReadPart, Consuming
<1>4. GhostPart'
  BY <1>1, <1>2 DEF ContentInv, GhostPart, OfTree, Awaited, Consuming
<1> QED
  BY <1>2, <1>3, <1>4 DEF ContentInv

\* What is read before parsing is every live row of the files to be parsed.
LEMMA ContentStartParse ==
    ASSUME RunInv, ContentInv, StartParse
    PROVE  ContentInv' /\ LiveRows' = LiveRows
<1>1. /\ pc = "parse" /\ pc' = "consume"
      /\ UNCHANGED <<repoVars, indexVars, changes, items, pending>>
      /\ existing' = { [file |-> table[r].file, hash |-> table[r].hash, row |-> r] :
                         r \in { x \in LiveRows : \E i \in items : i.rel = table[x].file } }
  BY DEF StartParse
<1>2. LiveRows' = LiveRows /\ pending = << >>
  BY <1>1 DEF LiveRows, RunInv, QueuePart, Consuming
<1>3. CalmPart' /\ ChangePart'
  BY <1>1 DEF ContentInv, CalmPart, ChangePart
<1>4. GhostPart'
  BY <1>1, <1>2 DEF ContentInv, GhostPart, OfTree, Awaited, Consuming
<1>5. ReadPart'
  <2>1. DOMAIN pending' = {}
    BY <1>1, <1>2
  <2>2. \A r \in LiveRows : Awaited(table[r].file) =>
          [file |-> table[r].file, hash |-> table[r].hash, row |-> r] \in existing'
    BY <1>1 DEF Awaited
  <2>3. \A r \in LiveRows' : Awaited(table[r].file)' =>
          [file |-> table'[r].file, hash |-> table'[r].hash, row |-> r] \in existing'
    BY <1>1, <1>2, <2>2 DEF Awaited
  <2> QED
    BY <1>1, <2>1, <2>3 DEF ReadPart
<1> QED
  BY <1>2, <1>3, <1>4, <1>5 DEF ContentInv

\* A file that has been taken from the work items is no longer awaited, the others are.
LEMMA TakenItem ==
    ASSUME ItemPart, NEW i \in items, items' = items \ {i}
    PROVE  \A f : Awaited(f)' <=> Awaited(f) /\ f # i.rel
BY DEF ItemPart, Awaited

\* A file is skipped when its rows are of HEAD already, or it cannot be parsed.
LEMMA ContentSkip ==
    ASSUME RunInv, ContentInv, NEW i \in items, SkipFile(i)
    PROVE  /\ ContentInv' /\ LiveRows' = LiveRows
           /\ pc = "consume" /\ pc' = pc /\ items' = items \ {i}
           /\ UNCHANGED <<repoVars, indexVars, existing, known, file, todo, pending>>
<1>1. /\ pc = "consume" /\ pc' = pc /\ items' = items \ {i}
      /\ UNCHANGED <<repoVars, indexVars, changes, existing, known, file, todo, pending>>
  BY DEF SkipFile
<1>2. LiveRows' = LiveRows
  BY <1>1 DEF LiveRows
<1>3. \A f : Awaited(f)' <=> Awaited(f) /\ f # i.rel
  BY <1>1, TakenItem DEF RunInv
<1>4. CalmPart' /\ ChangePart'
  BY <1>1 DEF ContentInv, CalmPart, ChangePart
<1>5. i.src = head[i.rel] /\ i.src # NoFile
  BY <1>1 DEF ContentInv, CalmPart
<1>6. ASSUME NEW r \in LiveRows, table[r].file = i.rel
      PROVE  OfTree(r, head)
  <2>1. CASE i.src = Opaque
    BY <1>5, <1>6, <2>1 DEF OfTree
  <2>2. CASE i.src # Opaque
    <3> DEFINE e == [file |-> table[r].file, hash |-> table[r].hash, row |-> r]
    <3>1. e \in existing
      BY <1>1, <1>6 DEF ContentInv, ReadPart, Awaited, Consuming
    <3>2. e.file = i.rel /\ e.hash = table[r].hash
      BY <1>6
    <3> HIDE DEF e
    <3>3. table[r].hash \in OldHashes(i.rel)
      BY <3>1, <3>2 DEF OldHashes, OldOf
    <3>4. table[r].hash \in head[i.rel]
      BY <1>5, <2>2, <3>3 DEF SkipFile
    <3> QED
      BY <1>5, <1>6, <2>2, <3>4, ChunkOf DEF OfTree
  <2> QED
    BY <2>1, <2>2
<1>7. \A r \in LiveRows : OfTree(r, head) \/ (Awaited(table[r].file) /\ table[r].file # i.rel)
  BY <1>1, <1>6 DEF ContentInv, GhostPart, Consuming
<1>8. \A r \in LiveRows' : OfTree(r, head)' \/ Awaited(table[r].file)'
  BY <1>1, <1>2, <1>3, <1>7 DEF OfTree
<1>9. GhostPart'
  BY <1>1, <1>8 DEF GhostPart
<1>10. ReadPart'
  BY <1>1, <1>2, <1>3 DEF ContentInv, ReadPart, Consuming
<1> QED
  BY <1>1, <1>2, <1>4, <1>9, <1>10 DEF ContentInv

\* The rows a consumed file keeps are the ones HEAD has, its chunks are those of HEAD.
LEMMA ContentConsume ==
    ASSUME RunInv, ContentInv, NEW i \in items, ConsumeFile(i)
    PROVE  /\ ContentInv' /\ pc = "consume" /\ pc' \in {"consume_lex", "chunks"} /\ items' = items \ {i}
           /\ i.src = Chunks(head[i.rel]) /\ file' = i.rel /\ todo' = i.src
           /\ UNCHANGED <<repoVars, indexed, changes, existing, known, pending>>
           /\ LiveRows' \subseteq LiveRows
           /\ \A r \in DOMAIN table : table'[r].hash = table[r].hash /\ table'[r].file = table[r].file
           /\ \A r \in LiveRows : table[r].hash \in Chunks(head[table[r].file]) => r \in LiveRows'
<1>1. /\ pc = "consume" /\ pc' \in {"consume_lex", "chunks"} /\ items' = items \ {i}
      /\ file' = i.rel /\ todo' = i.src /\ i.src # Opaque
      /\ UNCHANGED <<repoVars, indexed, changes, existing, known, pending>>
  BY DEF ConsumeFile
<1>2. i.src = head[i.rel] /\ i.src # NoFile
  BY <1>1 DEF ContentInv, CalmPart
<1>3. i.src = Chunks(head[i.rel])
  BY <1>1, <1>2 DEF Chunks
<1>4. \A f : Awaited(f)' <=> Awaited(f) /\ f # i.rel
  BY <1>1, TakenItem DEF RunInv
<1>5. TypeOK /\ LiveRows \subseteq DOMAIN table
  BY RowTypes
<1> DEFINE rows == { e.row : e \in { x \in OldOf(i.rel) : x.hash \notin i.src } }
<1>6. rows \subseteq LiveRows
  BY <1>1, VanishedRowsLive
<1>7. \A q \in rows : table[q].file = i.rel /\ table[q].hash \notin i.src
  BY <1>1 DEF RunInv, SnapshotPart, Consuming, OldOf
<1>8. LiveRows' = LiveRows \ rows
      /\ \A r \in DOMAIN table : table'[r].hash = table[r].hash /\ table'[r].file = table[r].file
  <2>1. CASE rows = {}
    <3>1. table' = table
      BY <2>1 DEF ConsumeFile
    <3> QED
      BY <2>1, <3>1 DEF LiveRows
  <2>2. CASE rows # {}
    <3>1. table' = TombstoneRows(rows)
      BY <2>2 DEF ConsumeFile
    <3> HIDE DEF rows
    <3> QED
      BY <1>5, <1>6, <3>1, Tombstoned
  <2> QED
    BY <2>1, <2>2
<1>9. ASSUME NEW r \in LiveRows, table[r].file = i.rel, r \notin rows
      PROVE  table[r].hash \in Chunks(head[i.rel])
  <2> DEFINE e == [file |-> table[r].file, hash |-> table[r].hash, row |-> r]
  <2>1. e \in existing
    BY <1>1, <1>9 DEF ContentInv, ReadPart, Awaited, Consuming
  <2>2. e.file = i.rel /\ e.hash = table[r].hash /\ e.row = r
    BY <1>9
  <2> HIDE DEF e
  <2>3. table[r].hash \in i.src
    BY <1>9, <2>1, <2>2 DEF OldOf
  <2> QED
    BY <1>3, <2>3
<1>10. \A r \in LiveRows : table[r].hash \in Chunks(head[table[r].file]) => r \in LiveRows'
  BY <1>3, <1>7, <1>8
<1> HIDE DEF rows
<1>11. CalmPart' /\ ChangePart'
  BY <1>1 DEF ContentInv, CalmPart, ChangePart
<1>12. \A r \in LiveRows' : OfTree(r, head) \/ Awaited(table[r].file)'
  <2> SUFFICES ASSUME NEW r \in LiveRows', ~OfTree(r, head)
               PROVE  Awaited(table[r].file)'
    OBVIOUS
  <2>1. r \in LiveRows /\ r \notin rows /\ table'[r].file = table[r].file
    BY <1>5, <1>8
  <2>2. table[r].file # i.rel
    BY <1>9, <2>1 DEF OfTree
  <2>3. Awaited(table[r].file)
    BY <1>1, <2>1 DEF ContentInv, GhostPart, Consuming
  <2> QED
    BY <1>4, <2>1, <2>2, <2>3
<1>13. \A r \in LiveRows' : OfTree(r, head)' \/ Awaited(table[r].file)'
  <2>1. \A r \in LiveRows' : OfTree(r, head) => OfTree(r, head)'
    BY <1>1, <1>5, <1>8 DEF OfTree
  <2> QED
    BY <1>12, <2>1
<1>14. GhostPart'
  BY <1>1, <1>13 DEF GhostPart
<1>15. ReadPart'
  <2>1. \A r \in LiveRows' : Awaited(table[r].file)' =>
          [file |-> table'[r].file, hash |-> table'[r].hash, row |-> r] \in existing'
    BY <1>1, <1>4, <1>5, <1>8 DEF ContentInv, ReadPart, Consuming
  <2>2. \A k \in DOMAIN pending' : /\ pending'[k].hash \in Chunks(head'[pending'[k].file])
                                   /\ ~Awaited(pending[k].file)'
    BY <1>1, <1>4 DEF ContentInv, ReadPart, Consuming
  <2>3. todo' \subseteq Chunks(head'[file']) /\ ~Awaited(file)'
    BY <1>1, <1>3, <1>4
  <2> QED
    BY <2>1, <2>2, <2>3 DEF ReadPart
<1> QED
  BY <1>1, <1>3, <1>8, <1>10, <1>11, <1>14, <1>15 DEF ContentInv

\* A chunk that is queued belongs to the file being consumed, which is not awaited.
LEMMA ContentChunk ==
    ASSUME RunInv, ContentInv, FileDone \/ \E h \in Hashes : ReuseChunk(h) \/ QueueChunk(h)
    PROVE  ContentInv' /\ LiveRows' = LiveRows
<1>1. /\ pc = "chunks" /\ pc' \in {"chunks", "consume"}
      /\ UNCHANGED <<repoVars, indexVars, changes, items, existing>>
  BY DEF FileDone, ReuseChunk, QueueChunk
<1>2. LiveRows' = LiveRows
  BY <1>1 DEF LiveRows
<1>3. CalmPart' /\ ChangePart'
  BY <1>1 DEF ContentInv, CalmPart, ChangePart
<1>4. GhostPart'
  BY <1>1, <1>2 DEF ContentInv, GhostPart, OfTree, Awaited, Consuming
<1>5. /\ \A r \in LiveRows' : Awaited(table[r].file)' =>
           [file |-> table'[r].file, hash |-> table'[r].hash, row |-> r] \in existing'
      /\ \A f : Awaited(f)' <=> Awaited(f)
  BY <1>1, <1>2 DEF ContentInv, ReadPart, Consuming, Awaited
<1>6. /\ \A k \in DOMAIN pending : /\ pending[k].hash \in Chunks(head[pending[k].file])
                                   /\ ~Awaited(pending[k].file)
      /\ todo \subseteq Chunks(head[file]) /\ ~Awaited(file)
  BY <1>1 DEF ContentInv, ReadPart, Consuming
<1>7. ReadPart'
  <2>1. CASE FileDone \/ \E h \in Hashes : ReuseChunk(h)
    <3>1. pending' = pending /\ (pc' = "chunks" => file' = file /\ todo' \subseteq todo)
      BY <2>1 DEF FileDone, ReuseChunk
    <3> QED
      BY <1>1, <1>5, <1>6, <3>1 DEF ReadPart
  <2>2. ASSUME NEW h \in Hashes, QueueChunk(h)
        PROVE  ReadPart'
    <3>1. /\ pending' = Append(pending, [hash |-> h, file |-> file])
          /\ h \in todo /\ todo' \subseteq todo /\ file' = file
      BY <2>2 DEF QueueChunk
    <3>2. pending \in Seq(Chunk)
      BY DEF RunInv, TypeOK, Chunk
    <3>3. \A k \in DOMAIN pending' : \/ k \in DOMAIN pending /\ pending'[k] = pending[k]
                                     \/ pending'[k].hash = h /\ pending'[k].file = file
      BY <3>1, <3>2
    <3>4. \A k \in DOMAIN pending' : /\ pending'[k].hash \in Chunks(head'[pending'[k].file])
                                     /\ ~Awaited(pending[k].file)'
      BY <1>1, <1>5, <1>6, <3>1, <3>3
    <3> QED
      BY <1>1, <1>5, <1>6, <3>1, <3>4 DEF ReadPart
  <2> QED
    BY <2>1, <2>2
<1> QED
  BY <1>2, <1>3, <1>4, <1>7 DEF ContentInv

\* A flushed batch adds rows of HEAD, for files that are not awaited.
LEMMA ContentFlush ==
    ASSUME RunInv, ContentInv, FlushStore
    PROVE  /\ ContentInv' /\ pc \in {"chunks", "consume"}
           /\ pc' = IF pc = "chunks" THEN "flush_lex" ELSE "last_flush_lex"
           /\ UNCHANGED <<repoVars, items, existing, known, file, todo, pending>>
           /\ \A r \in LiveRows : r \in LiveRows' /\ table'[r] = table[r]
           /\ \A k \in DOMAIN pending : \E r \in LiveRows' :
                table'[r].hash = pending[k].hash /\ table'[r].file = pending[k].file
<1>1. /\ pc \in {"chunks", "consume"} /\ pc' = IF pc = "chunks" THEN "flush_lex" ELSE "last_flush_lex"
      /\ UNCHANGED <<repoVars, indexed, changes, items, existing, known, file, todo, pending>>
      /\ table' = TableAfter(Batch) /\ pc \notin Flushing
  BY DEF FlushStore, FlushDue, Flushing
<1> DEFINE M == Len(table)
           N == Len(pending)
<1>2. /\ LiveRows' = LiveRows \cup ((M + 1) .. (M + N))
      /\ \A r \in DOMAIN table : table'[r] = table[r]
      /\ \A k \in DOMAIN pending :
           table'[M + k] = [hash |-> pending[k].hash, file |-> pending[k].file, live |-> TRUE]
  BY <1>1, Appended DEF RunInv
<1>3. /\ M \in Nat /\ N \in Nat /\ DOMAIN pending = 1 .. N /\ LiveRows \subseteq DOMAIN table
  BY LiveRowsFinite, BatchIsPending DEF RunInv
<1> HIDE DEF M, N
<1>4. \A k \in DOMAIN pending : /\ M + k \in LiveRows'
                                /\ table'[M + k].hash = pending[k].hash
                                /\ table'[M + k].file = pending[k].file
  <2> SUFFICES ASSUME NEW k \in DOMAIN pending
               PROVE  /\ M + k \in LiveRows'
                      /\ table'[M + k].hash = pending[k].hash
                      /\ table'[M + k].file = pending[k].file
    OBVIOUS
  <2>1. M + k \in (M + 1) .. (M + N)
    BY <1>3
  <2>2. table'[M + k] = [hash |-> pending[k].hash, file |-> pending[k].file, live |-> TRUE]
    BY <1>2
  <2> QED
    BY <1>2, <2>1, <2>2
<1>5. ASSUME NEW r \in LiveRows', r \notin LiveRows
      PROVE  \E k \in DOMAIN pending :
               table'[r].hash = pending[k].hash /\ table'[r].file = pending[k].file
  <2> DEFINE k == r - M
  <2>1. k \in 1 .. N /\ r = M + k
    BY <1>2, <1>3, <1>5
  <2> HIDE DEF k
  <2> QED
    BY <1>3, <1>4, <2>1
<1>6. \A r \in LiveRows : r \in LiveRows' /\ table'[r] = table[r]
  BY <1>2, <1>3
<1>7. \A f : Awaited(f)' <=> Awaited(f)
  BY <1>1 DEF Awaited
<1>8. /\ \A k \in DOMAIN pending : /\ pending[k].hash \in Chunks(head[pending[k].file])
                                   /\ ~Awaited(pending[k].file)
      /\ \A r \in LiveRows : Awaited(table[r].file) =>
           [file |-> table[r].file, hash |-> table[r].hash, row |-> r] \in existing
      /\ \A r \in LiveRows : OfTree(r, head) \/ Awaited(table[r].file)
      /\ pc = "chunks" => todo \subseteq Chunks(head[file]) /\ ~Awaited(file)
  BY <1>1 DEF ContentInv, ReadPart, GhostPart, Consuming
<1>9. CalmPart' /\ ChangePart'
  BY <1>1 DEF ContentInv, CalmPart, ChangePart
<1>10. \A r \in LiveRows' : OfTree(r, head)' \/ Awaited(table[r].file)'
  <2> SUFFICES ASSUME NEW r \in LiveRows'
               PROVE  OfTree(r, head)' \/ Awaited(table[r].file)'
    OBVIOUS
  <2>1. CASE r \in LiveRows
    BY <1>1, <1>6, <1>7, <1>8, <2>1 DEF OfTree
  <2>2. CASE r \notin LiveRows
    BY <1>1, <1>5, <1>8, <2>2 DEF OfTree
  <2> QED
    BY <2>1, <2>2
<1>11. GhostPart'
  BY <1>1, <1>10 DEF GhostPart
<1>12. \A r \in LiveRows' : Awaited(table[r].file)' =>
          [file |-> table'[r].file, hash |-> table'[r].hash, row |-> r] \in existing'
  BY <1>1, <1>5, <1>6, <1>7, <1>8
<1>13. ReadPart'
  BY <1>1, <1>7, <1>8, <1>12 DEF ReadPart
<1> QED
  BY <1>1, <1>4, <1>6, <1>9, <1>11, <1>13 DEF ContentInv

\* Committing a batch's documents touches no row.
LEMMA ContentFlushLex ==
    ASSUME ContentInv, FlushLex
    PROVE  /\ ContentInv' /\ LiveRows' = LiveRows /\ pending' = << >>
           /\ pc \in Flushing /\ pc' = IF pc = "flush_lex" THEN "chunks" ELSE "consume"
           /\ UNCHANGED <<repoVars, table, items, existing, known, file, todo>>
<1>1. /\ pc \in Flushing /\ pc' = IF pc = "flush_lex" THEN "chunks" ELSE "consume"
      /\ UNCHANGED <<repoVars, table, indexed, changes, items, existing, known, file, todo>>
      /\ pending' = << >>
  BY DEF FlushLex, Flushing
<1>2. LiveRows' = LiveRows
  BY <1>1 DEF LiveRows
<1>3. CalmPart' /\ ChangePart'
  BY <1>1 DEF ContentInv, CalmPart, ChangePart, Flushing
<1>4. DOMAIN pending' = {}
  BY <1>1
<1>5. GhostPart' /\ ReadPart'
  BY <1>1, <1>2, <1>4 DEF ContentInv, GhostPart, ReadPart, OfTree, Awaited, Consuming, Flushing
<1> QED
  BY <1>1, <1>2, <1>3, <1>5 DEF ContentInv

\* When the commit is recorded no file is awaited, so every row is of HEAD.
LEMMA ContentRecord ==
    ASSUME RunInv, ContentInv, RecordCommit
    PROVE  ContentInv' /\ LiveRows' = LiveRows
<1>1. /\ pc = "consume" /\ pc' = "compact" /\ items = {} /\ indexed'.tree = head
      /\ indexed' \in [tree : Trees, dirty : BOOLEAN]
      /\ UNCHANGED <<repoVars, table, runVars>>
  <2>1. dirty \in BOOLEAN /\ head \in Trees
    BY DEF RunInv, TypeOK
  <2> QED
    BY <2>1 DEF RecordCommit
<1>2. LiveRows' = LiveRows
  BY <1>1 DEF LiveRows
<1>3. \A r \in LiveRows : OfTree(r, head)
  BY <1>1 DEF ContentInv, GhostPart, Awaited, Consuming
<1>4. indexed' # NoCommit
  BY <1>1
<1>5. CalmPart' /\ ChangePart' /\ ReadPart'
  BY <1>1 DEF ContentInv, CalmPart, ChangePart, ReadPart, Consuming
<1>6. GhostPart'
  BY <1>1, <1>2, <1>3, <1>4 DEF GhostPart, OfTree, Consuming
<1> QED
  BY <1>2, <1>5, <1>6 DEF ContentInv

\* compact moves the live records and changes none.
LEMMA ContentCompact ==
    ASSUME RunInv, ContentInv, Compact
    PROVE  ContentInv' /\ LiveHashes' = LiveHashes
<1>1. /\ pc = "compact" /\ pc' = "renumber" /\ UNCHANGED <<repoVars, indexed, changes, items>>
      /\ table' = [k \in DOMAIN LiveRowsInOrder |-> table[LiveRowsInOrder[k]]]
  BY DEF Compact
<1>2. /\ DOMAIN table' = 1 .. Cardinality(LiveRows)
      /\ LiveRowsInOrder \in [1 .. Cardinality(LiveRows) -> LiveRows]
      /\ \A k \in DOMAIN table' : table'[k] = table[LiveRowsInOrder[k]]
      /\ \A r \in LiveRows : \E k \in DOMAIN table' : LiveRowsInOrder[k] = r
      /\ LiveRows' = DOMAIN table'
  BY <1>1, Compacted DEF RunInv
<1>3. \A k \in LiveRows' : \E r \in LiveRows : table'[k] = table[r]
  BY <1>2
<1>4. \A r \in LiveRows : \E k \in LiveRows' : table'[k] = table[r]
  BY <1>2
<1>5. LiveHashes' = LiveHashes
  BY <1>3, <1>4 DEF LiveHashes
<1>6. CalmPart' /\ ChangePart' /\ ReadPart'
  BY <1>1 DEF ContentInv, CalmPart, ChangePart, ReadPart, Consuming
<1>7. \A k \in LiveRows' : OfTree(k, head)'
  BY <1>1, <1>3 DEF ContentInv, GhostPart, OfTree
<1>8. GhostPart'
  BY <1>1, <1>7 DEF ContentInv, GhostPart, Consuming
<1> QED
  BY <1>5, <1>6, <1>8 DEF ContentInv

\* The other steps of the end of a run touch no row.
LEMMA ContentEnd ==
    ASSUME ContentInv, NoCompact \/ Renumber \/ Finish
    PROVE  ContentInv' /\ LiveRows' = LiveRows
<1>1. /\ pc \in {"compact", "renumber", "finish"}
      /\ pc' = IF pc = "finish" THEN "idle" ELSE "finish"
      /\ UNCHANGED <<repoVars, table, indexed>>
      /\ pc # "finish" => UNCHANGED <<changes, items>>
  BY DEF NoCompact, Renumber, Finish
<1>2. LiveRows' = LiveRows
  BY <1>1 DEF LiveRows
<1>3. CalmPart' /\ ChangePart' /\ ReadPart'
  BY <1>1 DEF ContentInv, CalmPart, ChangePart, ReadPart, Consuming
<1>4. GhostPart'
  BY <1>1, <1>2 DEF ContentInv, GhostPart, OfTree, Consuming
<1> QED
  BY <1>2, <1>3, <1>4 DEF ContentInv

\* Every step of an undisturbed specification keeps ContentInv.
LEMMA ContentStep ==
    ASSUME Undisturbed, RunInv, ContentInv, [Next]_vars
    PROVE  ContentInv'
<1>1. CASE UNCHANGED vars
  <2>1. LiveRows' = LiveRows
    BY <1>1 DEF LiveRows
  <2>2. CalmPart' /\ ChangePart'
    BY <1>1 DEF ContentInv, CalmPart, ChangePart, Leaves
  <2>3. GhostPart' /\ ReadPart'
    BY <1>1, <2>1 DEF ContentInv, GhostPart, ReadPart, OfTree, Awaited, Leaves, Consuming
  <2> QED
    BY <2>2, <2>3 DEF ContentInv
<1>2. CASE \E t \in Trees : CommitTree(t) \/ EditWorktree(t)
  BY <1>2, ContentRepo
<1>3. CASE IndexAll
  BY <1>3, ContentIndexAll
<1>4. CASE Update
  BY <1>4, ContentUpdate
<1>5. CASE \E c \in changes : ApplyWritten(c) \/ ApplyDeleted(c) \/ ApplyRenamed(c)
  BY <1>5, ContentChanges
<1>6. CASE ChangesLex \/ ConsumeLex
  BY <1>6, ContentPaid
<1>7. CASE ChangesDone
  BY <1>7, ContentChangesDone
<1>8. CASE StartParse
  BY <1>8, ContentStartParse
<1>9. CASE \E i \in items : SkipFile(i)
  BY <1>9, ContentSkip
<1>10. CASE \E i \in items : ConsumeFile(i)
  BY <1>10, ContentConsume
<1>11. CASE FileDone \/ \E h \in Hashes : ReuseChunk(h) \/ QueueChunk(h)
  BY <1>11, ContentChunk
<1>12. CASE FlushStore
  BY <1>12, ContentFlush
<1>13. CASE FlushLex
  BY <1>13, ContentFlushLex
<1>14. CASE RecordCommit
  BY <1>14, ContentRecord
<1>15. CASE Compact
  BY <1>15, ContentCompact
<1>16. CASE NoCompact \/ Renumber \/ Finish
  BY <1>16, ContentEnd
<1>17. CASE Kill
  BY <1>17 DEF Kill, Undisturbed
<1> QED
  BY <1>1, <1>2, <1>3, <1>4, <1>5, <1>6, <1>7, <1>8, <1>9, <1>10, <1>11, <1>12, <1>13, <1>14,
     <1>15, <1>16, <1>17 DEF Next

\* Initially there are no rows and no run.
LEMMA ContentInit == Init => ContentInv
BY DEF Init, ContentInv, CalmPart, ChangePart, GhostPart, ReadPart, Consuming

\* Whatever the trees, the order files are parsed in and the batch size: a run that is
\* left alone records HEAD with no row for code that HEAD does not have (rows of files
\* HEAD has but that could not be parsed are kept), which is what apply_file_changes and
\* the tombstones of process_work_items are for.
THEOREM NoGhosts ==
    ASSUME Undisturbed
    PROVE  Spec => []NoGhostRows
<1>1. Init => RunInv /\ ContentInv
  BY RunInit, ContentInit
<1>2. RunInv /\ ContentInv /\ [Next]_vars => (RunInv /\ ContentInv)'
  BY RunStep, ContentStep
<1>3. RunInv /\ ContentInv => NoGhostRows
  BY DEF ContentInv, GhostPart, NoGhostRows, ClaimsHead, OfTree
<1> QED
  BY <1>1, <1>2, <1>3, PTL DEF Spec

-----------------------------------------------------------------------------
(***************************************************************************)
(* Completeness, when code does not move.                                  *)
(***************************************************************************)

\* A live hash is the hash of a live row.
LEMMA LiveHash == \A h : h \in LiveHashes <=> \E r \in LiveRows : table[r].hash = h
BY DEF LiveHashes

\* Changes of the repository between runs, and the end of a run.
LEMMA CompleteOutside ==
    ASSUME Undisturbed, RunInv, ContentInv, CompletePart,
           \/ \E t \in Trees : CommitTree(t) \/ EditWorktree(t)
           \/ Compact \/ NoCompact \/ Renumber \/ Finish
    PROVE  CompletePart'
<1>1. CASE \E t \in Trees : CommitTree(t) \/ EditWorktree(t)
  <2>1. pc = "idle" /\ UNCHANGED <<indexVars, pc, runVars>>
    BY <1>1, ContentRepo
  <2>2. LiveHashes' = LiveHashes
    BY <2>1 DEF LiveHashes, LiveRows
  <2> QED
    BY <2>1, <2>2 DEF CompletePart, TreeHashes, Consuming
<1>2. CASE Compact \/ NoCompact \/ Renumber \/ Finish
  <2>1. /\ pc \in {"compact", "renumber", "finish"} /\ pc' \in {"renumber", "finish", "idle"}
        /\ UNCHANGED <<repoVars, indexed>>
    BY <1>2 DEF Compact, NoCompact, Renumber, Finish
  <2>2. LiveHashes' = LiveHashes
    <3>1. CASE Compact
      BY <3>1, ContentCompact
    <3>2. CASE NoCompact \/ Renumber \/ Finish
      BY <3>2 DEF NoCompact, Renumber, Finish, LiveHashes, LiveRows
    <3> QED
      BY <1>2, <3>1, <3>2
  <2>3. indexed.tree = head
    BY <2>1 DEF ContentInv, GhostPart
  <2> QED
    BY <2>1, <2>2, <2>3 DEF CompletePart, TreeHashes, Consuming
<1> QED
  BY <1>1, <1>2

\* index_all parses every file that has chunks.
LEMMA CompleteIndexAll ==
    ASSUME Undisturbed, RunInv, ContentInv, IndexAll
    PROVE  CompletePart'
<1>1. /\ pc' = "parse" /\ items' = ItemsFor(Present) /\ UNCHANGED <<repoVars, indexVars>>
  BY DEF IndexAll
<1>2. LiveRows' = {}
  BY ContentIndexAll
<1>3. LiveHashes' = {}
  BY <1>2 DEF LiveHashes
<1>4. ASSUME NEW g \in Files, NEW h \in Chunks(head[g])
      PROVE  Awaited(g)'
  <2>1. head[g] # NoFile
    BY <1>4 DEF Chunks
  <2>2. Source(g) = head[g] /\ work = head
    BY SourceIsHead DEF ContentInv, CalmPart
  <2>3. [rel |-> g, src |-> Source(g)] \in items'
    BY <1>1, <2>1, <2>2 DEF ItemsFor, Present
  <2> QED
    BY <2>3 DEF Awaited
<1> QED
  BY <1>1, <1>3, <1>4 DEF CompletePart, Consuming

\* A chunk of HEAD that is live under another file is there because that file is gone
\* and its rows are about to follow; one that is not live is in a changed file.
LEMMA CompleteUpdate ==
    ASSUME Undisturbed, CodeStays, RunInv, ContentInv, CompletePart, Update
    PROVE  CompletePart'
<1>0. PICK R \in Renames(indexed.tree, head) : changes' = Diff(indexed.tree, head, R)
  BY DEF Update
<1> DEFINE old == indexed.tree
<1>1. /\ pc = "idle" /\ pc' = "changes" /\ indexed # NoCommit
      /\ UNCHANGED <<repoVars, indexVars>>
  BY DEF Update, MayStart
<1>2. LiveRows' = LiveRows /\ LiveHashes' = LiveHashes
  BY <1>1 DEF LiveRows, LiveHashes
<1>3. old \in Trees /\ head \in Trees /\ \A r \in LiveRows : table[r].file \in Files
  BY <1>1, RowTypes DEF RunInv, TypeOK
<1>4. /\ \A p \in R : /\ head[p[1]] = NoFile /\ old[p[2]] = NoFile /\ head[p[2]] # NoFile
                      /\ p[1] \in Files /\ p[2] \in Files
                      /\ \/ old[p[1]] = head[p[2]]
                         \/ Chunks(old[p[1]]) \cap Chunks(head[p[2]]) # {}
      /\ \A p \in R : [kind |-> "renamed", from |-> p[1], to |-> p[2]] \in changes'
      /\ \A f \in Files : old[f] # NoFile /\ head[f] = NoFile /\ (\A p \in R : p[1] # f) =>
           [kind |-> "deleted", from |-> f, to |-> f] \in changes'
      /\ \A f \in Files : head[f] # NoFile /\ head[f] # old[f] /\ (\A p \in R : p[2] # f) =>
           [kind |-> "written", from |-> f, to |-> f] \in changes'
  BY <1>0, DiffMembers
<1>5. \A r \in LiveRows : table[r].hash \in Chunks(old[table[r].file])
  BY <1>1, <1>3 DEF ContentInv, GhostPart, OfTree, CodeStays
<1>6. \A f \in Files : \A h \in Chunks(old[f]) : h \in LiveHashes
  BY <1>1 DEF CompletePart, TreeHashes
<1> HIDE DEF old
<1>7. ASSUME NEW g \in Files, head[g] # NoFile, head[g] # old[g]
      PROVE  Due(g)'
  <2>1. CASE \A p \in R : p[2] # g
    <3>1. [kind |-> "written", from |-> g, to |-> g] \in changes'
      BY <1>4, <1>7, <2>1
    <3>2. Arrives([kind |-> "written", from |-> g, to |-> g], g)
      BY DEF Arrives
    <3> QED
      BY <3>1, <3>2 DEF Due, Arrives
  <2>2. ASSUME NEW p \in R, p[2] = g
        PROVE  Due(g)'
    <3>1. [kind |-> "renamed", from |-> p[1], to |-> g] \in changes'
      BY <1>4, <2>2
    <3>2. Arrives([kind |-> "renamed", from |-> p[1], to |-> g], g)
      BY DEF Arrives
    <3> QED
      BY <3>1, <3>2 DEF Due, Arrives
  <2> QED
    BY <2>1, <2>2
<1>8. ASSUME NEW g \in Files, NEW h \in Chunks(head[g])
      PROVE  Held(h, g)' \/ ((h \notin LiveHashes' \/ Leaving(h, g)') /\ Due(g)')
  <2>1. head[g] # NoFile
    BY <1>8 DEF Chunks
  <2>2. CASE h \notin LiveHashes
    <3>1. head[g] # old[g]
      BY <1>6, <1>8, <2>2
    <3> QED
      BY <1>2, <1>7, <2>1, <2>2, <3>1
  <2>3. ASSUME NEW r \in LiveRows, table[r].hash = h
        PROVE  Held(h, g)' \/ (Leaving(h, g)' /\ Due(g)')
    <3> DEFINE f == table[r].file
    <3>1. CASE f = g
      BY <1>1, <1>2, <2>3, <3>1 DEF Held
    <3>2. CASE f # g
      <4>1. f \in Files /\ h \in Chunks(old[f])
        BY <1>3, <1>5, <2>3
      <4> HIDE DEF f
      <4>2. h \in Chunks(old[f]) \cap Chunks(head[g])
        BY <1>8, <4>1
      <4>3. /\ head[f] = NoFile /\ old[g] = NoFile
            /\ \A k \in Files : Chunks(old[f]) \cap Chunks(head[k]) # {} => k = g
        BY <1>3, <3>2, <4>1, <4>2 DEF CodeStays
      <4>4. Due(g)'
        BY <1>7, <2>1, <4>3
      <4>5. old[f] # NoFile
        BY <4>1 DEF Chunks
      <4>6. \E c \in changes' : Leaves(c, f) /\ (c.kind = "renamed" => c.to = g)
        <5>1. CASE \A p \in R : p[1] # f
          <6>1. [kind |-> "deleted", from |-> f, to |-> f] \in changes'
            BY <1>4, <4>1, <4>3, <4>5, <5>1
          <6> QED
            BY <6>1 DEF Leaves
        <5>2. ASSUME NEW p \in R, p[1] = f
              PROVE  \E c \in changes' : Leaves(c, f) /\ (c.kind = "renamed" => c.to = g)
          <6>1. [kind |-> "renamed", from |-> f, to |-> p[2]] \in changes' /\ p[2] \in Files
            BY <1>4, <5>2
          <6>2. Chunks(old[f]) \cap Chunks(head[p[2]]) # {}
            <7>1. old[f] = head[p[2]] \/ Chunks(old[f]) \cap Chunks(head[p[2]]) # {}
              BY <1>4, <5>2
            <7> QED
              BY <4>1, <7>1
          <6>3. p[2] = g
            BY <4>3, <6>1, <6>2
          <6> QED
            BY <6>1, <6>3 DEF Leaves
        <5> QED
          BY <5>1, <5>2
      <4>7. r \in LiveRows' /\ table'[r].hash = h /\ table'[r].file = f
        BY <1>1, <1>2, <2>3 DEF f
      <4>8. Leaving(h, g)'
        BY <4>6, <4>7 DEF Leaving, Leaves
      <4> QED
        BY <4>4, <4>8
    <3> QED
      BY <3>1, <3>2
  <2> QED
    BY <2>2, <2>3, LiveHash
<1> QED
  BY <1>1, <1>8 DEF CompletePart, Consuming

\* Applying a change frees the hashes of a deleted file, moves those of a renamed one to
\* the file that has them in HEAD, and keeps every file due that was due.
LEMMA CompleteChanges ==
    ASSUME RunInv, ContentInv, CompletePart, NEW c \in changes,
           ApplyWritten(c) \/ ApplyDeleted(c) \/ ApplyRenamed(c)
    PROVE  CompletePart'
<1>1. /\ pc = "changes" /\ pc' \in {"changes", "changes_lex"} /\ changes' = changes \ {c}
      /\ UNCHANGED repoVars
  BY DEF ApplyWritten, ApplyDeleted, ApplyRenamed
<1>2. TypeOK /\ LiveRows \subseteq DOMAIN table /\ \A r \in LiveRows : table[r].file \in Files
  BY RowTypes
<1>3. c.from \in Files /\ c.to \in Files /\ c.kind \in {"written", "deleted", "renamed"}
  BY <1>2 DEF TypeOK
<1>4. \A g : Due(g) => Due(g)'
  BY <1>1, <1>3, ContentChanges DEF Due, Awaited, Arrives
<1>5. c.kind \in {"deleted", "renamed"} => head[c.from] = NoFile
  BY <1>1 DEF ContentInv, ChangePart
<1>6. \A d \in changes : \A f \in Files : Leaves(c, f) /\ Leaves(d, f) => d = c
  BY <1>1 DEF ContentInv, ChangePart
<1>7. \A g \in Files : \A h \in Chunks(head[g]) :
        Held(h, g) \/ ((h \notin LiveHashes \/ Leaving(h, g)) /\ Due(g))
  BY <1>1 DEF CompletePart
<1> DEFINE rows == RowsForFile(c.from)
<1>8. rows \subseteq LiveRows /\ \A r \in LiveRows : r \in rows <=> table[r].file = c.from
  BY DEF RowsForFile
<1> HIDE DEF rows
<1> SUFFICES ASSUME NEW g \in Files, NEW h \in Chunks(head[g])
             PROVE  Held(h, g)' \/ ((h \notin LiveHashes' \/ Leaving(h, g)') /\ Due(g)')
  BY <1>1 DEF CompletePart, Consuming
<1>9. head[g] # NoFile
  BY DEF Chunks
<1>10. CASE ApplyWritten(c)
  <2>1. c.kind = "written" /\ table' = table
    BY <1>10 DEF ApplyWritten
  <2>2. LiveRows' = LiveRows /\ LiveHashes' = LiveHashes
    BY <2>1 DEF LiveRows, LiveHashes
  <2>3. Held(h, g) => Held(h, g)'
    BY <2>1, <2>2 DEF Held
  <2>4. Leaving(h, g) => Leaving(h, g)'
    BY <1>1, <2>1, <2>2 DEF Leaving, Leaves
  <2> QED
    BY <1>4, <1>7, <2>2, <2>3, <2>4
<1>11. CASE ApplyDeleted(c)
  <2>1. /\ LiveRows' = LiveRows \ rows
        /\ \A r \in DOMAIN table : table'[r].hash = table[r].hash /\ table'[r].file = table[r].file
    <3>1. CASE rows = {}
      <4>1. table' = table
        BY <1>11, <3>1 DEF ApplyDeleted, rows
      <4> QED
        BY <3>1, <4>1 DEF LiveRows
    <3>2. CASE rows # {}
      <4>1. table' = TombstoneRows(rows)
        BY <1>11, <3>2 DEF ApplyDeleted, rows
      <4> QED
        BY <1>2, <1>8, <4>1, Tombstoned
    <3> QED
      BY <3>1, <3>2
  <2>2. c.kind = "deleted" /\ g # c.from
    BY <1>5, <1>9, <1>11 DEF ApplyDeleted
  <2>3. Held(h, g) => Held(h, g)'
    BY <1>2, <1>8, <2>1, <2>2 DEF Held
  <2>4. h \notin LiveHashes => h \notin LiveHashes'
    BY <1>2, <2>1 DEF LiveHashes
  <2>5. Leaving(h, g) => Leaving(h, g)' \/ h \notin LiveHashes'
    <3> SUFFICES ASSUME NEW r \in LiveRows, NEW d \in changes,
                        table[r].hash = h, Leaves(d, table[r].file), d.kind = "renamed" => d.to = g
                 PROVE  Leaving(h, g)' \/ h \notin LiveHashes'
      BY DEF Leaving
    <3>1. CASE d = c
      <4>1. r \in rows
        BY <1>8, <3>1 DEF Leaves
      <4>2. \A q \in LiveRows' : table'[q].hash # h
        BY <1>2, <2>1, <4>1 DEF RunInv, HashPart
      <4> QED
        BY <4>2 DEF LiveHashes
    <3>2. CASE d # c
      <4>1. table[r].file # c.from
        BY <1>2, <1>3, <1>6, <2>2, <3>2 DEF Leaves
      <4>2. r \in LiveRows' /\ table'[r].hash = h /\ table'[r].file = table[r].file
        BY <1>2, <1>8, <2>1, <4>1
      <4>3. d \in changes'
        BY <1>1, <3>2
      <4> QED
        BY <4>2, <4>3 DEF Leaving, Leaves
    <3> QED
      BY <3>1, <3>2
  <2> QED
    BY <1>4, <1>7, <2>3, <2>4, <2>5
<1>12. CASE ApplyRenamed(c)
  <2>1. /\ LiveRows' = LiveRows /\ LiveHashes' = LiveHashes
        /\ \A r \in DOMAIN table : /\ table'[r].hash = table[r].hash
                                   /\ table'[r].file = IF r \in rows THEN c.to ELSE table[r].file
    <3>1. CASE rows = {}
      <4>1. table' = table
        BY <1>12, <3>1 DEF ApplyRenamed, rows
      <4> QED
        BY <3>1, <4>1 DEF LiveRows, LiveHashes
    <3>2. CASE rows # {}
      <4> DEFINE to == c.to
      <4>1. to \in Files /\ table' = RekeyRows(rows, to)
        BY <1>3, <1>12, <3>2 DEF ApplyRenamed, rows
      <4> HIDE DEF to
      <4>2. /\ LiveRows' = LiveRows /\ LiveHashes' = LiveHashes
            /\ \A r \in DOMAIN table : /\ table'[r].hash = table[r].hash
                                       /\ table'[r].file = IF r \in rows THEN to ELSE table[r].file
        BY <1>2, <1>8, <4>1, RekeyedRows
      <4> QED
        BY <4>2 DEF to
    <3> QED
      BY <3>1, <3>2
  <2>2. c.kind = "renamed" /\ g # c.from
    BY <1>5, <1>9, <1>12 DEF ApplyRenamed
  <2>3. Held(h, g) => Held(h, g)'
    BY <1>2, <1>8, <2>1, <2>2 DEF Held
  <2>4. Leaving(h, g) => Leaving(h, g)' \/ Held(h, g)'
    <3> SUFFICES ASSUME NEW r \in LiveRows, NEW d \in changes,
                        table[r].hash = h, Leaves(d, table[r].file), d.kind = "renamed" => d.to = g
                 PROVE  Leaving(h, g)' \/ Held(h, g)'
      BY DEF Leaving
    <3>1. CASE d = c
      <4>1. r \in rows /\ c.to = g
        BY <1>8, <2>2, <3>1 DEF Leaves
      <4>2. r \in LiveRows' /\ table'[r].hash = h /\ table'[r].file = g
        BY <1>2, <2>1, <4>1
      <4> QED
        BY <4>2 DEF Held
    <3>2. CASE d # c
      <4>1. table[r].file # c.from
        BY <1>2, <1>3, <1>6, <2>2, <3>2 DEF Leaves
      <4>2. r \in LiveRows' /\ table'[r].hash = h /\ table'[r].file = table[r].file
        BY <1>2, <1>8, <2>1, <4>1
      <4>3. d \in changes'
        BY <1>1, <3>2
      <4> QED
        BY <4>2, <4>3 DEF Leaving, Leaves
    <3> QED
      BY <3>1, <3>2
  <2> QED
    BY <1>4, <1>7, <2>1, <2>3, <2>4
<1> QED
  BY <1>10, <1>11, <1>12

\* Paying the lexical index, and the end of the changes.
LEMMA CompletePaid ==
    ASSUME CompletePart, ChangesLex \/ ConsumeLex \/ ChangesDone
    PROVE  CompletePart'
<1>1. /\ pc \in {"changes_lex", "consume_lex", "changes"}
      /\ pc' = IF pc = "changes_lex" THEN "changes" ELSE IF pc = "changes" THEN "parse" ELSE "chunks"
      /\ UNCHANGED <<repoVars, table, indexed, changes, items, existing, known, file, todo, pending>>
      /\ pc = "changes" => changes = {}
  BY DEF ChangesLex, ConsumeLex, ChangesDone
<1>2. LiveRows' = LiveRows /\ LiveHashes' = LiveHashes
  BY <1>1 DEF LiveRows, LiveHashes
<1>3. \A h, g : /\ Held(h, g)' <=> Held(h, g)
                /\ Leaving(h, g)' <=> Leaving(h, g)
                /\ Due(g)' <=> Due(g)
                /\ Awaited(g)' <=> Awaited(g)
  BY <1>1, <1>2 DEF Held, Leaving, Due, Awaited, Leaves, Arrives
<1>4. CASE pc = "changes_lex"
  BY <1>1, <1>2, <1>3, <1>4 DEF CompletePart, Consuming
<1>5. CASE pc = "changes"
  <2>1. \A h, g : ~Leaving(h, g) /\ (Due(g) <=> Awaited(g))
    BY <1>1, <1>5 DEF Leaving, Due
  <2> QED
    BY <1>1, <1>2, <1>3, <1>5, <2>1 DEF CompletePart, Consuming
<1>6. CASE pc = "consume_lex"
  <2>1. \A h, g : InHand(h, g) => InHand(h, g)'
    BY <1>1, <1>3, <1>6 DEF InHand, Flushing
  <2> QED
    BY <1>1, <1>2, <1>3, <1>6, <2>1 DEF CompletePart, Consuming
<1> QED
  BY <1>1, <1>4, <1>5, <1>6

\* known_hashes has every hash that was read of a file, and none that is missing.
LEMMA CompleteStartParse ==
    ASSUME RunInv, CompletePart, StartParse
    PROVE  CompletePart'
<1>1. /\ pc = "parse" /\ pc' = "consume" /\ UNCHANGED <<repoVars, indexVars, items>>
      /\ existing' = { [file |-> table[r].file, hash |-> table[r].hash, row |-> r] :
                         r \in { x \in LiveRows : \E i \in items : i.rel = table[x].file } }
      /\ known' = IF items = {} THEN {} ELSE LiveHashes
  BY DEF StartParse
<1>2. LiveRows' = LiveRows
  BY <1>1 DEF LiveRows
<1>3. \A e \in existing' : e.hash \in known'
  <2> SUFFICES ASSUME NEW r \in LiveRows, \E i \in items : i.rel = table[r].file
               PROVE  table[r].hash \in known'
    BY <1>1
  <2> QED
    BY <1>1 DEF LiveHashes
<1>4. known' \subseteq LiveHashes
  BY <1>1
<1>5. \A h, g : (Held(h, g) => Held(h, g)') /\ (Awaited(g) => Awaited(g)')
  BY <1>1, <1>2 DEF Held, Awaited
<1>6. \A g \in Files : \A h \in Chunks(head'[g]) : Held(h, g)' \/ InHand(h, g)'
  BY <1>1, <1>4, <1>5 DEF CompletePart, InHand
<1> QED
  BY <1>1, <1>3, <1>6 DEF CompletePart

\* A file is skipped only when everything it has in HEAD is held.
LEMMA CompleteSkip ==
    ASSUME CodeStays, RunInv, ContentInv, CompletePart, NEW i \in items, SkipFile(i)
    PROVE  CompletePart'
<1>1. /\ pc = "consume" /\ pc' = pc /\ items' = items \ {i} /\ LiveRows' = LiveRows
      /\ UNCHANGED <<repoVars, indexVars, existing, known, file, todo, pending>>
  BY ContentSkip
<1>2. \A f : Awaited(f)' <=> Awaited(f) /\ f # i.rel
  BY <1>1, TakenItem DEF RunInv
<1>3. i.src = head[i.rel] /\ \A e \in existing : e.hash \in known
  BY <1>1 DEF ContentInv, CalmPart, CompletePart, Consuming
<1>4. \A h \in Chunks(head[i.rel]) : h \in known
  BY <1>3 DEF SkipFile, Chunks, OldHashes, OldOf
<1>5. \A h, g : Held(h, g) => Held(h, g)'
  BY <1>1 DEF Held
<1>6. \A g \in Files : \A h \in Chunks(head[g]) : InHand(h, g) => InHand(h, g)'
  BY <1>1, <1>2, <1>4 DEF InHand
<1> QED
  BY <1>1, <1>3, <1>5, <1>6 DEF CompletePart, Consuming

\* A file that is consumed keeps what HEAD has of it and has its chunks looked at.
LEMMA CompleteConsume ==
    ASSUME RunInv, ContentInv, CompletePart, NEW i \in items, ConsumeFile(i)
    PROVE  CompletePart'
<1>1. /\ pc = "consume" /\ pc' \in {"consume_lex", "chunks"} /\ items' = items \ {i}
      /\ i.src = Chunks(head[i.rel]) /\ file' = i.rel /\ todo' = i.src
      /\ UNCHANGED <<repoVars, existing, known, pending>>
      /\ \A r \in DOMAIN table : table'[r].hash = table[r].hash /\ table'[r].file = table[r].file
      /\ \A r \in LiveRows : table[r].hash \in Chunks(head[table[r].file]) => r \in LiveRows'
  BY ContentConsume
<1>2. \A f : Awaited(f)' <=> Awaited(f) /\ f # i.rel
  BY <1>1, TakenItem DEF RunInv
<1>3. LiveRows \subseteq DOMAIN table
  BY RowTypes
<1>4. \A g \in Files : \A h \in Chunks(head[g]) : Held(h, g) => Held(h, g)'
  BY <1>1, <1>3 DEF Held
<1>5. \A g \in Files : \A h \in Chunks(head[g]) : InHand(h, g) => InHand(h, g)'
  BY <1>1, <1>2 DEF InHand, Flushing
<1> QED
  BY <1>1, <1>4, <1>5 DEF CompletePart, Consuming

\* A chunk is passed over only when its hash is known, which no missing chunk's is; one
\* that is queued is missing under its own file only.
LEMMA CompleteChunk ==
    ASSUME CodeStays, RunInv, ContentInv, CompletePart,
           FileDone \/ \E h \in Hashes : ReuseChunk(h) \/ QueueChunk(h)
    PROVE  CompletePart'
<1>1. /\ pc = "chunks" /\ pc' \in {"chunks", "consume"}
      /\ UNCHANGED <<repoVars, indexVars, items, existing>>
  BY DEF FileDone, ReuseChunk, QueueChunk
<1>2. /\ \A h, g : Held(h, g) => Held(h, g)'
      /\ \A g : Awaited(g)' <=> Awaited(g)
  BY <1>1 DEF Held, Awaited, LiveRows
<1>3. /\ \A e \in existing : e.hash \in known
      /\ \A g \in Files : \A h \in Chunks(head[g]) : Held(h, g) \/ InHand(h, g)
  BY <1>1 DEF CompletePart, Consuming
<1>4. CASE FileDone
  <2>1. /\ pc' = "consume" /\ todo = {} /\ UNCHANGED <<known, pending>>
    BY <1>4 DEF FileDone
  <2>2. \A h, g : InHand(h, g) => InHand(h, g)'
    BY <1>1, <1>2, <2>1 DEF InHand, Flushing
  <2> QED
    BY <1>1, <1>2, <1>3, <2>1, <2>2 DEF CompletePart, Consuming
<1>5. ASSUME NEW h \in Hashes, ReuseChunk(h)
      PROVE  CompletePart'
  <2>1. /\ pc' = "chunks" /\ todo' = todo \ {h} /\ UNCHANGED <<known, file, pending>>
        /\ h \in OldHashes(file) \cup known
    BY <1>1, <1>5 DEF ReuseChunk
  <2>2. h \in known
    BY <1>3, <2>1 DEF OldHashes, OldOf
  <2>3. \A k, g : InHand(k, g) => InHand(k, g)'
    BY <1>1, <1>2, <2>1, <2>2 DEF InHand
  <2> QED
    BY <1>1, <1>2, <1>3, <2>1, <2>3 DEF CompletePart, Consuming
<1>6. ASSUME NEW h \in Hashes, QueueChunk(h)
      PROVE  CompletePart'
  <2>1. /\ pc' = "chunks" /\ todo' = todo \ {h} /\ known' = known \cup {h} /\ file' = file
        /\ pending' = Append(pending, [hash |-> h, file |-> file]) /\ h \in todo
    BY <1>1, <1>6 DEF QueueChunk
  <2>2. todo \subseteq Chunks(head[file]) /\ ~Awaited(file) /\ file \in Files /\ head \in Trees
    BY <1>1, RowTypes DEF ContentInv, ReadPart, RunInv, QueuePart
  <2>3. pending \in Seq(Chunk)
    BY DEF RunInv, TypeOK, Chunk
  <2>4. /\ \A k \in DOMAIN pending : k \in DOMAIN pending' /\ pending'[k] = pending[k]
        /\ \E k \in DOMAIN pending' : pending'[k].hash = h /\ pending'[k].file = file
    BY <2>1, <2>3
  <2>5. ASSUME NEW g \in Files, h \in Chunks(head[g])
        PROVE  g = file
    <3>1. h \in Chunks(head[file]) \cap Chunks(head[g])
      BY <2>1, <2>2, <2>5
    <3>2. head[file] # NoFile
      BY <2>1, <2>2 DEF Chunks
    <3> QED
      BY <2>2, <3>1, <3>2 DEF CodeStays
  <2>6. ASSUME NEW g \in Files, NEW k \in Chunks(head[g]), InHand(k, g)
        PROVE  InHand(k, g)'
    <3>1. CASE k = h
      <4>1. g = file
        BY <2>5, <2>6, <3>1
      <4> QED
        BY <2>1, <2>4, <3>1, <4>1 DEF InHand, Flushing
    <3>2. CASE k # h
      BY <1>1, <1>2, <2>1, <2>4, <2>6, <3>2 DEF InHand
    <3> QED
      BY <3>1, <3>2
  <2> QED
    BY <1>1, <1>2, <1>3, <2>1, <2>6 DEF CompletePart, Consuming
<1> QED
  BY <1>4, <1>5, <1>6

\* A flushed batch is held.
LEMMA CompleteFlush ==
    ASSUME RunInv, ContentInv, CompletePart, FlushStore \/ FlushLex
    PROVE  CompletePart'
<1>1. CASE FlushStore
  <2>1. /\ pc \in {"chunks", "consume"} /\ pc' = IF pc = "chunks" THEN "flush_lex" ELSE "last_flush_lex"
        /\ UNCHANGED <<repoVars, items, existing, known, file, todo, pending>>
        /\ \A r \in LiveRows : r \in LiveRows' /\ table'[r] = table[r]
        /\ \A k \in DOMAIN pending : \E r \in LiveRows' :
             table'[r].hash = pending[k].hash /\ table'[r].file = pending[k].file
    BY <1>1, ContentFlush
  <2>2. \A h, g : Held(h, g) => Held(h, g)'
    BY <2>1 DEF Held
  <2>3. \A h, g : InHand(h, g) => InHand(h, g)' \/ Held(h, g)'
    BY <2>1 DEF InHand, Held, Awaited
  <2> QED
    BY <2>1, <2>2, <2>3 DEF CompletePart, Consuming
<1>2. CASE FlushLex
  <2>1. /\ LiveRows' = LiveRows /\ pc \in Flushing
        /\ pc' = IF pc = "flush_lex" THEN "chunks" ELSE "consume"
        /\ UNCHANGED <<repoVars, table, items, existing, known, file, todo>>
    BY <1>2, ContentFlushLex
  <2>2. \A h, g : Held(h, g) => Held(h, g)'
    BY <2>1 DEF Held
  <2>3. \A h, g : InHand(h, g) => InHand(h, g)'
    BY <2>1 DEF InHand, Awaited, Flushing
  <2> QED
    BY <2>1, <2>2, <2>3 DEF CompletePart, Consuming, Flushing
<1> QED
  BY <1>1, <1>2

\* When the commit is recorded nothing is on its way any more.
LEMMA CompleteRecord ==
    ASSUME CompletePart, RecordCommit
    PROVE  CompletePart'
<1>1. /\ pc = "consume" /\ pc' = "compact" /\ items = {} /\ pending = << >>
      /\ UNCHANGED <<repoVars, table>>
  BY DEF RecordCommit
<1>2. LiveHashes' = LiveHashes
  BY <1>1 DEF LiveHashes, LiveRows
<1>3. \A h, g : ~InHand(h, g)
  BY <1>1 DEF InHand, Awaited
<1>4. \A g \in Files : \A h \in Chunks(head[g]) : h \in LiveHashes
  BY <1>1, <1>3 DEF CompletePart, Consuming, Held, LiveHashes
<1>5. TreeHashes(head) \subseteq LiveHashes
  BY <1>4 DEF TreeHashes
<1>6. TreeHashes(head)' \subseteq LiveHashes'
  BY <1>1, <1>2, <1>5 DEF TreeHashes
<1> QED
  BY <1>1, <1>6 DEF CompletePart, Consuming

\* Every step of an undisturbed specification whose code does not move keeps CompletePart.
LEMMA CompleteStep ==
    ASSUME Undisturbed, CodeStays, RunInv, ContentInv, CompletePart, [Next]_vars
    PROVE  CompletePart'
<1>1. CASE UNCHANGED vars
  <2>1. LiveRows' = LiveRows /\ LiveHashes' = LiveHashes
    BY <1>1 DEF LiveRows, LiveHashes
  <2>2. \A h, g : /\ Held(h, g)' <=> Held(h, g)
                  /\ Leaving(h, g)' <=> Leaving(h, g)
                  /\ Due(g)' <=> Due(g)
                  /\ Awaited(g)' <=> Awaited(g)
                  /\ InHand(h, g)' <=> InHand(h, g)
    BY <1>1, <2>1 DEF Held, Leaving, Due, Awaited, Leaves, Arrives, InHand
  <2> QED
    BY <1>1, <2>1, <2>2 DEF CompletePart, TreeHashes
<1>2. CASE \/ \E t \in Trees : CommitTree(t) \/ EditWorktree(t)
           \/ Compact \/ NoCompact \/ Renumber \/ Finish
  BY <1>2, CompleteOutside
<1>3. CASE IndexAll
  BY <1>3, CompleteIndexAll
<1>4. CASE Update
  BY <1>4, CompleteUpdate
<1>5. CASE \E c \in changes : ApplyWritten(c) \/ ApplyDeleted(c) \/ ApplyRenamed(c)
  BY <1>5, CompleteChanges
<1>6. CASE ChangesLex \/ ConsumeLex \/ ChangesDone
  BY <1>6, CompletePaid
<1>7. CASE StartParse
  BY <1>7, CompleteStartParse
<1>8. CASE \E i \in items : SkipFile(i)
  BY <1>8, CompleteSkip
<1>9. CASE \E i \in items : ConsumeFile(i)
  BY <1>9, CompleteConsume
<1>10. CASE FileDone \/ \E h \in Hashes : ReuseChunk(h) \/ QueueChunk(h)
  BY <1>10, CompleteChunk
<1>11. CASE FlushStore \/ FlushLex
  BY <1>11, CompleteFlush
<1>12. CASE RecordCommit
  BY <1>12, CompleteRecord
<1>13. CASE Kill
  BY <1>13 DEF Kill, Undisturbed
<1> QED
  BY <1>1, <1>2, <1>3, <1>4, <1>5, <1>6, <1>7, <1>8, <1>9, <1>10, <1>11, <1>12, <1>13 DEF Next

\* Whatever the trees between which code does not move, the renames git reports, the order
\* files are parsed in and the batch size: a run that is left alone records HEAD with every
\* chunk of HEAD in the index, although known_hashes lets a chunk that is live anywhere
\* pass.
THEOREM NothingMissing ==
    ASSUME Undisturbed, CodeStays
    PROVE  Spec => []IndexComplete
<1>1. Init => RunInv /\ ContentInv /\ CompletePart
  <2>1. Init => CompletePart
    BY DEF Init, CompletePart, Consuming
  <2> QED
    BY <2>1, RunInit, ContentInit
<1>2. RunInv /\ ContentInv /\ CompletePart /\ [Next]_vars => (RunInv /\ ContentInv /\ CompletePart)'
  BY RunStep, ContentStep, CompleteStep
<1>3. RunInv /\ ContentInv /\ CompletePart => IndexComplete
  BY DEF CompletePart, IndexComplete, ClaimsHead
<1> QED
  BY <1>1, <1>2, <1>3, PTL DEF Spec

=============================================================================
