----------------------------- MODULE EvalProofs -----------------------------
(***************************************************************************)
(* Proofs about module Eval: the labels mined from commits, the index      *)
(* built without documentation, and the figures of an evaluation.          *)
(***************************************************************************)
EXTENDS Eval, FiniteSetTheorems, SequenceTheorems, WellFoundedInduction, TLAPS

Reports == [examined : Nat, accepted : Nat, rejected : [Rules -> Nat]]

\* A label of mine_commits: it expects at least one symbol, no more than the
\* limit, and only symbols of the index it was mined with.
Fit(label) ==
    /\ label.expected # {}
    /\ label.expected \subseteq IndexedSymbols(world.rows)
    /\ Cardinality(label.expected) <= MaxSymbols

\* What a finished or running mine_commits has counted, and what it has made.
Accounted(rep) ==
    /\ rep.accepted = Cardinality(CommitLabels)
    /\ Reconciles(rep)
    /\ rep.examined <= world.max_commits

\* The labels of commits are fit, finitely many and, while commits are mined,
\* all of earlier positions of the walk, so that an accepted commit adds one.
LabelInv ==
    /\ world \in Worlds
    /\ at \in Nat \ {0}
    /\ pc \in {"start", "commits"} => report \in Reports
    /\ IsFiniteSet(CommitLabels)
    /\ \A l \in CommitLabels : Fit(l)
    /\ pc = "start" => labels = {} /\ report = NewReport
    /\ pc = "commits" =>
          /\ \A l \in CommitLabels : \E i \in 1 .. (at - 1) : l.provenance = <<i, "commit">>
          /\ Accounted(report)
    /\ pc \notin {"start", "commits", "failed"} => Accounted(mined)
    /\ pc \in {"start", "commits", "rows", "tree", "hold", "split"} => target = None
    /\ target = "index" => CommitLabels \subseteq scored

\* The values of a function on a finite set are finitely many.
LEMMA FiniteValues ==
    ASSUME NEW S, IsFiniteSet(S), NEW f, DOMAIN f = S, f = [x \in S |-> f[x]]
    PROVE  IsFiniteSet({f[x] : x \in S})
<1> DEFINE T == {f[x] : x \in S}
<1>1. f \in Surjection(S, T)
  BY DEF Surjection
<1> QED
  BY <1>1, FS_Surjection

\* A commit touches finitely many symbols.
LEMMA TouchedFinite ==
    ASSUME NEW w \in Worlds, NEW i \in DOMAIN w.log
    PROVE  IsFiniteSet(Touched(w.log[i]))
<1> DEFINE commit == w.log[i]
           texts == {c \in commit.changes : c.supported /\ ~c.deleted}
           Of1(change) == {k \in change.chunks :
                              /\ k.key[2] # Prelude
                              /\ \E l \in ChangedLines(change) : l \in k.first .. k.last}
           f == [change \in texts |-> {chunk.key : chunk \in Of1(change)}]
           Sets == {f[change] : change \in texts}
<1>1. IsFiniteSet(texts)
  <2>1. texts \subseteq commit.changes /\ IsFiniteSet(commit.changes)
    BY EvalAssumption
  <2> QED
    BY <2>1, FS_Subset
<1>2. ASSUME NEW change \in texts PROVE IsFiniteSet(f[change])
  <2> DEFINE chunks == Of1(change)
             g == [chunk \in chunks |-> chunk.key]
  <2>1. IsFiniteSet(chunks)
    <3>1. chunks \subseteq change.chunks /\ IsFiniteSet(change.chunks)
      BY EvalAssumption
    <3> QED
      BY <3>1, FS_Subset
  <2>2. f[change] = {g[chunk] : chunk \in chunks}
    OBVIOUS
  <2>3. IsFiniteSet({g[chunk] : chunk \in chunks})
    BY <2>1, FiniteValues
  <2> QED
    BY <2>2, <2>3
<1>3. IsFiniteSet(Sets)
  <2>1. DOMAIN f = texts /\ f = [change \in texts |-> f[change]]
    OBVIOUS
  <2> HIDE DEF f, texts
  <2> QED
    BY <1>1, <2>1, FiniteValues
<1>4. IsFiniteSet(UNION Sets)
  BY <1>2, <1>3, FS_UNION
<1>5. Sets = {{chunk.key : chunk \in Of1(change)} : change \in texts}
  OBVIOUS
<1>6. Touched(commit) = UNION Sets
  BY <1>5 DEF Touched
<1> QED
  BY <1>4, <1>6

\* What mine_commits accepts is fit.
LEMMA AcceptedFits ==
    ASSUME NEW commit, NEW indexed, IsFiniteSet(Touched(commit)),
           Verdict(commit, indexed) = "accepted"
    PROVE  /\ Touched(commit) # {}
           /\ Touched(commit) \subseteq indexed
           /\ Cardinality(Touched(commit)) <= MaxSymbols
<1>1. Touched(commit) # {} /\ Touched(commit) \ indexed = {}
      /\ ~(Cardinality(Touched(commit)) > MaxSymbols)
  BY DEF Verdict
<1>2. Cardinality(Touched(commit)) \in Nat
  BY FS_CardinalityType
<1> QED
  BY <1>1, <1>2, EvalAssumption

\* Every other verdict is one of the reasons a report counts.
LEMMA VerdictIsRule ==
    ASSUME NEW commit, NEW indexed
    PROVE  Verdict(commit, indexed) \in Rules \union {"accepted"}
  BY DEF Verdict, Rules

\* A report that reconciles still does after one more commit, refused for one
\* reason or accepted.
LEMMA CountRefused ==
    ASSUME NEW rep \in Reports, NEW rule \in Rules, Reconciles(rep)
    PROVE  LET new == Rejected([rep EXCEPT !.examined = @ + 1], rule)
           IN  /\ new \in Reports
               /\ Reconciles(new)
               /\ new.accepted = rep.accepted
               /\ new.examined = rep.examined + 1
<1> DEFINE counted == [rep EXCEPT !.examined = @ + 1]
           new == Rejected(counted, rule)
<1>1. counted \in Reports /\ counted.examined = rep.examined + 1
      /\ counted.accepted = rep.accepted /\ counted.rejected = rep.rejected
  BY DEF Reports
<1> HIDE DEF counted
<1>2. /\ new \in Reports
      /\ new.accepted = counted.accepted
      /\ new.examined = counted.examined
      /\ new.rejected = [counted.rejected EXCEPT ![rule] = @ + 1]
  <2>1. counted = [examined |-> counted.examined, accepted |-> counted.accepted,
                   rejected |-> counted.rejected]
        /\ counted.rejected \in [Rules -> Nat]
    BY <1>1 DEF Reports
  <2>2. new = [examined |-> counted.examined, accepted |-> counted.accepted,
               rejected |-> [counted.rejected EXCEPT ![rule] = @ + 1]]
    <3> DEFINE more == [counted.rejected EXCEPT ![rule] = @ + 1]
    <3>2. new = [counted EXCEPT !.rejected = more]
      BY DEF Rejected
    <3> HIDE DEF more, new
    <3>3. new = [examined |-> counted.examined, accepted |-> counted.accepted,
                 rejected |-> more]
      BY <1>1, <3>2 DEF Reports
    <3> QED
      BY <3>3 DEF more
  <2>3. [counted.rejected EXCEPT ![rule] = @ + 1] \in [Rules -> Nat]
    BY <2>1
  <2> HIDE DEF new
  <2> QED
    BY <1>1, <2>2, <2>3 DEF Reports
<1> HIDE DEF new
<1>3. RejectedSum(new.rejected) = RejectedSum(rep.rejected) + 1
  <2> DEFINE old == rep.rejected
  <2>1. old \in [Rules -> Nat] /\ new.rejected = [old EXCEPT ![rule] = @ + 1]
    BY <1>1, <1>2 DEF Reports
  <2> HIDE DEF old
  <2>2. \A r \in Rules : new.rejected[r] = IF r = rule THEN old[r] + 1 ELSE old[r]
    BY <2>1
  <2>3. \A r \in Rules : old[r] \in Nat
    BY <2>1
  <2> DEFINE now == new.rejected
  <2> HIDE DEF now
  <2>4. \A r \in Rules : now[r] = IF r = rule THEN old[r] + 1 ELSE old[r]
    BY <2>2 DEF now
  <2>5. RejectedSum(now) = RejectedSum(old) + 1
    <3>1. /\ old["merge"] \in Nat /\ old["maintenance_pattern"] \in Nat
          /\ old["subject_too_short"] \in Nat /\ old["no_symbols_touched"] \in Nat
          /\ old["too_many_symbols"] \in Nat /\ old["symbols_not_indexed"] \in Nat
      BY <2>3 DEF Rules
    <3>2. /\ now["merge"] = IF rule = "merge" THEN old["merge"] + 1 ELSE old["merge"]
          /\ now["maintenance_pattern"] = IF rule = "maintenance_pattern" THEN old["maintenance_pattern"] + 1 ELSE old["maintenance_pattern"]
          /\ now["subject_too_short"] = IF rule = "subject_too_short" THEN old["subject_too_short"] + 1 ELSE old["subject_too_short"]
          /\ now["no_symbols_touched"] = IF rule = "no_symbols_touched" THEN old["no_symbols_touched"] + 1 ELSE old["no_symbols_touched"]
          /\ now["too_many_symbols"] = IF rule = "too_many_symbols" THEN old["too_many_symbols"] + 1 ELSE old["too_many_symbols"]
          /\ now["symbols_not_indexed"] = IF rule = "symbols_not_indexed" THEN old["symbols_not_indexed"] + 1 ELSE old["symbols_not_indexed"]
      BY <2>4 DEF Rules
    <3>3. CASE rule = "merge"
      BY <3>1, <3>2, <3>3 DEF RejectedSum
    <3>4. CASE rule = "maintenance_pattern"
      BY <3>1, <3>2, <3>4 DEF RejectedSum
    <3>5. CASE rule = "subject_too_short"
      BY <3>1, <3>2, <3>5 DEF RejectedSum
    <3>6. CASE rule = "no_symbols_touched"
      BY <3>1, <3>2, <3>6 DEF RejectedSum
    <3>7. CASE rule = "too_many_symbols"
      BY <3>1, <3>2, <3>7 DEF RejectedSum
    <3>8. CASE rule = "symbols_not_indexed"
      BY <3>1, <3>2, <3>8 DEF RejectedSum
    <3> QED
      BY <3>3, <3>4, <3>5, <3>6, <3>7, <3>8 DEF Rules
  <2> QED
    BY <2>5 DEF old, now
<1>4. RejectedSum(rep.rejected) \in Nat
  BY DEF RejectedSum, Reports, Rules
<1>5. Reconciles(new)
  BY <1>1, <1>2, <1>3, <1>4 DEF Reconciles, Reports
<1> QED
  BY <1>1, <1>2, <1>5 DEF new, counted

\* The same of a commit that is accepted.
LEMMA CountAccepted ==
    ASSUME NEW rep \in Reports, Reconciles(rep)
    PROVE  LET new == [[rep EXCEPT !.examined = @ + 1] EXCEPT !.accepted = @ + 1]
           IN  /\ new \in Reports
               /\ Reconciles(new)
               /\ new.accepted = rep.accepted + 1
               /\ new.examined = rep.examined + 1
<1> DEFINE counted == [rep EXCEPT !.examined = @ + 1]
           new == [counted EXCEPT !.accepted = @ + 1]
<1>1. /\ new \in Reports /\ new.accepted = rep.accepted + 1
      /\ new.examined = rep.examined + 1 /\ new.rejected = rep.rejected
  <2>1. rep = [examined |-> rep.examined, accepted |-> rep.accepted, rejected |-> rep.rejected]
        /\ rep.examined \in Nat /\ rep.accepted \in Nat /\ rep.rejected \in [Rules -> Nat]
    BY DEF Reports
  <2>2. counted \in Reports /\ counted.examined = rep.examined + 1
        /\ counted.accepted = rep.accepted /\ counted.rejected = rep.rejected
    BY DEF Reports
  <2> HIDE DEF counted
  <2>3. new \in Reports /\ new.examined = counted.examined
        /\ new.accepted = counted.accepted + 1 /\ new.rejected = counted.rejected
    BY <2>2 DEF Reports
  <2> HIDE DEF new
  <2> QED
    BY <2>1, <2>2, <2>3
<1>2. RejectedSum(rep.rejected) \in Nat
  BY DEF RejectedSum, Reports, Rules
<1> HIDE DEF new
<1>3. Reconciles(new)
  BY <1>1, <1>2 DEF Reconciles, Reports
<1> QED
  BY <1>1, <1>3 DEF new, counted

\* An evaluation starts with nothing mined.
LEMMA InitLabels == Init => LabelInv
<1> SUFFICES ASSUME Init PROVE LabelInv
  OBVIOUS
<1>1. CommitLabels = {}
  BY DEF Init, CommitLabels
<1>2. NewReport \in Reports /\ Reconciles(NewReport)
  BY DEF NewReport, Reports, Reconciles, RejectedSum, Rules
<1>3. IsFiniteSet(CommitLabels)
  BY <1>1, FS_EmptySet
<1> QED
  BY <1>1, <1>2, <1>3, EvalAssumption DEF Init, LabelInv

\* Steps that change neither the world nor the commit labels keep what is
\* known of those labels.
LEMMA LabelsKept ==
    ASSUME LabelInv, world' = world, CommitLabels' = CommitLabels
    PROVE  /\ world' \in Worlds
           /\ IsFiniteSet(CommitLabels)'
           /\ (\A l \in CommitLabels : Fit(l))'
           /\ \A rep : Accounted(rep) => Accounted(rep)'
  BY DEF LabelInv, Fit, Accounted

\* A commit of the walk: an accepted one adds one fit label, of a position no
\* earlier label has, and the report counts what was done with it.
LEMMA ExamineLabels ==
    ASSUME LabelInv, ExamineCommit
    PROVE  LabelInv'
<1> DEFINE commit == world.log[at]
           indexed == IndexedSymbols(world.rows)
           counted == [report EXCEPT !.examined = @ + 1]
           label == CommitLabel(at, commit)
<1>1. /\ pc = "commits" /\ world' = world /\ pc' = pc /\ mined' = mined
      /\ target' = target /\ scored' = scored /\ at' = at + 1
      /\ at <= Len(world.log) /\ report.examined < world.max_commits
  BY DEF ExamineCommit, CommitsLeft
<1>2. /\ world \in Worlds /\ at \in Nat \ {0} /\ report \in Reports
      /\ IsFiniteSet(CommitLabels) /\ Accounted(report) /\ target = None
      /\ \A l \in CommitLabels : Fit(l)
      /\ \A l \in CommitLabels : \E i \in 1 .. (at - 1) : l.provenance = <<i, "commit">>
  BY <1>1 DEF LabelInv
<1>3. world.max_commits \in Nat /\ at \in DOMAIN world.log
  <2>1. world.log \in Seq(Range(world.log)) /\ world.max_commits \in Nat
    BY <1>2, EvalAssumption
  <2> QED
    BY <1>1, <1>2, <2>1
<1>4. IsFiniteSet(Touched(commit))
  BY <1>2, <1>3, TouchedFinite
<1>5. report.examined \in Nat /\ report.accepted \in Nat /\ Reconciles(report)
      /\ report.accepted = Cardinality(CommitLabels)
  BY <1>2 DEF Reports, Accounted
<1>6. at' \in Nat \ {0} /\ target' # "index"
  BY <1>1, <1>2, EvalAssumption
<1>7. ASSUME NEW new, report' = new, new \in Reports, Reconciles(new),
             new.examined = report.examined + 1,
             new.accepted = Cardinality(CommitLabels)',
             IsFiniteSet(CommitLabels)',
             \A l \in CommitLabels' : Fit(l),
             \A l \in CommitLabels' : \E i \in 1 .. at : l.provenance = <<i, "commit">>
      PROVE  LabelInv'
  <2>1. (\A l \in CommitLabels : Fit(l))'
    BY <1>1, <1>7 DEF Fit
  <2>2. Accounted(report)'
    BY <1>1, <1>3, <1>5, <1>7 DEF Accounted
  <2>3. 1 .. (at' - 1) = 1 .. at
    BY <1>1, <1>2
  <2> QED
    BY <1>1, <1>2, <1>6, <1>7, <2>1, <2>2, <2>3 DEF LabelInv
<1>8. CASE Verdict(commit, indexed) = "accepted"
  <2>1. labels' = labels \union {label}
        /\ report' = [counted EXCEPT !.accepted = @ + 1]
    BY <1>8 DEF ExamineCommit
  <2>2. /\ label.source = "CommitSubject" /\ label.provenance = <<at, "commit">>
        /\ label.expected = Touched(commit)
    BY DEF CommitLabel
  <2>3. Fit(label)
    BY <1>4, <1>8, <2>2, AcceptedFits DEF Fit
  <2> HIDE DEF label
  <2>4. label \notin CommitLabels
    BY <1>2, <2>2
  <2>5. CommitLabels' = CommitLabels \union {label}
    BY <2>1, <2>2 DEF CommitLabels
  <2>6. IsFiniteSet(CommitLabels)' /\ Cardinality(CommitLabels)' = Cardinality(CommitLabels) + 1
    BY <1>2, <2>4, <2>5, FS_AddElement
  <2>7. \A l \in CommitLabels' : Fit(l)
    BY <1>2, <2>3, <2>5
  <2>8. \A l \in CommitLabels' : \E i \in 1 .. at : l.provenance = <<i, "commit">>
    BY <1>2, <2>2, <2>5
  <2>9. /\ report' \in Reports /\ Reconciles(report')
        /\ report'.accepted = report.accepted + 1
        /\ report'.examined = report.examined + 1
    BY <1>2, <1>5, <2>1, CountAccepted
  <2> QED
    BY <1>5, <1>7, <2>6, <2>7, <2>8, <2>9
<1>9. CASE Verdict(commit, indexed) # "accepted"
  <2> DEFINE rule == Verdict(commit, indexed)
  <2>1. labels' = labels /\ report' = Rejected(counted, rule)
    BY <1>9 DEF ExamineCommit
  <2>2. rule \in Rules
    BY <1>9, VerdictIsRule
  <2> HIDE DEF rule
  <2>3. /\ report' \in Reports /\ Reconciles(report')
        /\ report'.accepted = report.accepted
        /\ report'.examined = report.examined + 1
    BY <1>2, <1>5, <2>1, <2>2, CountRefused
  <2>4. CommitLabels' = CommitLabels
    BY <2>1 DEF CommitLabels
  <2>5. \A l \in CommitLabels' : \E i \in 1 .. at : l.provenance = <<i, "commit">>
    BY <1>2, <2>4
  <2> QED
    BY <1>2, <1>5, <1>7, <2>3, <2>4, <2>5
<1> QED
  BY <1>8, <1>9

\* A step of mine_docstrings adds only labels of its own kind.
LEMMA DocLabelApart ==
    ASSUME NEW key, NEW doc, labels' = labels \union {DocLabel(key, doc)}
    PROVE  CommitLabels' = CommitLabels
<1>1. DocLabel(key, doc).source = "Docstring"
  BY DEF DocLabel
<1> HIDE DEF DocLabel
<1> QED
  BY <1>1 DEF CommitLabels

\* Every other step leaves the labels of commits alone, or drops them with the
\* evaluation.
LEMMA OtherLabels ==
    ASSUME LabelInv, Next, ~ExamineCommit
    PROVE  LabelInv'
<1>1. world \in Worlds /\ at \in Nat \ {0} /\ None # "index"
  BY EvalAssumption DEF LabelInv
<1>2. CASE CheckRevision
  <2>1. /\ pc = "start" /\ pc' \in {"commits", "failed"} /\ labels' = labels
        /\ world' = world /\ report' = report /\ at' = at /\ target' = target
    BY <1>2 DEF CheckRevision
  <2>2. labels = {} /\ report = NewReport /\ target = None /\ report \in Reports
    BY <2>1 DEF LabelInv
  <2>3. CommitLabels' = {} /\ CommitLabels = {}
    BY <2>1, <2>2 DEF CommitLabels
  <2>4. IsFiniteSet({}) /\ Cardinality({}) = 0
    BY FS_EmptySet
  <2>5. world.max_commits \in Nat
    BY <1>1, EvalAssumption
  <2>6. NewReport.accepted = 0 /\ NewReport.examined = 0 /\ Reconciles(NewReport)
    BY DEF NewReport, Reconciles, RejectedSum, Rules
  <2>7. Accounted(report)'
    BY <2>1, <2>2, <2>3, <2>4, <2>5, <2>6 DEF Accounted
  <2> QED
    BY <1>1, <2>1, <2>2, <2>3, <2>4, <2>7 DEF LabelInv
<1>3. CASE MiningFails
  <2>1. /\ pc = "commits" /\ pc' = "failed" /\ labels' = {}
        /\ world' = world /\ at' = at /\ target' = target
    BY <1>3 DEF MiningFails
  <2>2. target = None
    BY <2>1 DEF LabelInv
  <2>3. CommitLabels' = {}
    BY <2>1 DEF CommitLabels
  <2>4. IsFiniteSet(CommitLabels')
    BY <2>3, FS_EmptySet
  <2> QED
    BY <1>1, <2>1, <2>2, <2>3, <2>4 DEF LabelInv
<1>4. CASE CommitsDone
  <2>1. /\ pc = "commits" /\ pc' = "rows" /\ labels' = labels /\ mined' = report
        /\ world' = world /\ at' = 1 /\ target' = target
    BY <1>4 DEF CommitsDone
  <2>2. target = None /\ Accounted(report)
    BY <2>1 DEF LabelInv
  <2>3. CommitLabels' = CommitLabels
    BY <2>1 DEF CommitLabels
  <2>4. Accounted(mined)'
    BY <2>1, <2>2, <2>3 DEF Accounted
  <2> QED
    BY <2>1, <2>2, <2>3, <2>4, <1>1, LabelsKept DEF LabelInv
<1>5. ASSUME \/ MineRow \/ RowsDone \/ MineChunk \/ TreeDone
             \/ HoldChunk \/ HeldOutDone \/ HoldFails
      PROVE  LabelInv'
  <2>1. /\ pc \in {"rows", "tree", "hold"}
        /\ pc' \in {"rows", "tree", "hold", "split", "failed"}
        /\ mined' = mined /\ world' = world /\ target' = target /\ at' \in Nat \ {0}
    BY <1>1, <1>5 DEF MineRow, RowsDone, MineChunk, TreeDone, HoldChunk, HeldOutDone, HoldFails
  <2>2. CommitLabels' = CommitLabels
    <3>1. CASE labels' = labels
      BY <3>1 DEF CommitLabels
    <3>2. CASE labels' # labels
      <4>1. \E key, doc : labels' = labels \union {DocLabel(key, doc)}
        BY <1>5, <3>2 DEF MineRow, RowsDone, MineChunk, TreeDone, HoldChunk, HeldOutDone, HoldFails
      <4> QED
        BY <4>1, DocLabelApart
    <3> QED
      BY <3>1, <3>2
  <2>3. target = None /\ Accounted(mined)
    BY <2>1 DEF LabelInv
  <2>4. Accounted(mined)'
    BY <2>1, <2>2, <2>3 DEF Accounted
  <2> QED
    BY <1>1, <2>1, <2>2, <2>3, <2>4, LabelsKept DEF LabelInv
<1>6. CASE Partition
  <2>1. /\ pc = "split" /\ pc' = "score" /\ labels' = labels
        /\ mined' = mined /\ world' = world /\ at' = 1
        /\ \E index \in {"index", "held"} :
              /\ target' = index
              /\ scored' = {l \in labels : Scorable(l, RecordsOf(index))}
    BY <1>6 DEF Partition
  <2>2. CommitLabels' = CommitLabels
    BY <2>1 DEF CommitLabels
  <2>3. \A l \in CommitLabels : Fit(l)
    BY DEF LabelInv
  <2>4. target' = "index" => CommitLabels \subseteq scored'
    <3> SUFFICES ASSUME target' = "index", NEW l \in CommitLabels PROVE l \in scored'
      OBVIOUS
    <3>1. scored' = {k \in labels : Scorable(k, world.rows)}
      BY <2>1 DEF RecordsOf
    <3>2. Scorable(l, world.rows)
      BY <2>3 DEF Fit, Scorable, IndexedSymbols
    <3> QED
      BY <3>1, <3>2 DEF CommitLabels
  <2>5. Accounted(mined)'
    <3>1. Accounted(mined)
      BY <2>1 DEF LabelInv
    <3> QED
      BY <2>1, <2>2, <3>1 DEF Accounted
  <2> QED
    BY <2>1, <2>2, <2>4, <2>5, LabelsKept DEF LabelInv
<1>7. ASSUME \/ ScoreJob \/ SearchFails \/ MeasureBytes \/ MeasureFails \/ Stop
      PROVE  LabelInv'
  <2>1. /\ pc \in {"score", "done", "failed"} /\ pc' \in {"score", "done", "failed"}
        /\ pc = "failed" => pc' = "failed"
        /\ mined' = mined /\ world' = world /\ labels' = labels
        /\ target' = target /\ scored' = scored /\ at' \in Nat \ {0}
    BY <1>1, <1>7
       DEF ScoreJob, SearchFails, MeasureBytes, MeasureFails, Stop, vars
  <2>2. CommitLabels' = CommitLabels
    BY <2>1 DEF CommitLabels
  <2>3. pc # "failed" => Accounted(mined)
    BY <2>1 DEF LabelInv
  <2>4. pc' # "failed" => Accounted(mined)'
    BY <2>1, <2>2, <2>3 DEF Accounted
  <2> QED
    BY <2>1, <2>2, <2>4, LabelsKept DEF LabelInv
<1> QED
  BY <1>2, <1>3, <1>4, <1>5, <1>6, <1>7 DEF Next

\* LabelInv holds in every state of an evaluation.
THEOREM LabelInvariance == Spec => []LabelInv
<1>1. LabelInv /\ [Next]_vars => LabelInv'
  <2> SUFFICES ASSUME LabelInv, [Next]_vars PROVE LabelInv'
    OBVIOUS
  <2>1. CASE UNCHANGED vars
    BY <2>1 DEF vars, LabelInv, CommitLabels, Fit, Accounted
  <2>2. CASE ExamineCommit
    BY <2>2, ExamineLabels
  <2>3. CASE Next /\ ~ExamineCommit
    BY <2>3, OtherLabels
  <2> QED
    BY <2>1, <2>2, <2>3
<1> QED
  BY <1>1, InitLabels, PTL DEF Spec

\* Whatever the history and the index, partition_labels discards no label that
\* mine_commits made with that index, and the report of mine_commits reconciles
\* with the labels and stays within max_commits.
THEOREM CommitLabelsScorable == Spec => []CommitLabelsAreScorable
<1>1. LabelInv => CommitLabelsAreScorable
  <2> SUFFICES ASSUME LabelInv, pc \notin {"start", "commits", "failed"}
               PROVE  CommitLabelsAreScorable
    BY DEF CommitLabelsAreScorable
  <2>1. Accounted(mined) /\ (target = "index" => CommitLabels \subseteq scored)
    BY DEF LabelInv
  <2>2. \A l \in CommitLabels : Scorable(l, world.rows) /\ Cardinality(l.expected) <= MaxSymbols
    <3> SUFFICES ASSUME NEW l \in CommitLabels
                 PROVE  Scorable(l, world.rows) /\ Cardinality(l.expected) <= MaxSymbols
      OBVIOUS
    <3>1. Fit(l)
      BY DEF LabelInv
    <3> QED
      BY <3>1 DEF Fit, Scorable, IndexedSymbols
  <2> QED
    BY <2>1, <2>2 DEF CommitLabelsAreScorable, Accounted
<1> QED
  BY <1>1, LabelInvariance, PTL

-----------------------------------------------------------------------------
(***************************************************************************)
(* The index without documentation.                                        *)
(***************************************************************************)

\* The record of a chunk of the work tree.
RecordOf(chunk) == [key |-> chunk.key, hash |-> chunk.hash, doc |-> None]

\* A body with no line of documentation.
Clean(body) == \A line \in Range(body) : line.kind \notin {"outer", "inner"}

\* An index made of the first n chunks of the tree: its records and its bodies
\* are of those chunks, and each chunk that is more than documentation has a
\* record, or one of the same content before it has.
RecordsUpTo(n) == {RecordOf(world.tree[j]) : j \in 1 .. n}
BodiesUpTo(n) == {StripDocComments(world.tree[j].body) : j \in 1 .. n}

Present(i) ==
    \/ IsBlank(StripDocComments(world.tree[i].body))
    \/ \E r \in 1 .. Len(held.records), j \in 1 .. i :
          /\ held.records[r] = RecordOf(world.tree[j])
          /\ j = i \/ world.tree[j].hash = world.tree[i].hash

Holds(n) ==
    /\ held.records \in Seq(RecordsUpTo(n))
    /\ held.bodies \in Seq(BodiesUpTo(n))
    /\ \A i \in 1 .. n : Present(i)

\* The index grows with the position in the tree, and is complete afterwards.
HeldInv ==
    /\ world \in Worlds /\ at \in Nat \ {0}
    /\ pc \in {"start", "commits", "rows", "tree"} => held = EmptyIndex
    /\ pc = "hold" => at - 1 <= Len(world.tree) /\ Holds(at - 1)
    /\ pc \in {"split", "score", "done"} => Holds(Len(world.tree))

\* What strip_doc_comments leaves is clean.
LEMMA StrippedIsClean ==
    ASSUME NEW body
    PROVE  Clean(StripDocComments(body))
  BY DEF Clean, StripDocComments, Restrict, Range

\* A list of elements of a set is one of elements of a larger set, and stays one
\* when an element is added or replaced.
LEMMA ListGrows ==
    ASSUME NEW S, NEW T, S \subseteq T, NEW s \in Seq(S), NEW e \in T, NEW i
    PROVE  /\ s \in Seq(T) /\ Append(s, e) \in Seq(T)
           /\ [s EXCEPT ![i] = e] \in Seq(T)
<1>1. s \in Seq(T) /\ Append(s, e) \in Seq(T)
  OBVIOUS
<1> DEFINE u == [s EXCEPT ![i] = e]
<1>2. s \in [1 .. Len(s) -> T] /\ Len(s) \in Nat
  BY <1>1
<1>3. u \in [1 .. Len(s) -> T]
  <2> DEFINE D == 1 .. Len(s)
  <2>1. s \in [D -> T]
    BY <1>2
  <2> HIDE DEF D
  <2>2. u \in [D -> T]
    BY <2>1
  <2> QED
    BY <2>2 DEF D
<1> HIDE DEF u
<1>4. u \in Seq(T)
  BY <1>2, <1>3, SeqDef
<1> QED
  BY <1>1, <1>4 DEF u

\* One more chunk: a new row, a new body for the row of the same content, or
\* nothing if only documentation was there.
LEMMA HoldOne ==
    ASSUME world' = world, NEW n \in Nat, Holds(n),
           held' = Hold(held, world.tree[n + 1])
    PROVE  Holds(n + 1)'
<1> DEFINE chunk == world.tree[n + 1]
           body == StripDocComments(chunk.body)
           same == {i \in DOMAIN held.records : held.records[i].hash = chunk.hash}
           recs == held.records
<1>1. /\ recs \in Seq(RecordsUpTo(n)) /\ held.bodies \in Seq(BodiesUpTo(n))
      /\ \A i \in 1 .. n : Present(i)
  BY DEF Holds
<1>2. /\ RecordsUpTo(n) \subseteq RecordsUpTo(n + 1) /\ RecordOf(chunk) \in RecordsUpTo(n + 1)
      /\ BodiesUpTo(n) \subseteq BodiesUpTo(n + 1) /\ body \in BodiesUpTo(n + 1)
  BY DEF RecordsUpTo, BodiesUpTo
<1>3. RecordsUpTo(n + 1)' = RecordsUpTo(n + 1) /\ BodiesUpTo(n + 1)' = BodiesUpTo(n + 1)
  BY DEF RecordsUpTo, BodiesUpTo
<1>4. Len(recs) \in Nat /\ DOMAIN recs = 1 .. Len(recs)
  BY <1>1
<1>5. ASSUME held'.records \in Seq(RecordsUpTo(n + 1)),
             held'.bodies \in Seq(BodiesUpTo(n + 1)),
             Len(recs) <= Len(held'.records),
             \A r \in 1 .. Len(recs) : held'.records[r] = recs[r],
             Present(n + 1)'
      PROVE  Holds(n + 1)'
  <2>1. ASSUME NEW i \in 1 .. n
        PROVE  Present(i)'
    <3>1. Present(i)
      BY <1>1
    <3>2. \A r \in 1 .. Len(recs) : r \in 1 .. Len(held'.records)
      BY <1>4, <1>5
    <3> QED
      BY <1>5, <3>1, <3>2 DEF Present
  <2>2. \A i \in 1 .. (n + 1) : i \in 1 .. n \/ i = n + 1
    OBVIOUS
  <2> QED
    BY <1>3, <1>5, <2>1, <2>2 DEF Holds
<1>6. CASE IsBlank(body)
  <2>1. held' = held
    BY <1>6 DEF Hold
  <2>2. Present(n + 1)'
    BY <1>6 DEF Present
  <2> HIDE DEF body, chunk
  <2>3. held'.records \in Seq(RecordsUpTo(n + 1)) /\ held'.bodies \in Seq(BodiesUpTo(n + 1))
    BY <1>1, <1>2, <2>1, ListGrows
  <2> QED
    BY <1>4, <1>5, <2>1, <2>2, <2>3
<1>7. CASE ~IsBlank(body) /\ same = {}
  <2>1. held' = [records |-> Append(recs, RecordOf(chunk)), bodies |-> Append(held.bodies, body)]
    BY <1>7 DEF Hold, RecordOf
  <2> HIDE DEF body, recs
  <2>2. held'.records = Append(recs, RecordOf(chunk)) /\ held'.bodies = Append(held.bodies, body)
    BY <2>1
  <2>3. /\ Len(held'.records) = Len(recs) + 1
        /\ \A r \in 1 .. Len(recs) : held'.records[r] = recs[r]
        /\ held'.records[Len(recs) + 1] = RecordOf(chunk)
    BY <1>1, <2>2
  <2>4. held'.records \in Seq(RecordsUpTo(n + 1)) /\ held'.bodies \in Seq(BodiesUpTo(n + 1))
    BY <1>1, <1>2, <2>2, ListGrows
  <2>5. Present(n + 1)'
    <3>1. Len(recs) + 1 \in 1 .. Len(held'.records) /\ n + 1 \in 1 .. (n + 1)
      BY <1>4, <2>3
    <3>2. held'.records[Len(recs) + 1] = RecordOf(world.tree[n + 1])'
      BY <2>3 DEF RecordOf
    <3> QED
      BY <3>1, <3>2 DEF Present
  <2> QED
    BY <1>4, <1>5, <2>3, <2>4, <2>5
<1>8. CASE ~IsBlank(body) /\ same # {}
  <2> DEFINE row == Min(same)
  <2>1. held' = [records |-> recs, bodies |-> [held.bodies EXCEPT ![row] = body]]
    BY <1>8 DEF Hold
  <2>2. PICK s \in same : TRUE
    BY <1>8
  <2>3. s \in 1 .. Len(recs) /\ recs[s].hash = chunk.hash
    BY <1>4, <2>2
  <2> HIDE DEF body, row, same
  <2>4. held'.records = recs /\ held'.bodies = [held.bodies EXCEPT ![row] = body]
    BY <2>1
  <2>5. held'.records \in Seq(RecordsUpTo(n + 1)) /\ held'.bodies \in Seq(BodiesUpTo(n + 1))
    <3> HIDE DEF recs, chunk
    <3> QED
      BY <1>1, <1>2, <2>4, ListGrows
  <2>6. PICK j \in 1 .. n : recs[s] = RecordOf(world.tree[j])
    <3>1. recs[s] \in RecordsUpTo(n)
      BY <1>1, <2>3
    <3> QED
      BY <3>1 DEF RecordsUpTo
  <2>7. Present(n + 1)'
    <3>1. world.tree[j].hash = world.tree[n + 1].hash
      BY <2>3, <2>6 DEF RecordOf
    <3>2. j \in 1 .. (n + 1) /\ s \in 1 .. Len(held'.records)
      BY <2>3, <2>4
    <3>3. held'.records[s] = RecordOf(world.tree[j])'
      BY <2>4, <2>6 DEF RecordOf
    <3> QED
      BY <3>1, <3>2, <3>3 DEF Present
  <2> QED
    BY <1>4, <1>5, <2>4, <2>5, <2>7
<1> QED
  BY <1>6, <1>7, <1>8

\* Every step keeps the index what the chunks so far have made of it.
LEMMA HeldStep ==
    ASSUME HeldInv, [Next]_vars
    PROVE  HeldInv'
<1>1. world \in Worlds /\ at \in Nat \ {0} /\ world.tree \in Seq(Range(world.tree))
  BY EvalAssumption DEF HeldInv
<1>2. Len(world.tree) \in Nat
  BY <1>1
<1>3. ASSUME world' = world, held' = held, NEW n
      PROVE  Holds(n)' = Holds(n)
  BY <1>3 DEF Holds, Present, RecordsUpTo, BodiesUpTo, RecordOf
<1>4. ASSUME world' = world, held' = held, at' \in Nat \ {0},
             pc' \in {"start", "commits", "rows", "tree"} =>
                pc \in {"start", "commits", "rows", "tree"},
             pc' # "hold",
             pc' \in {"split", "score", "done"} => pc \in {"split", "score", "done"}
      PROVE  HeldInv'
  <2>1. Holds(Len(world.tree))' = Holds(Len(world.tree))
    BY <1>3, <1>4 DEF Holds, Present, RecordsUpTo, BodiesUpTo, RecordOf
  <2> QED
    BY <1>1, <1>4, <2>1 DEF HeldInv
<1>5. CASE \/ CheckRevision \/ ExamineCommit \/ MiningFails \/ CommitsDone
           \/ MineRow \/ RowsDone \/ MineChunk
  <2>1. /\ world' = world /\ held' = held /\ at' \in Nat \ {0}
        /\ pc \in {"start", "commits", "rows", "tree"}
        /\ pc' \in {"start", "commits", "rows", "tree", "failed"}
    BY <1>1, <1>5
       DEF CheckRevision, ExamineCommit, MiningFails, CommitsDone, MineRow, RowsDone, MineChunk
  <2> QED
    BY <1>4, <2>1
<1>6. CASE TreeDone
  <2>1. /\ pc = "tree" /\ pc' = "hold" /\ at' = 1 /\ world' = world /\ held' = held
    BY <1>6 DEF TreeDone
  <2>2. held' = EmptyIndex
    BY <2>1 DEF HeldInv
  <2>3. Holds(0)'
    BY <2>2 DEF Holds, EmptyIndex, Present
  <2>4. at' - 1 = 0 /\ 0 <= Len(world.tree) /\ at' \in Nat \ {0}
    BY <1>2, <2>1
  <2>5. Holds(at - 1)'
    BY <2>3, <2>4 DEF Holds, Present, RecordsUpTo, BodiesUpTo, RecordOf
  <2> QED
    BY <1>1, <2>1, <2>4, <2>5 DEF HeldInv
<1>7. CASE HoldChunk
  <2>1. /\ pc = "hold" /\ pc' = "hold" /\ world' = world /\ at' = at + 1
        /\ at <= Len(world.tree) /\ held' = Hold(held, world.tree[at])
    BY <1>7 DEF HoldChunk
  <2>2. Holds(at - 1)
    BY <2>1 DEF HeldInv
  <2>3. at - 1 \in Nat /\ at - 1 + 1 = at /\ at' - 1 = at - 1 + 1
    BY <1>1, <2>1
  <2>4. Holds(at - 1)'
    <3>1. PICK n \in Nat : n = at - 1
      BY <2>3
    <3>2. Holds(n) /\ held' = Hold(held, world.tree[n + 1]) /\ at' - 1 = n + 1
      BY <2>1, <2>2, <2>3, <3>1
    <3>3. Holds(n + 1)'
      BY <2>1, <3>2, HoldOne
    <3> QED
      BY <3>2, <3>3 DEF Holds
  <2>5. at' - 1 <= Len(world.tree) /\ at' \in Nat \ {0}
    BY <1>1, <1>2, <2>1
  <2> QED
    BY <1>1, <2>1, <2>4, <2>5 DEF HeldInv
<1>8. CASE HeldOutDone
  <2>1. /\ pc = "hold" /\ pc' = "split" /\ world' = world /\ at' = at
        /\ at > Len(world.tree) /\ held' = held
    BY <1>8 DEF HeldOutDone
  <2>2. at - 1 <= Len(world.tree) /\ Holds(at - 1)
    BY <2>1 DEF HeldInv
  <2>3. at - 1 = Len(world.tree)
    BY <1>1, <1>2, <2>1, <2>2
  <2>4. Holds(Len(world.tree))'
    BY <2>1, <2>2, <2>3 DEF Holds, Present, RecordsUpTo, BodiesUpTo, RecordOf
  <2> QED
    BY <1>1, <2>1, <2>4 DEF HeldInv
<1>9. CASE HoldFails
  BY <1>1, <1>9 DEF HoldFails, HeldInv
<1>10. CASE \/ Partition \/ ScoreJob \/ SearchFails \/ MeasureBytes \/ MeasureFails
            \/ Stop \/ UNCHANGED vars
  <2>1. CASE UNCHANGED vars
    <3>1. /\ Holds(at - 1)' = Holds(at - 1)
          /\ Holds(Len(world.tree))' = Holds(Len(world.tree))
      BY <2>1 DEF vars, Holds, Present, RecordsUpTo, BodiesUpTo, RecordOf
    <3> QED
      BY <2>1, <3>1 DEF vars, HeldInv
  <2>2. CASE \/ Partition \/ ScoreJob \/ SearchFails \/ MeasureBytes \/ MeasureFails
    <3>1. /\ world' = world /\ held' = held /\ at' \in Nat \ {0}
          /\ pc \in {"split", "score"} /\ pc' \in {"score", "done", "failed"}
      BY <1>1, <2>2 DEF Partition, ScoreJob, SearchFails, MeasureBytes, MeasureFails
    <3> QED
      BY <1>4, <3>1
  <2> QED
    BY <1>10, <2>1, <2>2 DEF Stop
<1> QED
  BY <1>5, <1>6, <1>7, <1>8, <1>9, <1>10 DEF Next

\* HeldInv holds in every state of an evaluation.
THEOREM HeldOutInvariance == Spec => []HeldInv
<1>1. Init => HeldInv
  BY DEF Init, HeldInv
<1> QED
  BY <1>1, HeldStep, PTL DEF Spec

\* For every work tree: the index without documentation has no /// or //! line
\* a docstring label asks for, its records carry no documentation, and each
\* chunk that is more than documentation has a record there, its own or that of
\* an earlier copy.
THEOREM HeldOutIsFair == Spec => []HeldOutIndexIsFair
<1>1. HeldInv => HeldOutIndexIsFair
  <2> SUFFICES ASSUME HeldInv, pc \in {"split", "score", "done"}
               PROVE  HeldOutIndexIsFair
    BY DEF HeldOutIndexIsFair
  <2> DEFINE n == Len(world.tree)
  <2>1. /\ held.records \in Seq(RecordsUpTo(n)) /\ held.bodies \in Seq(BodiesUpTo(n))
        /\ \A i \in 1 .. n : Present(i)
    BY DEF HeldInv, Holds
  <2>2. DOMAIN world.tree = 1 .. n
    <3>1. world.tree \in Seq(Range(world.tree))
      BY EvalAssumption DEF HeldInv
    <3> QED
      BY <3>1
  <2> HIDE DEF n
  <2>3. ASSUME NEW l \in DocLabels, l.query.kind \in {"outer", "inner"},
               NEW r \in DOMAIN held.bodies
        PROVE  l.query \notin Range(held.bodies[r])
    <3>1. held.bodies[r] \in BodiesUpTo(n)
      BY <2>1
    <3>2. Clean(held.bodies[r])
      BY <3>1, StrippedIsClean DEF BodiesUpTo
    <3> QED
      BY <2>3, <3>2 DEF Clean
  <2>4. \A r \in DOMAIN held.records : held.records[r].doc = None
    <3> SUFFICES ASSUME NEW r \in DOMAIN held.records PROVE held.records[r].doc = None
      OBVIOUS
    <3>1. held.records[r] \in RecordsUpTo(n)
      BY <2>1
    <3> QED
      BY <3>1 DEF RecordsUpTo, RecordOf
  <2>5. ASSUME NEW i \in DOMAIN world.tree
        PROVE  \/ IsBlank(StripDocComments(world.tree[i].body))
               \/ \E r \in DOMAIN held.records, j \in 1 .. i :
                     /\ held.records[r].key = world.tree[j].key
                     /\ j = i \/ world.tree[j].hash = world.tree[i].hash
    <3>1. Present(i)
      BY <2>1, <2>2
    <3>2. DOMAIN held.records = 1 .. Len(held.records)
      BY <2>1
    <3>3. CASE ~IsBlank(StripDocComments(world.tree[i].body))
      <4>1. PICK r \in 1 .. Len(held.records), j \in 1 .. i :
                   /\ held.records[r] = RecordOf(world.tree[j])
                   /\ j = i \/ world.tree[j].hash = world.tree[i].hash
        BY <3>1, <3>3 DEF Present
      <4>2. held.records[r].key = world.tree[j].key
        BY <4>1 DEF RecordOf
      <4> QED
        BY <3>2, <4>1, <4>2
    <3> QED
      BY <3>3
  <2> QED
    BY <2>3, <2>4, <2>5 DEF HeldOutIndexIsFair
<1> QED
  BY <1>1, HeldOutInvariance, PTL

-----------------------------------------------------------------------------
(***************************************************************************)
(* Sums and sorted samples.  A sum of numbers is shown to count units: a   *)
(* number n at x is the n pairs <<x, 1>>, ..., <<x, n>>.  Sums over parts, *)
(* and bounds of sums, are then facts about sets.                          *)
(***************************************************************************)

\* A set of numbers that is not empty has a least one.
LEMMA LeastNumber ==
    ASSUME NEW T \in SUBSET Nat, T # {}
    PROVE  \E x \in T : \A y \in T : x <= y
<1>1. PICK x \in T : \A y \in T : ~(<<y, x>> \in OpToRel(<, Nat))
  BY NatLessThanWellFounded, WFMin
<1>2. \A y \in T : ~(y < x)
  BY <1>1 DEF OpToRel
<1> QED
  BY <1>2

\* The least member, once known.
LEMMA MinIs ==
    ASSUME NEW S \in SUBSET Int, NEW x \in S, \A y \in S : x <= y
    PROVE  Min(S) = x
<1>1. Min(S) \in S /\ \A y \in S : Min(S) <= y
  BY DEF Min
<1>2. Min(S) <= x /\ x <= Min(S) /\ Min(S) \in Int
  BY <1>1
<1> QED
  BY <1>2

\* The greatest member, once known.
LEMMA MaxIs ==
    ASSUME NEW S \in SUBSET Int, NEW x \in S, \A y \in S : x >= y
    PROVE  Max(S) = x
<1>1. Max(S) \in S /\ \A y \in S : Max(S) >= y
  BY DEF Max
<1>2. Max(S) >= x /\ x >= Max(S) /\ Max(S) \in Int
  BY <1>1
<1> QED
  BY <1>2

\* Two sets without a common member.
LEMMA Disjoint ==
    ASSUME NEW A, NEW B, IsFiniteSet(A), IsFiniteSet(B), A \intersect B = {}
    PROVE  /\ IsFiniteSet(A \union B)
           /\ Cardinality(A \union B) = Cardinality(A) + Cardinality(B)
           /\ Cardinality(A) \in Nat /\ Cardinality(B) \in Nat
<1>1. Cardinality(A) \in Nat /\ Cardinality(B) \in Nat
  BY FS_CardinalityType
<1>2. Cardinality(A \intersect B) = 0
  BY FS_EmptySet
<1>3. /\ IsFiniteSet(A \union B)
      /\ Cardinality(A \union B) =
            Cardinality(A) + Cardinality(B) - Cardinality(A \intersect B)
  BY FS_Union
<1> QED
  BY <1>1, <1>2, <1>3

\* The units of the numbers f has on s.
Units(s, f) == {p \in s \X Nat : p[2] \in 1 .. f[p[1]]}

\* The units of one place.
LEMMA Column ==
    ASSUME NEW x, NEW n \in Nat
    PROVE  IsFiniteSet({x} \X (1 .. n)) /\ Cardinality({x} \X (1 .. n)) = n
<1> DEFINE T == {x} \X (1 .. n)
           b == [k \in 1 .. n |-> <<x, k>>]
<1>1. IsFiniteSet(1 .. n) /\ Cardinality(1 .. n) = n
  BY FS_Interval
<1>2. b \in Bijection(1 .. n, T)
  <2>1. b \in [1 .. n -> T]
    OBVIOUS
  <2>2. \A k, m \in 1 .. n : b[k] = b[m] => k = m
    OBVIOUS
  <2>3. \A t \in T : \E k \in 1 .. n : b[k] = t
    OBVIOUS
  <2> QED
    BY <2>1, <2>2, <2>3 DEF Bijection, Injection, Surjection, IsInjective
<1> QED
  BY <1>1, <1>2, FS_Bijection DEF ExistsBijection

\* One place more.
LEMMA UnitsStep ==
    ASSUME NEW S, NEW f \in [S -> Nat], NEW s \in SUBSET S, NEW x \in s,
           IsFiniteSet(Units(s \ {x}, f))
    PROVE  /\ IsFiniteSet(Units(s, f))
           /\ Cardinality(Units(s, f)) = f[x] + Cardinality(Units(s \ {x}, f))
<1> DEFINE A == Units(s \ {x}, f)
           B == {x} \X (1 .. f[x])
<1>1. f[x] \in Nat
  OBVIOUS
<1>2. Units(s, f) = A \union B /\ A \intersect B = {}
  BY <1>1 DEF Units
<1>3. IsFiniteSet(B) /\ Cardinality(B) = f[x]
  BY <1>1, Column
<1> HIDE DEF A, B
<1>4. IsFiniteSet(A)
  BY DEF A
<1>5. IsFiniteSet(A \union B) /\ Cardinality(A \union B) = Cardinality(A) + f[x]
      /\ Cardinality(A) \in Nat
  BY <1>2, <1>3, <1>4, Disjoint
<1> QED
  BY <1>1, <1>2, <1>5 DEF A

\* Finitely many numbers have finitely many units.
LEMMA UnitsFinite ==
    ASSUME NEW S, IsFiniteSet(S), NEW f \in [S -> Nat], NEW s \in SUBSET S
    PROVE  IsFiniteSet(Units(s, f))
<1> DEFINE Bad == {t \in SUBSET S : ~IsFiniteSet(Units(t, f))}
           T == {n \in Nat : \E t \in Bad : Cardinality(t) = n}
<1>1. \A t \in SUBSET S : IsFiniteSet(t) /\ Cardinality(t) \in Nat
  BY FS_Subset, FS_CardinalityType
<1>2. T = {}
  <2> SUFFICES ASSUME T # {} PROVE FALSE
    OBVIOUS
  <2>1. PICK n \in T : \A m \in T : n <= m
    <3>1. T \in SUBSET Nat
      OBVIOUS
    <3> HIDE DEF T
    <3> QED
      BY <3>1, LeastNumber
  <2>2. PICK t \in Bad : Cardinality(t) = n
    BY <2>1
  <2>3. CASE t = {}
    <3>1. Units(t, f) = {}
      BY <2>3 DEF Units
    <3> QED
      BY <2>2, <3>1, FS_EmptySet
  <2>4. CASE t # {}
    <3>1. PICK x \in t : TRUE
      BY <2>4
    <3>2. Cardinality(t \ {x}) = n - 1 /\ t \ {x} \in SUBSET S
      BY <1>1, <2>2, <3>1, FS_RemoveElement
    <3>3. t \ {x} \notin Bad
      <4>1. n - 1 \notin T
        BY <2>1
      <4>2. Cardinality(t \ {x}) \in Nat
        BY <1>1, <3>2
      <4> QED
        BY <3>2, <4>1, <4>2
    <3>4. IsFiniteSet(Units(t \ {x}, f))
      BY <3>2, <3>3
    <3> QED
      BY <2>2, <3>1, <3>4, UnitsStep
  <2> QED
    BY <2>3, <2>4
<1> QED
  BY <1>1, <1>2

\* A sum is the number of its units.
LEMMA SumCounts ==
    ASSUME NEW S, IsFiniteSet(S), NEW f \in [S -> Nat]
    PROVE  /\ SumFunction(f) = Cardinality(Units(S, f))
           /\ IsFiniteSet(Units(S, f)) /\ SumFunction(f) \in Nat
<1> DEFINE Step(t, s) == IF s = {} THEN 0
                         ELSE LET x == CHOOSE x \in s : TRUE IN f[x] + t[s \ {x}]
           g == [s \in SUBSET S |-> Cardinality(Units(s, f))]
           h == CHOOSE t : t = [s \in SUBSET S |-> Step(t, s)]
<1>1. \A s \in SUBSET S : IsFiniteSet(Units(s, f)) /\ Cardinality(Units(s, f)) \in Nat
  BY UnitsFinite, FS_CardinalityType
<1>2. ASSUME NEW s \in SUBSET S PROVE g[s] = Step(g, s)
  <2>1. CASE s = {}
    <3>1. Units(s, f) = {}
      BY <2>1 DEF Units
    <3> QED
      BY <2>1, <3>1, FS_EmptySet
  <2>2. CASE s # {}
    <3> DEFINE x == CHOOSE x \in s : TRUE
    <3>1. x \in s
      BY <2>2
    <3> HIDE DEF x
    <3>2. s \ {x} \in SUBSET S /\ IsFiniteSet(Units(s \ {x}, f))
      BY <1>1
    <3>3. g[s] = f[x] + g[s \ {x}]
      BY <3>1, <3>2, UnitsStep
    <3> HIDE DEF g
    <3> QED
      BY <2>2, <3>3 DEF x
  <2> QED
    BY <2>1, <2>2
<1>3. g = [s \in SUBSET S |-> Step(g, s)]
  <2> HIDE DEF Step
  <2> QED
    BY <1>2
<1>4. h = [s \in SUBSET S |-> Step(h, s)]
  <2> HIDE DEF Step, g
  <2> QED
    BY <1>3
<1>5. SumFunction(f) = h[S]
  <2>1. DOMAIN f = S
    OBVIOUS
  <2> QED
    BY <2>1, Zenon DEF SumFunction, SumFunctionOnSet, FoldFunctionOnSet, MapThenFoldSet, h, Step
<1>6. \A s \in SUBSET S : h[s] = g[s]
  <2> DEFINE Bad == {s \in SUBSET S : h[s] # g[s]}
             T == {n \in Nat : \E t \in Bad : Cardinality(t) = n}
  <2>1. \A t \in SUBSET S : IsFiniteSet(t) /\ Cardinality(t) \in Nat
    BY FS_Subset, FS_CardinalityType
  <2>2. T = {}
    <3> SUFFICES ASSUME T # {} PROVE FALSE
      OBVIOUS
    <3>1. PICK n \in T : \A m \in T : n <= m
      <4>1. T \in SUBSET Nat
        OBVIOUS
      <4> HIDE DEF T
      <4> QED
        BY <4>1, LeastNumber
    <3>2. PICK t \in Bad : Cardinality(t) = n
      BY <3>1
    <3> HIDE DEF g, h
    <3>3. h[t] = Step(h, t) /\ g[t] = Step(g, t)
      <4> HIDE DEF Step
      <4> QED
        BY <1>3, <1>4
    <3>4. t # {}
      BY <3>2, <3>3
    <3> DEFINE x == CHOOSE x \in t : TRUE
    <3>5. x \in t
      BY <3>4
    <3>6. h[t] = f[x] + h[t \ {x}] /\ g[t] = f[x] + g[t \ {x}]
      BY <3>3, <3>4
    <3> HIDE DEF x
    <3>7. Cardinality(t \ {x}) = n - 1 /\ t \ {x} \in SUBSET S
      BY <2>1, <3>2, <3>5, FS_RemoveElement
    <3>8. t \ {x} \notin Bad
      <4>1. n - 1 \notin T
        BY <3>1
      <4>2. Cardinality(t \ {x}) \in Nat
        BY <2>1, <3>7
      <4> QED
        BY <3>7, <4>1, <4>2
    <3> QED
      BY <3>2, <3>6, <3>7, <3>8
  <2> QED
    BY <2>1, <2>2
<1>7. SumFunction(f) = Cardinality(Units(S, f))
  <2>1. S \in SUBSET S
    OBVIOUS
  <2>2. g[S] = Cardinality(Units(S, f))
    OBVIOUS
  <2> HIDE DEF g, h
  <2> QED
    BY <1>5, <1>6, <2>1, <2>2
<1> QED
  BY <1>1, <1>7


\* No number exceeds the sum.
LEMMA SumBounds ==
    ASSUME NEW S, IsFiniteSet(S), NEW f \in [S -> Nat], NEW x \in S
    PROVE  f[x] <= SumFunction(f)
<1>1. f[x] \in Nat
  OBVIOUS
<1>2. {x} \X (1 .. f[x]) \in SUBSET Units(S, f)
  BY <1>1 DEF Units
<1>3. Cardinality({x} \X (1 .. f[x])) = f[x]
  BY <1>1, Column
<1>4. IsFiniteSet(Units(S, f)) /\ SumFunction(f) = Cardinality(Units(S, f))
  BY SumCounts
<1> QED
  BY <1>2, <1>3, <1>4, FS_Subset

UpTo(f, v) == {x \in DOMAIN f : f[x] <= v}
Below(f, v) == {x \in DOMAIN f : f[x] < v}

\* At every position there is a value.
LEMMA ValueAt ==
    ASSUME NEW S, IsFiniteSet(S), NEW f \in [S -> Nat], NEW k \in 1 .. Cardinality(S)
    PROVE  \E v \in Range(f) : Cardinality(Below(f, v)) < k /\ k <= Cardinality(UpTo(f, v))
<1> DEFINE T == {v \in Nat : k <= Cardinality(UpTo(f, v))}
           M == SumFunction(f)
<1>1. M \in Nat /\ \A x \in S : f[x] <= M
  BY SumCounts, SumBounds
<1>2. UpTo(f, M) = S
  BY <1>1 DEF UpTo
<1>3. M \in T
  <2>1. Cardinality(S) \in Nat
    BY FS_CardinalityType
  <2> QED
    BY <1>1, <1>2, <2>1
<1>4. PICK v \in T : \A w \in T : v <= w
  <2>1. T \in SUBSET Nat /\ T # {}
    BY <1>3
  <2> HIDE DEF T
  <2> QED
    BY <2>1, LeastNumber
<1>5. Cardinality(Below(f, v)) < k
  <2>1. CASE v = 0
    <3>1. Below(f, v) = {}
      BY <2>1 DEF Below
    <3> QED
      BY <3>1, FS_EmptySet
  <2>2. CASE v # 0
    <3>1. Below(f, v) = UpTo(f, v - 1)
      BY <1>4, <2>2 DEF Below, UpTo
    <3>2. v - 1 \in Nat /\ v - 1 \notin T
      BY <1>4, <2>2
    <3>3. UpTo(f, v - 1) \in SUBSET S
      BY DEF UpTo
    <3>4. Cardinality(UpTo(f, v - 1)) \in Nat
      BY <3>3, FS_Subset, FS_CardinalityType
    <3> QED
      BY <3>1, <3>2, <3>4
  <2> QED
    BY <2>1, <2>2
<1>6. v \in Range(f)
  <2> SUFFICES ASSUME v \notin Range(f) PROVE FALSE
    OBVIOUS
  <2>1. Below(f, v) = UpTo(f, v)
    BY <1>4 DEF Below, UpTo, Range
  <2>2. UpTo(f, v) \in SUBSET S
    BY DEF UpTo
  <2>3. Cardinality(UpTo(f, v)) \in Nat
    BY <2>2, FS_Subset, FS_CardinalityType
  <2> QED
    BY <1>4, <1>5, <2>1, <2>3
<1> QED
  BY <1>4, <1>5, <1>6

\* What is at a position of the sorted samples.
LEMMA SortedFacts ==
    ASSUME NEW S, IsFiniteSet(S), NEW f \in [S -> Nat]
    PROVE  /\ Sorted(f) \in Seq(Nat) /\ Len(Sorted(f)) = Cardinality(S)
           /\ \A k \in 1 .. Cardinality(S) :
                 /\ Sorted(f)[k] \in Range(f)
                 /\ Cardinality(Below(f, Sorted(f)[k])) < k
                 /\ k <= Cardinality(UpTo(f, Sorted(f)[k]))
<1> DEFINE n == Cardinality(S)
           s == Sorted(f)
           P(v, k) == Cardinality(Below(f, v)) < k /\ k <= Cardinality(UpTo(f, v))
<1>1. n \in Nat /\ DOMAIN f = S
  BY FS_CardinalityType
<1>2. s = [k \in 1 .. n |-> CHOOSE v \in Range(f) : P(v, k)]
  BY <1>1 DEF Sorted, Below, UpTo
<1>3. ASSUME NEW k \in 1 .. n PROVE s[k] \in Range(f) /\ P(s[k], k)
  <2>1. \E v \in Range(f) : P(v, k)
    BY ValueAt
  <2>2. s[k] = CHOOSE v \in Range(f) : P(v, k)
    BY <1>2
  <2> HIDE DEF P, s
  <2> QED
    BY <2>1, <2>2
<1>4. Range(f) \subseteq Nat
  BY DEF Range
<1>5. s \in Seq(Nat) /\ Len(s) = n
  <2> HIDE DEF P
  <2>1. s = [k \in 1 .. n |-> s[k]]
    BY <1>2
  <2>2. \A k \in 1 .. n : s[k] \in Nat
    BY <1>3, <1>4
  <2> HIDE DEF s
  <2> QED
    BY <1>1, <2>1, <2>2
<1> QED
  BY <1>3, <1>5

\* percentile returns the least sample that covers its share.
LEMMA PercentileCovers ==
    ASSUME NEW S, IsFiniteSet(S), S # {}, NEW f \in [S -> Nat], NEW p \in {50, 95}
    PROVE  Percentile(Sorted(f), p) = LeastCovering(f, p)
<1> DEFINE n == Cardinality(S)
           s == Sorted(f)
           rank == (p * n + 99) \div 100
           C == {v \in Range(f) : 100 * Cardinality(UpTo(f, v)) >= p * Cardinality(DOMAIN f)}
<1>1. n \in Nat \ {0}
  BY FS_CardinalityType, FS_EmptySet
<1>2. rank \in 1 .. n /\ 100 * rank >= p * n /\ 100 * (rank - 1) < p * n
  <2>1. CASE p = 50
    BY <1>1, <2>1
  <2>2. CASE p = 95
    BY <1>1, <2>2
  <2> QED
    BY <2>1, <2>2
<1>3. s \in Seq(Nat) /\ Len(s) = n /\ s # <<>>
  BY <1>1, SortedFacts
<1>4. Percentile(s, p) = s[rank]
  <2> HIDE DEF s
  <2>1. Percentile(s, p) = s[Min({Max({rank, 1}), n})]
    BY <1>3 DEF Percentile
  <2>2. rank \in Int /\ n \in Int /\ rank >= 1 /\ rank <= n
    BY <1>1, <1>2
  <2> HIDE DEF rank, n
  <2>3. Max({rank, 1}) = rank
    <3>1. {rank, 1} \in SUBSET Int /\ rank \in {rank, 1} /\ \A y \in {rank, 1} : rank >= y
      BY <2>2
    <3> QED
      BY <3>1, MaxIs
  <2>4. Min({rank, n}) = rank
    <3>1. {rank, n} \in SUBSET Int /\ rank \in {rank, n} /\ \A y \in {rank, n} : rank <= y
      BY <2>2
    <3> QED
      BY <3>1, MinIs
  <2> QED
    BY <2>1, <2>3, <2>4
<1> DEFINE v == s[rank]
<1>5. v \in Range(f) /\ Cardinality(Below(f, v)) < rank /\ rank <= Cardinality(UpTo(f, v))
  BY <1>2, SortedFacts
<1>6. Range(f) \subseteq Nat /\ DOMAIN f = S
  BY DEF Range
<1> HIDE DEF rank, s, n
<1>7. ASSUME NEW w
      PROVE  /\ Cardinality(UpTo(f, w)) \in Nat /\ Cardinality(Below(f, w)) \in Nat
             /\ IsFiniteSet(Below(f, w))
  <2>1. UpTo(f, w) \in SUBSET S /\ Below(f, w) \in SUBSET S
    BY DEF UpTo, Below
  <2> QED
    BY <2>1, FS_Subset, FS_CardinalityType
<1>8. v \in C
  <2>1. 100 * Cardinality(UpTo(f, v)) >= p * n
    BY <1>1, <1>2, <1>5, <1>7
  <2> QED
    BY <1>5, <1>6, <2>1 DEF n
<1>9. ASSUME NEW w \in C PROVE v <= w
  <2> SUFFICES ASSUME w < v PROVE FALSE
    BY <1>5, <1>6
  <2>1. UpTo(f, w) \in SUBSET Below(f, v)
    BY <1>5, <1>6 DEF UpTo, Below
  <2>2. Cardinality(UpTo(f, w)) <= Cardinality(Below(f, v))
    BY <1>7, <2>1, FS_Subset
  <2>3. 100 * Cardinality(UpTo(f, w)) >= p * n
    BY <1>6 DEF n
  <2>4. Cardinality(UpTo(f, w)) <= rank - 1
    BY <1>2, <1>5, <1>7, <2>2
  <2> QED
    BY <1>1, <1>2, <1>7, <2>3, <2>4
<1>10. LeastCovering(f, p) = Min(C)
  BY DEF LeastCovering, UpTo
<1>11. C \in SUBSET Int
  BY <1>6
<1> HIDE DEF C, v
<1>12. Min(C) = v
  BY <1>8, <1>9, <1>11, MinIs
<1> QED
  BY <1>4, <1>10, <1>12 DEF v, s

-----------------------------------------------------------------------------
(***************************************************************************)
(* The figures of one pass.                                                *)
(***************************************************************************)

\* The labels that are hits among the first k, and the reciprocal ranks.
HitsOf(set, pass, k) == {l \in set : Hit(Keys(RankedFor(l, pass)), l.expected, k)}
RanksOf(set, pass) ==
    [l \in set |-> ReciprocalRank(Keys(RankedFor(l, pass)), l.expected)]

\* Labels that can be asked for.
Askable(set) == IsFiniteSet(set) /\ \A l \in set : l.query \in DOMAIN world.time

\* A search of a pass answers with a list of at most ten results.
LEMMA TenResults ==
    ASSUME world \in Worlds, NEW query \in DOMAIN world.time, NEW a \in Passes
    PROVE  LET results == world.ranking[<<query, a>>]
           IN  results \in Seq(Range(results)) /\ Len(results) <= 10
<1> DEFINE q == <<query, a>>
           results == world.ranking[q]
<1>1. q \in (DOMAIN world.time) \X (Passes \union {"bytes"})
  OBVIOUS
<1>2. q[2] # "bytes"
  BY DEF Passes, Ablations
<1> HIDE DEF q
<1>3. results \in Seq(Range(results)) /\ Len(results) <= 10
  BY <1>1, <1>2, EvalAssumption
<1> QED
  BY <1>3 DEF q

\* A reciprocal rank is at most one, is one for a hit in the first place, and is
\* zero only without a hit among the results.
LEMMA RankFacts ==
    ASSUME world \in Worlds, NEW l, l.query \in DOMAIN world.time, NEW a \in Passes
    PROVE  LET ranked == Keys(RankedFor(l, a))
               rr == ReciprocalRank(ranked, l.expected)
           IN  /\ rr \in 0 .. One
               /\ Hit(ranked, l.expected, 1) => rr = One
               /\ rr # 0 => Hit(ranked, l.expected, 10)
<1> DEFINE q == <<l.query, a>>
           results == world.ranking[q]
           ranked == Keys(RankedFor(l, a))
           hit == {i \in DOMAIN ranked : ranked[i] \in l.expected}
           rr == ReciprocalRank(ranked, l.expected)
<1>1. results \in Seq(Range(results)) /\ Len(results) <= 10
  BY TenResults
<1>2. DOMAIN ranked \subseteq 1 .. 10
  <2>1. RankedFor(l, a) = results
    BY DEF RankedFor
  <2> HIDE DEF results
  <2>2. DOMAIN results \subseteq 1 .. 10
    BY <1>1
  <2> QED
    BY <2>1, <2>2 DEF Keys
<1> HIDE DEF ranked
<1>3. CASE hit = {}
  <2>1. rr = 0
    BY <1>3 DEF ReciprocalRank
  <2>2. ~Hit(ranked, l.expected, 1)
    BY <1>3 DEF Hit
  <2> QED
    BY <2>1, <2>2 DEF One, ranked
<1>4. CASE hit # {}
  <2>1. hit \in SUBSET Nat
    BY <1>2
  <2>2. PICK m \in hit : \A i \in hit : m <= i
    <3> HIDE DEF hit
    <3> QED
      BY <1>4, <2>1, LeastNumber
  <2>3. Min(hit) = m
    <3>1. hit \in SUBSET Int
      BY <2>1
    <3> HIDE DEF hit
    <3> QED
      BY <2>2, <3>1, MinIs
  <2>4. rr = One \div m
    BY <1>4, <2>3 DEF ReciprocalRank
  <2>5. m \in 1 .. 10 /\ m \in DOMAIN ranked /\ ranked[m] \in l.expected
    BY <1>2, <2>2
  <2>6. m \in {1, 2, 3, 4, 5, 6, 7, 8, 9, 10}
    BY <2>5
  <2>7. One \div m \in 0 .. One /\ (m = 1 => One \div m = One)
    BY <2>6 DEF One
  <2>8. Hit(ranked, l.expected, 10)
    BY <2>5 DEF Hit
  <2>9. Hit(ranked, l.expected, 1) => m = 1
    <3> SUFFICES ASSUME Hit(ranked, l.expected, 1) PROVE m = 1
      OBVIOUS
    <3>1. PICK i \in DOMAIN ranked : i <= 1 /\ ranked[i] \in l.expected
      BY DEF Hit
    <3>2. i \in hit /\ i \in 1 .. 10
      BY <1>2, <3>1
    <3> QED
      BY <2>2, <2>5, <3>1, <3>2
  <2> HIDE DEF rr
  <2> QED
    BY <2>4, <2>7, <2>8, <2>9 DEF rr, ranked
<1> QED
  BY <1>3, <1>4

\* The figures as sizes of sets and as sums.
LEMMA Figures ==
    ASSUME NEW set, NEW a, NEW d
    PROVE  LET s == RunAblation(a, set, d)
           IN  /\ s.labels_scored = Cardinality(set) /\ s.labels_discarded = d
               /\ s.top_1 = Cardinality(HitsOf(set, a, 1))
               /\ s.top_3 = Cardinality(HitsOf(set, a, 3))
               /\ s.top_10 = Cardinality(HitsOf(set, a, 10))
               /\ s.mrr = SumFunction(RanksOf(set, a))
               /\ s.p50 = Percentile(Sorted(Latencies(set)), 50)
               /\ s.p95 = Percentile(Sorted(Latencies(set)), 95)
  BY DEF RunAblation, HitsOf, RanksOf

\* A wider cutoff has the hits of a narrower one.
LEMMA HitsGrow ==
    ASSUME NEW set, IsFiniteSet(set), NEW a, NEW k \in Nat, NEW m \in Nat, k <= m,
           world \in Worlds, \A l \in set : l.query \in DOMAIN world.time, a \in Passes
    PROVE  /\ IsFiniteSet(HitsOf(set, a, m)) /\ Cardinality(HitsOf(set, a, m)) \in Nat
           /\ Cardinality(HitsOf(set, a, m)) <= Cardinality(set)
           /\ Cardinality(HitsOf(set, a, k)) <= Cardinality(HitsOf(set, a, m))
<1>1. HitsOf(set, a, m) \in SUBSET set
  BY DEF HitsOf
<1>2. HitsOf(set, a, k) \in SUBSET HitsOf(set, a, m)
  <2> SUFFICES ASSUME NEW l \in HitsOf(set, a, k) PROVE l \in HitsOf(set, a, m)
    OBVIOUS
  <2> DEFINE ranked == Keys(RankedFor(l, a))
             q == <<l.query, a>>
             results == world.ranking[q]
  <2>1. l \in set /\ Hit(ranked, l.expected, k)
    BY DEF HitsOf
  <2>2. DOMAIN ranked \subseteq Nat
    <3>1. l.query \in DOMAIN world.time
      BY <2>1
    <3>2. results \in Seq(Range(results))
      BY <3>1, TenResults
    <3> HIDE DEF q
    <3>3. DOMAIN results \subseteq Nat
      <4> HIDE DEF results
      <4> QED
        BY <3>2
    <3> QED
      BY <3>3 DEF Keys, RankedFor, q
  <2> HIDE DEF ranked
  <2>3. Hit(ranked, l.expected, m)
    BY <2>1, <2>2 DEF Hit
  <2> QED
    BY <2>1, <2>3 DEF HitsOf, ranked
<1> QED
  BY <1>1, <1>2, FS_Subset, FS_CardinalityType


\* The unit of reciprocal ranks is a positive number.
LEMMA OneType == One \in Nat /\ One > 0 /\ One \in Int
  BY DEF One

\* The units of a set of hits in the first place, or of any set of hits: One for
\* each of its labels.
LEMMA Block ==
    ASSUME NEW H, IsFiniteSet(H)
    PROVE  /\ IsFiniteSet(H \X (1 .. One))
           /\ Cardinality(H \X (1 .. One)) = One * Cardinality(H)
<1>1. IsFiniteSet(1 .. One) /\ Cardinality(1 .. One) = One
  BY OneType, FS_Interval
<1>2. Cardinality(H) \in Nat
  BY FS_CardinalityType
<1>3. /\ IsFiniteSet(H \X (1 .. One))
      /\ Cardinality(H \X (1 .. One)) = Cardinality(H) * Cardinality(1 .. One)
  BY <1>1, FS_Product
<1> QED
  BY <1>1, <1>2, <1>3, OneType

\* The reciprocal ranks are numbers.
LEMMA RanksType ==
    ASSUME world \in Worlds, NEW set, Askable(set), NEW a \in Passes
    PROVE  RanksOf(set, a) \in [set -> Nat]
<1>1. ASSUME NEW l \in set
      PROVE  ReciprocalRank(Keys(RankedFor(l, a)), l.expected) \in Nat
  <2>1. l.query \in DOMAIN world.time
    BY DEF Askable
  <2>2. ReciprocalRank(Keys(RankedFor(l, a)), l.expected) \in 0 .. One
    BY <2>1, RankFacts
  <2> QED
    BY <2>2, OneType
<1> QED
  BY <1>1 DEF RanksOf

\* The sum of the reciprocal ranks lies between the hits in the first place and
\* the hits anywhere.
LEMMA RankSumBounds ==
    ASSUME world \in Worlds, NEW set, Askable(set), NEW a \in Passes
    PROVE  /\ One * Cardinality(HitsOf(set, a, 1)) <= SumFunction(RanksOf(set, a))
           /\ SumFunction(RanksOf(set, a)) <= One * Cardinality(HitsOf(set, a, 10))
<1> DEFINE f == RanksOf(set, a)
           U == Units(set, f)
           A == HitsOf(set, a, 1) \X (1 .. One)
           B == HitsOf(set, a, 10) \X (1 .. One)
<1>1. IsFiniteSet(set)
  BY DEF Askable
<1>2. SumFunction(f) = Cardinality(U) /\ IsFiniteSet(U)
  BY <1>1, RanksType, SumCounts
<1>3. /\ IsFiniteSet(HitsOf(set, a, 1)) /\ IsFiniteSet(HitsOf(set, a, 10))
      /\ HitsOf(set, a, 1) \subseteq set
  <2>1. HitsOf(set, a, 1) \in SUBSET set /\ HitsOf(set, a, 10) \in SUBSET set
    BY DEF HitsOf
  <2> QED
    BY <1>1, <2>1, FS_Subset
<1>4. /\ Cardinality(A) = One * Cardinality(HitsOf(set, a, 1))
      /\ IsFiniteSet(B) /\ Cardinality(B) = One * Cardinality(HitsOf(set, a, 10))
  BY <1>3, Block
<1>5. ASSUME NEW l \in set
      PROVE  /\ f[l] \in 0 .. One
             /\ l \in HitsOf(set, a, 1) => f[l] = One
             /\ f[l] # 0 => l \in HitsOf(set, a, 10)
  <2>1. f[l] = ReciprocalRank(Keys(RankedFor(l, a)), l.expected)
    BY DEF RanksOf
  <2>2. l.query \in DOMAIN world.time
    BY DEF Askable
  <2> HIDE DEF f
  <2> QED
    BY <2>1, <2>2, RankFacts DEF HitsOf
<1> HIDE DEF f
<1>6. A \in SUBSET U
  <2> SUFFICES ASSUME NEW l \in HitsOf(set, a, 1), NEW k \in 1 .. One
               PROVE  <<l, k>> \in U
    OBVIOUS
  <2>1. l \in set /\ f[l] = One /\ k \in Nat
    BY <1>3, <1>5
  <2> QED
    BY <2>1 DEF Units
<1>7. U \in SUBSET B
  <2> SUFFICES ASSUME NEW l \in set, NEW k \in Nat, k \in 1 .. f[l]
               PROVE  <<l, k>> \in B
    BY DEF Units
  <2>1. f[l] \in 0 .. One /\ f[l] # 0
    BY <1>5, OneType
  <2>2. l \in HitsOf(set, a, 10) /\ k \in 1 .. One
    BY <1>5, <2>1, OneType
  <2> QED
    BY <2>2
<1> HIDE DEF A, B, U
<1>8. Cardinality(A) <= Cardinality(U) /\ Cardinality(U) <= Cardinality(B)
  BY <1>2, <1>4, <1>6, <1>7, FS_Subset
<1> QED
  BY <1>2, <1>4, <1>8 DEF f

Counted == {"labels_scored", "top_1", "top_3", "top_10", "mrr"}

\* No labels, no figures.
LEMMA NoFigures ==
    ASSUME NEW a, NEW d, NEW f \in Counted
    PROVE  RunAblation(a, {}, d)[f] = 0
<1> DEFINE s == RunAblation(a, {}, d)
<1>1. /\ s.labels_scored = Cardinality({})
      /\ s.top_1 = Cardinality(HitsOf({}, a, 1))
      /\ s.top_3 = Cardinality(HitsOf({}, a, 3))
      /\ s.top_10 = Cardinality(HitsOf({}, a, 10))
      /\ s.mrr = SumFunction(RanksOf({}, a))
  BY Figures
<1>2. Cardinality({}) = 0 /\ IsFiniteSet({}) /\ \A k : HitsOf({}, a, k) = {}
  BY FS_EmptySet DEF HitsOf
<1>3. SumFunction(RanksOf({}, a)) = 0
  <2>1. RanksOf({}, a) \in [{} -> Nat]
    BY DEF RanksOf
  <2>2. Units({}, RanksOf({}, a)) = {}
    BY DEF Units
  <2> QED
    BY <1>2, <2>1, <2>2, SumCounts
<1> HIDE DEF s
<1>4. s.labels_scored = 0 /\ s.top_1 = 0 /\ s.top_3 = 0 /\ s.top_10 = 0 /\ s.mrr = 0
  BY <1>1, <1>2, <1>3
<1> QED
  BY <1>4 DEF s, Counted

\* The figures of two sets of labels without a common one add up.
LEMMA FiguresAdd ==
    ASSUME world \in Worlds, NEW A, NEW B, Askable(A), Askable(B), A \intersect B = {},
           NEW a \in Passes, NEW d, NEW f \in Counted
    PROVE  RunAblation(a, A \union B, d)[f] = RunAblation(a, A, d)[f] + RunAblation(a, B, d)[f]
<1> DEFINE W == A \union B
           s(set) == RunAblation(a, set, d)
<1>1. IsFiniteSet(A) /\ IsFiniteSet(B)
  BY DEF Askable
<1>2. /\ IsFiniteSet(W) /\ Cardinality(W) = Cardinality(A) + Cardinality(B)
      /\ Cardinality(A) \in Nat /\ Cardinality(B) \in Nat
  BY <1>1, Disjoint
<1>3. Askable(W)
  BY <1>2 DEF Askable
<1>4. ASSUME NEW k \in Nat
      PROVE  /\ Cardinality(HitsOf(W, a, k)) =
                    Cardinality(HitsOf(A, a, k)) + Cardinality(HitsOf(B, a, k))
             /\ Cardinality(HitsOf(A, a, k)) \in Nat /\ Cardinality(HitsOf(B, a, k)) \in Nat
  <2>1. /\ HitsOf(A, a, k) \in SUBSET A /\ HitsOf(B, a, k) \in SUBSET B
        /\ HitsOf(W, a, k) = HitsOf(A, a, k) \union HitsOf(B, a, k)
        /\ HitsOf(A, a, k) \intersect HitsOf(B, a, k) = {}
    BY DEF HitsOf
  <2>2. IsFiniteSet(HitsOf(A, a, k)) /\ IsFiniteSet(HitsOf(B, a, k))
    BY <1>1, <2>1, FS_Subset
  <2> QED
    BY <2>1, <2>2, Disjoint
<1>5. /\ SumFunction(RanksOf(W, a)) = SumFunction(RanksOf(A, a)) + SumFunction(RanksOf(B, a))
      /\ SumFunction(RanksOf(A, a)) \in Nat /\ SumFunction(RanksOf(B, a)) \in Nat
  <2> DEFINE U == Units(A, RanksOf(A, a))
             V == Units(B, RanksOf(B, a))
  <2>1. /\ SumFunction(RanksOf(A, a)) = Cardinality(U) /\ IsFiniteSet(U)
        /\ SumFunction(RanksOf(B, a)) = Cardinality(V) /\ IsFiniteSet(V)
        /\ SumFunction(RanksOf(W, a)) = Cardinality(Units(W, RanksOf(W, a)))
    BY <1>1, <1>2, <1>3, RanksType, SumCounts
  <2>2. /\ \A l \in A : RanksOf(W, a)[l] = RanksOf(A, a)[l]
        /\ \A l \in B : RanksOf(W, a)[l] = RanksOf(B, a)[l]
    BY DEF RanksOf
  <2>3. Units(W, RanksOf(W, a)) = U \union V /\ U \intersect V = {}
    BY <2>2 DEF Units
  <2> HIDE DEF U, V
  <2>4. Cardinality(U \union V) = Cardinality(U) + Cardinality(V)
        /\ Cardinality(U) \in Nat /\ Cardinality(V) \in Nat
    BY <2>1, <2>3, Disjoint
  <2> QED
    BY <2>1, <2>3, <2>4
<1>6. ASSUME NEW set
      PROVE  /\ s(set).labels_scored = Cardinality(set)
             /\ s(set).top_1 = Cardinality(HitsOf(set, a, 1))
             /\ s(set).top_3 = Cardinality(HitsOf(set, a, 3))
             /\ s(set).top_10 = Cardinality(HitsOf(set, a, 10))
             /\ s(set).mrr = SumFunction(RanksOf(set, a))
  BY Figures
<1> HIDE DEF s, W
<1>7. \A g \in Counted : s(W)[g] = s(A)[g] + s(B)[g] /\ s(A)[g] \in Nat /\ s(B)[g] \in Nat
  <2> SUFFICES ASSUME NEW g \in Counted
               PROVE  s(W)[g] = s(A)[g] + s(B)[g] /\ s(A)[g] \in Nat /\ s(B)[g] \in Nat
    OBVIOUS
  <2>1. CASE g = "labels_scored"
    BY <1>2, <1>6, <2>1
  <2>2. CASE g = "top_1"
    BY <1>4, <1>6, <2>2
  <2>3. CASE g = "top_3"
    BY <1>4, <1>6, <2>3
  <2>4. CASE g = "top_10"
    BY <1>4, <1>6, <2>4
  <2>5. CASE g = "mrr"
    BY <1>5, <1>6, <2>5
  <2> QED
    BY <2>1, <2>2, <2>3, <2>4, <2>5 DEF Counted
<1> QED
  BY <1>7 DEF s, W

\* The same of a set that is known to fall into two parts.
LEMMA PartsAdd ==
    ASSUME world \in Worlds, NEW A, NEW B, Askable(A), Askable(B), A \intersect B = {},
           NEW W, W = A \union B, NEW a \in Passes, NEW d, NEW f \in Counted
    PROVE  RunAblation(a, W, d)[f] = RunAblation(a, A, d)[f] + RunAblation(a, B, d)[f]
  BY FiguresAdd


\* What is read up to the first hit is a number.
LEMMA BytesType ==
    ASSUME NEW sizes \in Seq(Nat), NEW hits \in SUBSET (1 .. Len(sizes))
    PROVE  BytesToFirst(sizes, hits) \in Nat
<1> DEFINE end == IF hits = {} THEN Len(sizes) ELSE Min(hits)
           f == [i \in 1 .. end |-> sizes[i]]
<1>1. end \in 0 .. Len(sizes)
  <2>1. CASE hits = {}
    BY <2>1
  <2>2. CASE hits # {}
    <3>1. hits \in SUBSET Nat /\ hits \in SUBSET Int
      OBVIOUS
    <3>2. PICK m \in hits : \A y \in hits : m <= y
      BY <2>2, <3>1, LeastNumber
    <3>3. Min(hits) = m
      BY <3>1, <3>2, MinIs
    <3> QED
      BY <2>2, <3>2, <3>3
  <2> QED
    BY <2>1, <2>2
<1> HIDE DEF end
<1>2. f \in [1 .. end -> Nat]
  BY <1>1
<1>3. IsFiniteSet(1 .. end)
  BY <1>1, FS_Interval
<1> HIDE DEF f
<1>4. SumFunction(f) \in Nat
  BY <1>2, <1>3, SumCounts
<1> QED
  BY <1>4 DEF BytesToFirst, f, end

\* So are the bytes of a label, either way.
LEMMA BytesOfLabel ==
    ASSUME world \in Worlds, NEW l, l.query \in DOMAIN world.time
    PROVE  McpBytes(l) \in Nat /\ BaselineBytes(l) \in Nat
<1>1. McpBytes(l) \in Nat
  <2> DEFINE q == <<l.query, "bytes">>
             results == world.ranking[q]
             sizes == [i \in DOMAIN results |-> results[i].size]
             hits == {i \in DOMAIN results : results[i].key \in l.expected}
  <2>1. results \in Seq(Range(results)) /\ \A i \in DOMAIN results : results[i].size \in Nat
    <3>1. q \in (DOMAIN world.time) \X (Passes \union {"bytes"})
      OBVIOUS
    <3> HIDE DEF q
    <3> QED
      BY <3>1, EvalAssumption
  <2>2. RankedFor(l, "bytes") = results
    BY DEF RankedFor
  <2> HIDE DEF results
  <2>3. DOMAIN results = 1 .. Len(results) /\ Len(results) \in Nat
    BY <2>1
  <2>4. sizes \in Seq(Nat) /\ Len(sizes) = Len(results)
    BY <2>1, <2>3
  <2>5. hits \in SUBSET (1 .. Len(sizes))
    BY <2>3, <2>4
  <2>6. McpBytes(l) = BytesToFirst(sizes, hits)
    BY <2>2 DEF McpBytes
  <2> HIDE DEF sizes, hits
  <2> QED
    BY <2>4, <2>5, <2>6, BytesType
<1>2. BaselineBytes(l) \in Nat
  <2> DEFINE files == world.matches
             file == CHOOSE f \in {k[1] : k \in l.expected} : \A k \in l.expected : f <= k[1]
             sizes == [i \in DOMAIN files |-> files[i].size]
             hits == {i \in DOMAIN files : files[i].file = file}
  <2>1. files \in Seq(Range(files)) /\ \A i \in DOMAIN files : files[i].size \in Nat
    BY EvalAssumption
  <2>2. BaselineBytes(l) = BytesToFirst(sizes, hits)
    BY DEF BaselineBytes
  <2> HIDE DEF files, file
  <2>3. DOMAIN files = 1 .. Len(files) /\ Len(files) \in Nat
    BY <2>1
  <2>4. sizes \in Seq(Nat) /\ Len(sizes) = Len(files)
    BY <2>1, <2>3
  <2>5. hits \in SUBSET (1 .. Len(sizes))
    BY <2>3, <2>4
  <2> HIDE DEF sizes, hits
  <2> QED
    BY <2>2, <2>4, <2>5, BytesType
<1> QED
  BY <1>1, <1>2
-----------------------------------------------------------------------------
(***************************************************************************)
(* The figures of an evaluation.                                           *)
(***************************************************************************)

\* The first n jobs are done: all of them but breakdowns without labels.
Jobs(n) == {Plan[k] : k \in {i \in 1 .. n : Plan[i].by = "ablation" \/ Of(Plan[i]) # {}}}
Computed(n) ==
    /\ DOMAIN scores = Jobs(n)
    /\ \A j \in Jobs(n) : scores[j] = RunAblation(PassOf(j), Of(j), Discarded)

\* Labels are finitely many, each asks for something that can be asked for and
\* comes from one of the two miners; the scores are those of the jobs done.
FigureInv ==
    /\ world \in Worlds /\ at \in Nat \ {0}
    /\ Askable(labels)
    /\ \A l \in labels : l.source \in {"CommitSubject", "Docstring"}
    /\ pc \notin {"score", "done", "failed"} => scores = <<>>
    /\ pc \in {"score", "done"} => scored \subseteq labels
    /\ pc = "score" => at - 1 <= 8 /\ Computed(at - 1)
    /\ pc = "done" => Computed(8) /\ bytes = MedianBytes(labels)

\* The eight jobs.
LEMMA PlanFacts ==
    /\ Len(Plan) = 8
    /\ Plan[1] = Job("ablation", "LexicalOnly") /\ Plan[2] = Job("ablation", "DenseOnly")
    /\ Plan[3] = Job("ablation", "Fused")
    /\ Plan[4] = Job("source", "CommitSubject") /\ Plan[5] = Job("source", "Docstring")
    /\ Plan[6] = Job("length", "Short") /\ Plan[7] = Job("length", "Medium")
    /\ Plan[8] = Job("length", "Long")
  BY DEF Plan

\* What a job runs, and on which labels.
LEMMA JobFacts ==
    /\ \A v : Job("ablation", v).by = "ablation" /\ Of(Job("ablation", v)) = scored
    /\ \A v : PassOf(Job("ablation", v)) = v
    /\ \A v : Job("source", v).by = "source" /\ PassOf(Job("source", v)) = "source"
    /\ \A v : Job("length", v).by = "length" /\ PassOf(Job("length", v)) = "length"
    /\ \A v : Of(Job("source", v)) = {l \in scored : l.source = v}
    /\ \A v : Of(Job("length", v)) = {l \in scored : Bucket(l) = v}
<1>1. \A v : Of(Job("ablation", v)) = scored
  BY DEF Of, Job
<1>2. \A v : Of(Job("source", v)) = {l \in scored : l.source = v}
  BY DEF Of, Job
<1>3. \A v : Of(Job("length", v)) = {l \in scored : Bucket(l) = v}
  BY DEF Of, Job
<1> QED
  BY <1>1, <1>2, <1>3 DEF Job, PassOf

\* Every job runs a configuration on some of the labels.
LEMMA JobType ==
    ASSUME NEW k \in 1 .. 8
    PROVE  Of(Plan[k]) \subseteq scored /\ PassOf(Plan[k]) \in Passes
<1>1. Of(Plan[k]) \subseteq scored
  BY DEF Of
<1>2. k \in {1, 2, 3, 4, 5, 6, 7, 8}
  OBVIOUS
<1>3. PassOf(Plan[k]) \in Passes
  BY <1>2, PlanFacts, JobFacts DEF Ablations, Passes
<1> QED
  BY <1>1, <1>3

\* What a job computed satisfies every relation between its own figures.
LEMMA OwnFigures ==
    ASSUME world \in Worlds, NEW set, Askable(set), NEW a \in Passes, NEW d
    PROVE  LET s == RunAblation(a, set, d)
           IN  /\ s.top_1 <= s.top_3 /\ s.top_3 <= s.top_10 /\ s.top_10 <= s.labels_scored
               /\ One * s.top_1 <= s.mrr /\ s.mrr <= One * s.top_10
               /\ s.labels_scored = Cardinality(set) /\ s.labels_discarded = d
               /\ set # {} => /\ s.p50 = LeastCovering(Latencies(set), 50)
                              /\ s.p95 = LeastCovering(Latencies(set), 95)
<1> DEFINE s == RunAblation(a, set, d)
<1>1. /\ s.labels_scored = Cardinality(set) /\ s.labels_discarded = d
      /\ s.top_1 = Cardinality(HitsOf(set, a, 1))
      /\ s.top_3 = Cardinality(HitsOf(set, a, 3))
      /\ s.top_10 = Cardinality(HitsOf(set, a, 10))
      /\ s.mrr = SumFunction(RanksOf(set, a))
      /\ s.p50 = Percentile(Sorted(Latencies(set)), 50)
      /\ s.p95 = Percentile(Sorted(Latencies(set)), 95)
  BY Figures
<1> HIDE DEF s
<1>2. IsFiniteSet(set) /\ \A l \in set : l.query \in DOMAIN world.time
  BY DEF Askable
<1>3. s.top_1 <= s.top_3 /\ s.top_3 <= s.top_10 /\ s.top_10 <= s.labels_scored
  BY <1>1, <1>2, HitsGrow
<1>4. One * s.top_1 <= s.mrr /\ s.mrr <= One * s.top_10
  BY <1>1, RankSumBounds
<1>5. Latencies(set) \in [set -> Nat]
  <2>1. \A l \in set : world.time[l.query] \in Nat
    BY <1>2, EvalAssumption
  <2> QED
    BY <2>1 DEF Latencies
<1>6. set # {} => /\ s.p50 = LeastCovering(Latencies(set), 50)
                  /\ s.p95 = LeastCovering(Latencies(set), 95)
  BY <1>1, <1>2, <1>5, PercentileCovers
<1> QED
  BY <1>1, <1>3, <1>4, <1>6 DEF s


\* The figures of given labels depend on the world alone.
LEMMA SameFigures ==
    ASSUME world' = world, NEW a, NEW set, NEW d
    PROVE  RunAblation(a, set, d)' = RunAblation(a, set, d)
  BY DEF RunAblation, RankedFor, Latencies

\* What a job selects depends on the labels that can be scored.
LEMMA SameSelection ==
    ASSUME scored' = scored
    PROVE  /\ \A j : Of(j)' = Of(j)
           /\ \A n : Jobs(n)' = Jobs(n)
<1>1. \A j : Of(j)' = Of(j)
  BY DEF Of, Bucket
<1> QED
  BY <1>1 DEF Jobs

\* The scores of a job stay what they are while labels and world do.
LEMMA SameScores ==
    ASSUME world' = world, scored' = scored, labels' = labels, NEW j
    PROVE  RunAblation(PassOf(j), Of(j), Discarded)' =
              RunAblation(PassOf(j), Of(j), Discarded)
<1>1. PICK set, d : set = Of(j) /\ d = Discarded
  OBVIOUS
<1>2. Of(j)' = set /\ Discarded' = d
  BY <1>1, SameSelection DEF Discarded
<1>3. RunAblation(PassOf(j), set, d)' = RunAblation(PassOf(j), set, d)
  BY SameFigures
<1> QED
  BY <1>1, <1>2, <1>3 DEF RunAblation, RankedFor, Latencies


\* A mined label can be asked for and comes from one of the miners.
LEMMA LabelAdded ==
    ASSUME FigureInv, world' = world, NEW l, labels' = labels \union {l},
           l.query \in DOMAIN world.time, l.source \in {"CommitSubject", "Docstring"}
    PROVE  Askable(labels)' /\ \A k \in labels' : k.source \in {"CommitSubject", "Docstring"}
<1>1. /\ IsFiniteSet(labels) /\ \A k \in labels : k.query \in DOMAIN world.time
      /\ \A k \in labels : k.source \in {"CommitSubject", "Docstring"}
  BY DEF FigureInv, Askable
<1>2. IsFiniteSet(labels')
  BY <1>1, FS_AddElement
<1> QED
  BY <1>1, <1>2 DEF Askable

\* Mining keeps the labels askable.
LEMMA MiningFigures ==
    ASSUME FigureInv, \/ CheckRevision \/ ExamineCommit \/ MiningFails \/ CommitsDone \/ MineRow
                      \/ RowsDone \/ MineChunk \/ TreeDone \/ HoldChunk \/ HeldOutDone \/ HoldFails
    PROVE  FigureInv'
<1>1. world \in Worlds /\ at \in Nat \ {0}
  BY DEF FigureInv
<1>2. /\ world' = world /\ at' \in Nat \ {0} /\ scores' = scores
      /\ pc \notin {"score", "done", "failed"} /\ pc' \notin {"score", "done"}
  BY <1>1 DEF CheckRevision, ExamineCommit, MiningFails, CommitsDone, MineRow,
              RowsDone, MineChunk, TreeDone, HoldChunk, HeldOutDone, HoldFails
<1>3. Askable(labels)' /\ \A k \in labels' : k.source \in {"CommitSubject", "Docstring"}
  <2>1. CASE labels' = labels
    BY <1>2, <2>1 DEF FigureInv, Askable
  <2>2. CASE labels' = {}
    BY <2>2, FS_EmptySet DEF Askable
  <2>3. CASE ExamineCommit /\ labels' # labels
    <3> DEFINE commit == world.log[at]
               label == CommitLabel(at, commit)
    <3>1. labels' = labels \union {label} /\ at <= Len(world.log)
      BY <2>3 DEF ExamineCommit, CommitsLeft
    <3>2. world.log \in Seq(Range(world.log))
      BY <1>1, EvalAssumption
    <3>3. at \in DOMAIN world.log
      BY <1>1, <3>1, <3>2
    <3>4. commit.subject \in DOMAIN world.time
      BY <1>1, <3>3, EvalAssumption
    <3>5. label.query \in DOMAIN world.time /\ label.source \in {"CommitSubject", "Docstring"}
      BY <3>4 DEF CommitLabel
    <3> HIDE DEF label
    <3> QED
      BY <1>2, <3>1, <3>5, LabelAdded
  <2>4. CASE MineRow /\ labels' # labels
    <3> DEFINE row == world.rows[at]
               label == DocLabel(row.key, row.doc)
    <3>1. labels' = labels \union {label} /\ at <= Len(world.rows) /\ row.doc # None
      BY <2>4 DEF MineRow
    <3>2. world.rows \in Seq(Range(world.rows))
      BY <1>1, EvalAssumption
    <3>3. at \in DOMAIN world.rows
      BY <1>1, <3>1, <3>2
    <3>4. row.doc \in DOMAIN world.time
      BY <1>1, <3>1, <3>3, EvalAssumption
    <3>5. label.query \in DOMAIN world.time /\ label.source \in {"CommitSubject", "Docstring"}
      BY <3>4 DEF DocLabel
    <3> HIDE DEF label
    <3> QED
      BY <1>2, <3>1, <3>5, LabelAdded
  <2>5. CASE MineChunk /\ labels' # labels
    <3> DEFINE chunk == world.tree[at]
               label == DocLabel(chunk.key, chunk.doc)
    <3>1. labels' = labels \union {label} /\ at <= Len(world.tree) /\ chunk.doc # None
      BY <2>5 DEF MineChunk
    <3>2. world.tree \in Seq(Range(world.tree))
      BY <1>1, EvalAssumption
    <3>3. at \in DOMAIN world.tree
      BY <1>1, <3>1, <3>2
    <3>4. chunk.doc \in DOMAIN world.time
      BY <1>1, <3>1, <3>3, EvalAssumption
    <3>5. label.query \in DOMAIN world.time /\ label.source \in {"CommitSubject", "Docstring"}
      BY <3>4 DEF DocLabel
    <3> HIDE DEF label
    <3> QED
      BY <1>2, <3>1, <3>5, LabelAdded
  <2>6. \/ labels' = labels \/ labels' = {} \/ ExamineCommit \/ MineRow \/ MineChunk
    BY DEF CheckRevision, MiningFails, CommitsDone, RowsDone, TreeDone, HoldChunk,
           HeldOutDone, HoldFails
  <2> QED
    BY <2>1, <2>2, <2>3, <2>4, <2>5, <2>6
<1> QED
  BY <1>1, <1>2, <1>3 DEF FigureInv

\* A job more.
LEMMA JobDone ==
    ASSUME FigureInv, ScoreJob
    PROVE  FigureInv'
<1> DEFINE job == Plan[at]
           made(j) == RunAblation(PassOf(j), Of(j), Discarded)
           wanted == job.by = "ablation" \/ Of(job) # {}
<1>1. /\ pc = "score" /\ pc' = "score" /\ at <= Len(Plan) /\ at' = at + 1
      /\ world' = world /\ labels' = labels /\ scored' = scored
      /\ scores' = IF job.by # "ablation" /\ Of(job) = {} THEN scores
                   ELSE [j \in DOMAIN scores \union {job} |-> IF j = job THEN made(job)
                                                              ELSE scores[j]]
  BY DEF ScoreJob
<1>2. /\ world \in Worlds /\ at \in Nat \ {0} /\ Askable(labels) /\ scored \subseteq labels
      /\ \A l \in labels : l.source \in {"CommitSubject", "Docstring"}
      /\ DOMAIN scores = Jobs(at - 1) /\ \A j \in Jobs(at - 1) : scores[j] = made(j)
  BY <1>1 DEF FigureInv, Computed
<1>3. at \in 1 .. 8 /\ at' - 1 = at /\ at' \in Nat \ {0} /\ at' - 1 <= 8
  <2>1. at \in 1 .. 8 /\ at' = at + 1
    BY <1>1, <1>2, PlanFacts
  <2> HIDE <1>1, <1>2
  <2> QED
    BY <2>1
<1>4. Jobs(at) = Jobs(at - 1) \union (IF wanted THEN {job} ELSE {})
  <2> DEFINE W(i) == Plan[i].by = "ablation" \/ Of(Plan[i]) # {}
  <2>1. \A n : Jobs(n) = {Plan[k] : k \in {i \in 1 .. n : W(i)}}
    BY DEF Jobs
  <2>2. \A i : i \in 1 .. at <=> i \in 1 .. (at - 1) \/ i = at
    BY <1>3
  <2>3. wanted <=> W(at)
    OBVIOUS
  <2> HIDE DEF W, wanted
  <2> QED
    BY <2>1, <2>2, <2>3
<1> HIDE DEF job, made
<1>5. DOMAIN scores' = Jobs(at) /\ \A j \in Jobs(at) : scores'[j] = made(j)
  <2>1. CASE wanted
    <3>1. scores' = [j \in DOMAIN scores \union {job} |-> IF j = job THEN made(job)
                                                         ELSE scores[j]]
      BY <1>1, <2>1
    <3> QED
      BY <1>2, <1>4, <2>1, <3>1
  <2>2. CASE ~wanted
    BY <1>1, <1>2, <1>4, <2>2
  <2> QED
    BY <2>1, <2>2
<1>6. Computed(at - 1)'
  <2>1. PICK n \in Nat : n = at
    BY <1>2
  <2>2. Jobs(n)' = Jobs(n) /\ DOMAIN scores' = Jobs(n)
    BY <1>1, <1>5, <2>1, SameSelection
  <2>3. \A j \in Jobs(n) : scores'[j] = RunAblation(PassOf(j), Of(j), Discarded)'
    BY <1>1, <1>5, <2>1, SameScores DEF made
  <2>4. Computed(n)'
    BY <2>2, <2>3 DEF Computed
  <2>5. at' - 1 = n
    BY <1>3, <2>1
  <2> QED
    BY <2>4, <2>5 DEF Computed, Jobs
<1>7. Askable(labels)'
  BY <1>1, <1>2 DEF Askable
<1>8. at' - 1 <= 8 /\ world' \in Worlds /\ scored' \subseteq labels'
      /\ \A l \in labels' : l.source \in {"CommitSubject", "Docstring"}
  <2>1. at' - 1 <= 8
    BY <1>3
  <2>2. world' \in Worlds
    BY <1>1, <1>2
  <2>3. scored' \subseteq labels' /\ \A l \in labels' : l.source \in {"CommitSubject", "Docstring"}
    <3>1. scored' = scored /\ labels' = labels
      BY <1>1
    <3>2. scored \subseteq labels /\ \A l \in labels : l.source \in {"CommitSubject", "Docstring"}
      BY <1>2
    <3> QED
      BY <3>1, <3>2
  <2> QED
    BY <2>1, <2>2, <2>3
<1>9. pc' = "score"
  BY <1>1
<1> HIDE <1>1, <1>2
<1> QED
  BY <1>3, <1>6, <1>7, <1>8, <1>9 DEF FigureInv


\* Every other step of an evaluation.
LEMMA OtherFigures ==
    ASSUME FigureInv, \/ Partition \/ SearchFails \/ MeasureBytes \/ MeasureFails
                      \/ Stop \/ UNCHANGED vars
    PROVE  FigureInv'
<1>1. /\ world \in Worlds /\ at \in Nat \ {0} /\ Askable(labels)
      /\ \A l \in labels : l.source \in {"CommitSubject", "Docstring"}
  BY DEF FigureInv
<1>2. /\ world' = world /\ labels' = labels /\ at' \in Nat \ {0}
  BY <1>1 DEF Partition, SearchFails, MeasureBytes, MeasureFails, Stop, vars
<1>3. Askable(labels)'
  BY <1>1, <1>2 DEF Askable
<1>4. ASSUME scored' = scored, scores' = scores, NEW n
      PROVE  Computed(n) => Computed(n)'
  <2> SUFFICES ASSUME Computed(n) PROVE Computed(n)'
    OBVIOUS
  <2>1. Jobs(n)' = Jobs(n) /\ DOMAIN scores' = Jobs(n)
    BY <1>4, SameSelection DEF Computed
  <2>2. \A j \in Jobs(n) : scores'[j] = RunAblation(PassOf(j), Of(j), Discarded)'
    BY <1>2, <1>4, SameScores DEF Computed
  <2> QED
    BY <2>1, <2>2 DEF Computed
<1>5. CASE Partition
  <2>1. pc = "split" /\ pc' = "score" /\ at' = 1 /\ scores' = scores /\ scored' \subseteq labels
    BY <1>5 DEF Partition
  <2>2. scores' = <<>>
    BY <2>1 DEF FigureInv
  <2>3. Computed(0)'
    BY <2>2 DEF Computed, Jobs
  <2>4. Computed(at - 1)'
    <3>1. at' - 1 = 0
      BY <2>1
    <3> QED
      BY <2>3, <3>1 DEF Computed, Jobs
  <2>5. at' - 1 <= 8
    BY <2>1
  <2> QED
    BY <1>1, <1>2, <1>3, <2>1, <2>4, <2>5 DEF FigureInv
<1>6. CASE SearchFails \/ MeasureFails
  <2>1. pc' = "failed"
    BY <1>6 DEF SearchFails, MeasureFails
  <2> QED
    BY <1>1, <1>2, <1>3, <2>1 DEF FigureInv
<1>7. CASE MeasureBytes
  <2>1. /\ pc = "score" /\ pc' = "done" /\ at > Len(Plan) /\ bytes' = MedianBytes(labels)
        /\ scored' = scored /\ scores' = scores
    BY <1>7 DEF MeasureBytes
  <2>2. at - 1 <= 8 /\ Computed(at - 1) /\ scored \subseteq labels
    BY <2>1 DEF FigureInv
  <2>3. at - 1 = 8
    BY <1>1, <2>1, <2>2, PlanFacts
  <2>4. Computed(8)'
    BY <1>4, <2>1, <2>2, <2>3
  <2>5. bytes' = MedianBytes(labels)'
    BY <1>2, <2>1
       DEF MedianBytes, McpBytes, BaselineBytes, RankedFor
  <2> QED
    BY <1>1, <1>2, <1>3, <2>1, <2>2, <2>4, <2>5 DEF FigureInv
<1>8. CASE Stop \/ UNCHANGED vars
  <2>1. UNCHANGED <<pc, at, scores, scored, bytes>>
    BY <1>8 DEF Stop, vars
  <2>2. Computed(at - 1) => Computed(at - 1)'
    <3>1. PICK n : n = at - 1
      OBVIOUS
    <3>2. at' - 1 = n
      BY <2>1, <3>1
    <3> QED
      BY <1>4, <2>1, <3>1, <3>2 DEF Computed, Jobs
  <2>3. Computed(8) => Computed(8)'
    BY <1>4, <2>1
  <2>4. bytes = MedianBytes(labels) => bytes' = MedianBytes(labels)'
    BY <1>2, <2>1 DEF MedianBytes, McpBytes, BaselineBytes, RankedFor
  <2> QED
    BY <1>1, <1>2, <1>3, <2>1, <2>2, <2>3, <2>4 DEF FigureInv
<1> QED
  BY <1>5, <1>6, <1>7, <1>8

\* FigureInv holds in every state of an evaluation.
THEOREM FigureInvariance == Spec => []FigureInv
<1>1. Init => FigureInv
  <2> SUFFICES ASSUME Init PROVE FigureInv
    OBVIOUS
  <2>1. labels = {} /\ Askable({})
    BY FS_EmptySet DEF Init, Askable
  <2> QED
    BY <2>1 DEF Init, FigureInv
<1>2. FigureInv /\ [Next]_vars => FigureInv'
  BY MiningFigures, JobDone, OtherFigures DEF Next
<1> QED
  BY <1>1, <1>2, PTL DEF Spec


\* A part of a breakdown, computed or left out.
LEMMA PartFigures ==
    ASSUME Computed(8), NEW k \in 4 .. 8, NEW f \in Counted
    PROVE  Part(Plan[k], f) = RunAblation(PassOf(Plan[k]), Of(Plan[k]), Discarded)[f]
<1> DEFINE job == Plan[k]
<1>1. job.by # "ablation"
  <2>1. k \in {4, 5, 6, 7, 8}
    OBVIOUS
  <2> QED
    BY <2>1, PlanFacts, JobFacts
<1>2. CASE Of(job) # {}
  <2>1. job \in Jobs(8)
    <3>1. k \in 1 .. 8
      OBVIOUS
    <3> QED
      BY <1>2, <3>1 DEF Jobs
  <2> HIDE DEF job
  <2> QED
    BY <1>1, <2>1 DEF Computed, Part, job
<1>3. CASE Of(job) = {}
  <2>1. job \notin Jobs(8)
    BY <1>1, <1>3 DEF Jobs
  <2> HIDE DEF job
  <2> QED
    BY <1>3, <2>1, NoFigures DEF Computed, Part, job
<1> QED
  BY <1>2, <1>3

\* A part of what can be asked for can be asked for.
LEMMA AskablePart ==
    ASSUME NEW A, Askable(A), NEW B \in SUBSET A
    PROVE  Askable(B)
<1>1. IsFiniteSet(B)
  BY FS_Subset DEF Askable
<1> QED
  BY <1>1 DEF Askable

\* Passes that found the same have the same figures, and any two passes have the
\* same number of labels.
LEMMA PassesAlike ==
    ASSUME NEW p, NEW set, NEW d, NEW f \in Counted,
           \/ f = "labels_scored"
           \/ \A l \in set : Keys(RankedFor(l, p)) = Keys(RankedFor(l, "Fused"))
    PROVE  RunAblation("Fused", set, d)[f] = RunAblation(p, set, d)[f]
<1> DEFINE s == RunAblation("Fused", set, d)
           t == RunAblation(p, set, d)
<1>1. /\ s.labels_scored = Cardinality(set)
      /\ s.top_1 = Cardinality(HitsOf(set, "Fused", 1))
      /\ s.top_3 = Cardinality(HitsOf(set, "Fused", 3))
      /\ s.top_10 = Cardinality(HitsOf(set, "Fused", 10))
      /\ s.mrr = SumFunction(RanksOf(set, "Fused"))
  BY Figures
<1>2. /\ t.labels_scored = Cardinality(set)
      /\ t.top_1 = Cardinality(HitsOf(set, p, 1))
      /\ t.top_3 = Cardinality(HitsOf(set, p, 3))
      /\ t.top_10 = Cardinality(HitsOf(set, p, 10))
      /\ t.mrr = SumFunction(RanksOf(set, p))
  BY Figures
<1> HIDE DEF s, t
<1>3. CASE f = "labels_scored"
  BY <1>1, <1>2, <1>3 DEF s, t
<1>4. CASE \A l \in set : Keys(RankedFor(l, p)) = Keys(RankedFor(l, "Fused"))
  <2>1. \A k : HitsOf(set, p, k) = HitsOf(set, "Fused", k)
    BY <1>4 DEF HitsOf
  <2>2. RanksOf(set, p) = RanksOf(set, "Fused")
    BY <1>4 DEF RanksOf
  <2>3. f \in {"labels_scored", "top_1", "top_3", "top_10", "mrr"}
    BY DEF Counted
  <2>4. s[f] = t[f]
    BY <1>1, <1>2, <2>1, <2>2, <2>3
  <2> QED
    BY <2>4 DEF s, t
<1> QED
  BY <1>3, <1>4

\* The parts of a breakdown add up to the fused figures if its searches found
\* the same, their labels do in any case.
LEMMA BreakdownsAdd ==
    ASSUME FigureInv, pc = "done", NEW f \in Counted
    PROVE  LET fused == scores[Job("ablation", "Fused")][f]
           IN  /\ f = "labels_scored" \/ AsFused("source") =>
                     fused = Part(Job("source", "CommitSubject"), f)
                              + Part(Job("source", "Docstring"), f)
               /\ f = "labels_scored" \/ AsFused("length") =>
                     fused = Part(Job("length", "Short"), f)
                              + Part(Job("length", "Medium"), f)
                              + Part(Job("length", "Long"), f)
<1> DEFINE d == Discarded
           s(p, set) == RunAblation(p, set, d)[f]
           C == {l \in scored : l.source = "CommitSubject"}
           D == {l \in scored : l.source = "Docstring"}
           S == {l \in scored : Bucket(l) = "Short"}
           M == {l \in scored : Bucket(l) = "Medium"}
           L == {l \in scored : Bucket(l) = "Long"}
<1>1. /\ world \in Worlds /\ Askable(labels) /\ scored \in SUBSET labels /\ Computed(8)
      /\ \A l \in labels : l.source \in {"CommitSubject", "Docstring"}
  BY DEF FigureInv
<1>2. Askable(scored) /\ "source" \in Passes /\ "length" \in Passes
  BY <1>1, AskablePart DEF Passes
<1>3. scores[Job("ablation", "Fused")][f] = s("Fused", scored)
  <2>1. Plan[3] \in Jobs(8) /\ Plan[3] = Job("ablation", "Fused")
    BY PlanFacts, JobFacts DEF Jobs
  <2>2. scores[Plan[3]] = RunAblation(PassOf(Plan[3]), Of(Plan[3]), Discarded)
    BY <1>1, <2>1 DEF Computed
  <2> QED
    BY <2>1, <2>2, JobFacts
<1>4. \A k \in 4 .. 8 : Part(Plan[k], f) = s(PassOf(Plan[k]), Of(Plan[k]))
  BY <1>1, PartFigures
<1>5. /\ Part(Plan[4], f) = s(PassOf(Plan[4]), Of(Plan[4]))
      /\ Part(Plan[5], f) = s(PassOf(Plan[5]), Of(Plan[5]))
      /\ Part(Plan[6], f) = s(PassOf(Plan[6]), Of(Plan[6]))
      /\ Part(Plan[7], f) = s(PassOf(Plan[7]), Of(Plan[7]))
      /\ Part(Plan[8], f) = s(PassOf(Plan[8]), Of(Plan[8]))
  <2> HIDE DEF s
  <2> QED
    BY <1>4
<1>6. /\ Of(Plan[4]) = C /\ Of(Plan[5]) = D /\ Of(Plan[6]) = S
      /\ Of(Plan[7]) = M /\ Of(Plan[8]) = L
      /\ PassOf(Plan[4]) = "source" /\ PassOf(Plan[5]) = "source"
      /\ PassOf(Plan[6]) = "length" /\ PassOf(Plan[7]) = "length" /\ PassOf(Plan[8]) = "length"
  BY PlanFacts, JobFacts
<1>7. C \union D = scored /\ C \intersect D = {}
  BY <1>1
<1>8. /\ \A l : Bucket(l) \in {"Short", "Medium", "Long"}
      /\ S \union M \union L = scored /\ S \intersect M = {} /\ (S \union M) \intersect L = {}
  BY DEF Bucket
<1>9. /\ C \in SUBSET scored /\ D \in SUBSET scored /\ S \in SUBSET scored
      /\ M \in SUBSET scored /\ L \in SUBSET scored
  OBVIOUS
<1> HIDE DEF C, D, S, M, L, d
<1>10. Askable(C) /\ Askable(D) /\ Askable(S) /\ Askable(M) /\ Askable(L)
  BY <1>2, <1>9, AskablePart
<1>11. s("source", scored) = s("source", C) + s("source", D)
  <2>1. scored = C \union D /\ C \intersect D = {}
    BY <1>7
  <2>2. RunAblation("source", scored, d)[f] =
           RunAblation("source", C, d)[f] + RunAblation("source", D, d)[f]
    BY <1>1, <1>2, <1>10, <2>1, PartsAdd
  <2> QED
    BY <2>2
<1>12. Askable(S \union M) /\ s("length", S \union M) = s("length", S) + s("length", M)
  <2>1. S \intersect M = {} /\ S \union M \in SUBSET scored
    BY <1>8, <1>9
  <2>2. Askable(S \union M)
    BY <1>2, <2>1, AskablePart
  <2>3. RunAblation("length", S \union M, d)[f] =
           RunAblation("length", S, d)[f] + RunAblation("length", M, d)[f]
    <3>1. PICK T : T = S \union M
      OBVIOUS
    <3>2. RunAblation("length", T, d)[f] =
             RunAblation("length", S, d)[f] + RunAblation("length", M, d)[f]
      BY <1>1, <1>2, <1>10, <2>1, <3>1, PartsAdd
    <3> QED
      BY <3>1, <3>2
  <2> QED
    BY <2>2, <2>3
<1>13. s("length", scored) = s("length", S \union M) + s("length", L)
  <2>1. PICK T : T = S \union M
    OBVIOUS
  <2>2. scored = T \union L /\ T \intersect L = {} /\ Askable(T)
    BY <1>8, <1>12, <2>1
  <2>3. RunAblation("length", scored, d)[f] =
           RunAblation("length", T, d)[f] + RunAblation("length", L, d)[f]
    BY <1>1, <1>2, <1>10, <2>2, PartsAdd
  <2> QED
    BY <2>1, <2>3
<1>14. /\ f = "labels_scored" \/ AsFused("source") => s("Fused", scored) = s("source", scored)
       /\ f = "labels_scored" \/ AsFused("length") => s("Fused", scored) = s("length", scored)
  BY PassesAlike DEF AsFused
<1> HIDE DEF s
<1>15. /\ Part(Job("source", "CommitSubject"), f) = s("source", C)
       /\ Part(Job("source", "Docstring"), f) = s("source", D)
       /\ Part(Job("length", "Short"), f) = s("length", S)
       /\ Part(Job("length", "Medium"), f) = s("length", M)
       /\ Part(Job("length", "Long"), f) = s("length", L)
  BY <1>5, <1>6, PlanFacts
<1> QED
  BY <1>3, <1>11, <1>12, <1>13, <1>14, <1>15

\* For every set of labels and every outcome of the searches, the figures of a
\* finished evaluation agree: accuracy grows with the cutoff, the mean
\* reciprocal rank lies between the first and the last of them, percentiles
\* are the least samples that cover their share, each label is scored or
\* discarded, the labels of the breakdowns add up, and the other figures do
\* whenever the repeated searches found what the fused pass had found.
THEOREM FiguresAlwaysAgree == Spec => []FiguresAgree
<1>1. FigureInv => FiguresAgree
  <2> SUFFICES ASSUME FigureInv, pc = "done" PROVE FiguresAgree
    BY DEF FiguresAgree
  <2>1. /\ world \in Worlds /\ Askable(labels) /\ scored \in SUBSET labels
        /\ Computed(8) /\ bytes = MedianBytes(labels)
    BY DEF FigureInv
  <2>2. Askable(scored) /\ IsFiniteSet(labels) /\ IsFiniteSet(scored)
    <3>1. Askable(scored)
      BY <2>1, AskablePart
    <3> QED
      BY <2>1, <3>1 DEF Askable
  <2>3. Cardinality(labels) \in Nat /\ Cardinality(scored) \in Nat
    BY <2>2, FS_CardinalityType
  <2>4. ASSUME NEW j \in DOMAIN scores
        PROVE  LET s == scores[j]
               IN  /\ s.top_1 <= s.top_3 /\ s.top_3 <= s.top_10
                   /\ s.top_10 <= s.labels_scored
                   /\ One * s.top_1 <= s.mrr /\ s.mrr <= One * s.top_10
                   /\ j.by = "ablation" =>
                         s.labels_scored + s.labels_discarded = Cardinality(labels)
                   /\ Of(j) # {} => /\ s.p50 = LeastCovering(Latencies(Of(j)), 50)
                                    /\ s.p95 = LeastCovering(Latencies(Of(j)), 95)
    <3> DEFINE s == scores[j]
               set == Of(j)
               a == PassOf(j)
    <3>1. PICK k \in 1 .. 8 : j = Plan[k]
      BY <2>1 DEF Computed, Jobs
    <3>2. s = RunAblation(a, set, Discarded)
      BY <2>1 DEF Computed
    <3>3. Askable(set) /\ a \in Passes
      <4>1. set \in SUBSET scored /\ a \in Passes
        BY <3>1, JobType
      <4> QED
        BY <2>2, <4>1, AskablePart
    <3>4. j.by = "ablation" => set = scored
      BY DEF Of
    <3> HIDE DEF s, set, a
    <3>5. /\ s.top_1 <= s.top_3 /\ s.top_3 <= s.top_10 /\ s.top_10 <= s.labels_scored
          /\ One * s.top_1 <= s.mrr /\ s.mrr <= One * s.top_10
          /\ s.labels_scored = Cardinality(set) /\ s.labels_discarded = Discarded
          /\ set # {} => /\ s.p50 = LeastCovering(Latencies(set), 50)
                         /\ s.p95 = LeastCovering(Latencies(set), 95)
      BY <2>1, <3>2, <3>3, OwnFigures
    <3>6. j.by = "ablation" => s.labels_scored + s.labels_discarded = Cardinality(labels)
      BY <2>3, <3>4, <3>5 DEF Discarded
    <3> QED
      BY <3>5, <3>6 DEF s, set
  <2>5. labels # {} =>
           /\ bytes.mcp = LeastCovering([l \in labels |-> McpBytes(l)], 50)
           /\ bytes.baseline = LeastCovering([l \in labels |-> BaselineBytes(l)], 50)
    <3> SUFFICES ASSUME labels # {}
                 PROVE  /\ bytes.mcp = LeastCovering([l \in labels |-> McpBytes(l)], 50)
                        /\ bytes.baseline = LeastCovering([l \in labels |-> BaselineBytes(l)], 50)
      OBVIOUS
    <3> DEFINE f == [l \in labels |-> McpBytes(l)]
               g == [l \in labels |-> BaselineBytes(l)]
    <3>1. \A l \in labels : McpBytes(l) \in Nat /\ BaselineBytes(l) \in Nat
      BY <2>1, BytesOfLabel DEF Askable
    <3>2. f \in [labels -> Nat] /\ g \in [labels -> Nat]
      BY <3>1
    <3>3. bytes.mcp = Percentile(Sorted(f), 50) /\ bytes.baseline = Percentile(Sorted(g), 50)
      BY <2>1 DEF MedianBytes
    <3> HIDE DEF f, g
    <3>4. bytes.mcp = LeastCovering(f, 50) /\ bytes.baseline = LeastCovering(g, 50)
      BY <2>2, <3>2, <3>3, PercentileCovers
    <3> QED
      BY <3>4 DEF f, g
  <2>6. \A f \in Counted :
           LET fused == scores[Job("ablation", "Fused")][f]
           IN  /\ f = "labels_scored" \/ AsFused("source") =>
                     fused = Part(Job("source", "CommitSubject"), f)
                              + Part(Job("source", "Docstring"), f)
               /\ f = "labels_scored" \/ AsFused("length") =>
                     fused = Part(Job("length", "Short"), f)
                              + Part(Job("length", "Medium"), f)
                              + Part(Job("length", "Long"), f)
    BY BreakdownsAdd
  <2> QED
    BY <2>4, <2>5, <2>6 DEF FiguresAgree, Counted
<1> QED
  BY <1>1, FigureInvariance, PTL

=============================================================================
