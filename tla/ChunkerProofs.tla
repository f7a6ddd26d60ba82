--------------------------- MODULE ChunkerProofs ----------------------------
(***************************************************************************)
(* Proofs about module Chunker, for every path, text and syntax tree: the  *)
(* exclusion rules first, then the symbols as operators on the text, then  *)
(* the invariant of the loops that cut them.                               *)
(***************************************************************************)
EXTENDS Chunker, FiniteSetTheorems, SequenceTheorems, WellFoundedInduction, TLAPS

\* A set of numbers that is not empty has a least one.
LEMMA LeastNumber ==
    ASSUME NEW T \in SUBSET Nat, T # {}
    PROVE  \E x \in T : \A y \in T : x <= y
<1>1. PICK x \in T : \A y \in T : ~(<<y, x>> \in OpToRel(<, Nat))
  BY NatLessThanWellFounded, WFMin
<1>2. \A y \in T : ~(y < x)
  BY <1>1 DEF OpToRel
<1> QED
  BY <1>2

\* A set of positions that is not empty contains its maximum.
LEMMA MaxIsMember ==
    ASSUME NEW n \in Nat, NEW S \in SUBSET (1 .. n), S # {}
    PROVE  Max(S) \in S
<1> DEFINE T == { n - s : s \in S }
<1>1. T \in SUBSET Nat /\ T # {}
  <2>1. \A s \in S : s \in 1 .. n /\ n - s \in Nat
    OBVIOUS
  <2>2. PICK s \in S : TRUE
    OBVIOUS
  <2>3. n - s \in T
    BY <2>2
  <2> QED
    BY <2>1, <2>3
<1>2. PICK x \in T : \A y \in T : x <= y
  BY <1>1, LeastNumber
<1>3. PICK s \in S : x = n - s
  BY <1>2
<1>4. \A t \in S : s >= t
  <2> SUFFICES ASSUME NEW t \in S PROVE s >= t
    OBVIOUS
  <2>1. n - s <= n - t
    BY <1>2, <1>3
  <2> QED
    BY <2>1
<1> QED
  BY <1>4 DEF Max

\* With no negated pattern, a path is ignored when one of its components is.
LEMMA IgnoredComponent ==
    ASSUME NEW path \in Seq(STRING), \A i \in DOMAIN path : path[i] # "kept"
    PROVE  GitIgnored(path) <=> \E i \in DOMAIN path : path[i] = "ignored"
<1> DEFINE ruled == { i \in DOMAIN path : path[i] \in {"ignored", "kept"} }
<1>1. ruled \in SUBSET (1 .. Len(path)) /\ Len(path) \in Nat
  OBVIOUS
<1>2. ruled # {} => Max(ruled) \in ruled
  BY <1>1, MaxIsMember
<1>3. \A i \in DOMAIN path : i \in ruled <=> path[i] = "ignored"
  OBVIOUS
<1>4. GitIgnored(path) <=> ruled # {} /\ path[Max(ruled)] = "ignored"
  BY DEF GitIgnored
<1> HIDE DEF ruled
<1>5. ruled \subseteq DOMAIN path
  BY DEF ruled
<1> QED
  BY <1>2, <1>3, <1>4, <1>5

\* What check_path says of a path is None exactly when no rule applies.
LEMMA Unrefused ==
    ASSUME NEW path
    PROVE  CheckPath(path) = None <=> /\ ~Matches(path, "secret", "pem")
                                      /\ ~Matches(path, "vendor", "vendor")
                                      /\ ~Matches(path, "generated", "pb2")
                                      /\ ~GitIgnored(path)
BY ChunkerAssumption DEF CheckPath

\* A directory that is refused has everything below it refused, unless it has the name
\* of a file or a negated pattern intervenes.
LEMMA RefusedBelow ==
    ASSUME NEW path \in Seq(STRING), NEW n \in 1 .. (Len(path) - 1),
           \A i \in 1 .. (Len(path) - 1) : path[i] \notin {"pem", "pb2"},
           \A i \in DOMAIN path : path[i] # "kept",
           CheckPath(SubSeq(path, 1, n)) # None
    PROVE  CheckPath(path) # None
<1> DEFINE dir == SubSeq(path, 1, n)
<1>1. Len(path) \in Nat /\ DOMAIN path = 1 .. Len(path)
  OBVIOUS
<1>2. /\ dir \in Seq(STRING) /\ Len(dir) = n /\ DOMAIN dir = 1 .. n
      /\ \A i \in 1 .. n : dir[i] = path[i]
  BY <1>1
<1> HIDE DEF dir
<1>3. /\ \A i \in DOMAIN dir : i \in DOMAIN path /\ dir[i] = path[i]
      /\ Last(dir) = path[n] /\ n \in DOMAIN path
  BY <1>1, <1>2 DEF Last
<1>4. Matches(dir, "secret", "pem") => Matches(path, "secret", "pem")
  BY <1>3 DEF Matches
<1>5. Matches(dir, "vendor", "vendor") => Matches(path, "vendor", "vendor")
  BY <1>3 DEF Matches
<1>6. Matches(dir, "generated", "pb2") => Matches(path, "generated", "pb2")
  BY <1>3 DEF Matches
<1>7. GitIgnored(dir) => GitIgnored(path)
  BY <1>2, <1>3, IgnoredComponent
<1> QED
  BY <1>4, <1>5, <1>6, <1>7, Unrefused DEF dir

\* The walk stops at the first directory that is refused, and has a reason to.
LEMMA WalkRefuses ==
    ASSUME NEW file, file.path \in Seq(STRING), NEW n \in 1 .. (Len(file.path) - 1),
           CheckPath(SubSeq(file.path, 1, n)) # None
    PROVE  PathRefused(file, "walk") # None
<1> DEFINE dirs == { SubSeq(file.path, 1, k) : k \in 1 .. (Len(file.path) - 1) }
           refusing == { d \in dirs : CheckPath(d) # None }
           lengths == { Len(d) : d \in refusing }
<1>1. \A d \in dirs : Len(d) \in Nat
  OBVIOUS
<1>2. SubSeq(file.path, 1, n) \in refusing
  OBVIOUS
<1>3. lengths \in SUBSET Nat /\ lengths # {}
  BY <1>1, <1>2
<1>4. PICK x \in lengths : \A y \in lengths : x <= y
  BY <1>3, LeastNumber
<1>5. PICK d \in refusing : x = Len(d)
  BY <1>4
<1>6. \A e \in dirs : CheckPath(e) # None => Len(d) <= Len(e)
  BY <1>4, <1>5
<1>7. d \in dirs /\ CheckPath(d) # None
  BY <1>5
<1>8. PathRefused(file, "walk") = CheckPath(CHOOSE c \in dirs :
                                               /\ CheckPath(c) # None
                                               /\ \A e \in dirs : CheckPath(e) # None => Len(c) <= Len(e))
  BY <1>7 DEF PathRefused
<1> HIDE DEF dirs
<1> QED
  BY <1>6, <1>7, <1>8

\* A file is refused alone exactly when a walk would not reach it.
LEMMA RoutesAgreeOn ==
    ASSUME NEW file \in Inputs,
           \A i \in 1 .. (Len(file.path) - 1) : file.path[i] \notin {"pem", "pb2"},
           \A i \in DOMAIN file.path : file.path[i] # "kept"
    PROVE  Refused(file, "walk") = None <=> Refused(file, "update") = None
<1>1. file.path \in Seq(STRING)
  BY ChunkerAssumption
<1>2. PathRefused(file, "update") = CheckPath(file.path)
  BY DEF PathRefused
<1>3. PathRefused(file, "walk") = None <=> CheckPath(file.path) = None
  <2>1. CASE \E n \in 1 .. (Len(file.path) - 1) : CheckPath(SubSeq(file.path, 1, n)) # None
    BY <1>1, <2>1, WalkRefuses, RefusedBelow
  <2>2. CASE ~\E n \in 1 .. (Len(file.path) - 1) : CheckPath(SubSeq(file.path, 1, n)) # None
    BY <2>2 DEF PathRefused
  <2> QED
    BY <2>1, <2>2
<1> QED
  BY <1>2, <1>3, ChunkerAssumption DEF Refused

\* For every path of any length: whether a file is indexed does not depend on whether a
\* full run walks to it (collect_all_files) or an update is told of it
\* (work_item_for_path), under the two conditions RoutesAgree states.
THEOREM RoutesAlwaysAgree == Spec => []RoutesAgree
<1>1. Init => input \in Inputs
  BY DEF Init
<1>2. input \in Inputs /\ [Next]_vars => (input \in Inputs)'
  BY DEF Next, vars, Admit, Parse, SkipBlank, TakeWhole, SplitLines, TakeLine, EndLines, StartCut, CutAtStatement,
         EndCut, Finish, Stop
<1>3. input \in Inputs => RoutesAgree
  BY RoutesAgreeOn DEF RoutesAgree
<1> QED
  BY <1>1, <1>2, <1>3, PTL DEF Spec
-----------------------------------------------------------------------------
(***************************************************************************)
(* Sorting.                                                                *)
(***************************************************************************)

\* R orders S strictly and totally.
StrictOrder(S, R) ==
    /\ \A x \in S : <<x, x>> \notin R
    /\ \A x, y, z \in S : <<x, y>> \in R /\ <<y, z>> \in R => <<x, z>> \in R
    /\ \A x, y \in S : x # y => <<x, y>> \in R \/ <<y, x>> \in R

\* The members of S that come before x, and how many they are.
Ahead(S, R, x) == {y \in S : <<y, x>> \in R}
Place(S, R, x) == Cardinality(Ahead(S, R, x))

\* The place of a member is below the size of the set.
LEMMA PlaceType ==
    ASSUME NEW S, NEW R, IsFiniteSet(S), StrictOrder(S, R), NEW x \in S
    PROVE  /\ Place(S, R, x) \in 0 .. (Cardinality(S) - 1)
           /\ IsFiniteSet(Ahead(S, R, x))
<1>1. Ahead(S, R, x) \in SUBSET (S \ {x})
  BY DEF Ahead, StrictOrder
<1>2. IsFiniteSet(S \ {x}) /\ Cardinality(S \ {x}) = Cardinality(S) - 1
  BY FS_RemoveElement
<1>3. IsFiniteSet(Ahead(S, R, x)) /\ Cardinality(Ahead(S, R, x)) <= Cardinality(S) - 1
  BY <1>1, <1>2, FS_Subset
<1>4. Cardinality(S) \in Nat /\ Cardinality(Ahead(S, R, x)) \in Nat
  BY <1>3, FS_CardinalityType
<1> QED
  BY <1>3, <1>4 DEF Place

\* Of two members the one that comes before the other has the lower place.
LEMMA PlaceMono ==
    ASSUME NEW S, NEW R, IsFiniteSet(S), StrictOrder(S, R),
           NEW x \in S, NEW y \in S, <<x, y>> \in R
    PROVE  Place(S, R, x) < Place(S, R, y)
<1>1. Ahead(S, R, x) \in SUBSET (Ahead(S, R, y) \ {x})
  BY DEF Ahead, StrictOrder
<1>2. x \in Ahead(S, R, y)
  BY DEF Ahead
<1>3. IsFiniteSet(Ahead(S, R, y)) /\ Place(S, R, y) \in Nat /\ Place(S, R, x) \in Nat
  BY PlaceType, FS_CardinalityType DEF Place
<1>4. IsFiniteSet(Ahead(S, R, y) \ {x})
      /\ Cardinality(Ahead(S, R, y) \ {x}) = Place(S, R, y) - 1
  BY <1>2, <1>3, FS_RemoveElement DEF Place
<1>5. Place(S, R, x) <= Place(S, R, y) - 1
  BY <1>1, <1>4, FS_Subset DEF Place
<1> QED
  BY <1>3, <1>5

\* Places and the order are the same thing.
LEMMA PlaceOrder ==
    ASSUME NEW S, NEW R, IsFiniteSet(S), StrictOrder(S, R), NEW x \in S, NEW y \in S
    PROVE  /\ Place(S, R, x) = Place(S, R, y) => x = y
           /\ Place(S, R, x) < Place(S, R, y) <=> <<x, y>> \in R
<1>1. Place(S, R, x) \in Int /\ Place(S, R, y) \in Int
  BY PlaceType, FS_CardinalityType
<1>2. CASE <<x, y>> \in R
  <2>1. Place(S, R, x) < Place(S, R, y)
    BY <1>2, PlaceMono
  <2> QED
    BY <1>1, <1>2, <2>1
<1>3. CASE <<y, x>> \in R
  <2>1. Place(S, R, y) < Place(S, R, x)
    BY <1>3, PlaceMono
  <2>2. <<x, y>> \notin R
    BY <1>3 DEF StrictOrder
  <2> QED
    BY <1>1, <2>1, <2>2
<1>4. CASE x = y
  BY <1>1, <1>4 DEF StrictOrder
<1> QED
  BY <1>2, <1>3, <1>4 DEF StrictOrder

\* Every place is taken.
LEMMA PlaceOnto ==
    ASSUME NEW S, NEW R, IsFiniteSet(S), StrictOrder(S, R),
           NEW k \in 0 .. (Cardinality(S) - 1)
    PROVE  \E x \in S : Place(S, R, x) = k
<1> DEFINE n == Cardinality(S)
           T == 0 .. (n - 1)
           f == [x \in S |-> Place(S, R, x)]
<1>1. n \in Nat
  BY FS_CardinalityType
<1>2. IsFiniteSet(T) /\ Cardinality(T) = n
  BY <1>1, FS_Interval
<1>3. f \in [S -> T]
  BY PlaceType
<1>4. \A x, y \in S : f[x] = f[y] => x = y
  BY PlaceOrder
<1>5. f \in Injection(S, T)
  BY <1>3, <1>4 DEF Injection, IsInjective
<1>6. f \in Surjection(S, T)
  BY <1>2, <1>5, FS_Injection
<1>7. \A t \in T : \E x \in S : f[x] = t
  BY <1>6 DEF Surjection
<1> QED
  BY <1>7


\* A part of an ordered set is ordered.
LEMMA OrderedPart ==
    ASSUME NEW S, NEW R, StrictOrder(S, R), NEW U \in SUBSET S
    PROVE  StrictOrder(U, R)
  BY DEF StrictOrder

\* What a sort returns: every member once, each at its place.
LEMMA OrderedFacts ==
    ASSUME NEW S, NEW R, IsFiniteSet(S), StrictOrder(S, R)
    PROVE  /\ Ordered(S, R) \in Seq(S)
           /\ Cardinality(S) \in Nat
           /\ Len(Ordered(S, R)) = Cardinality(S)
           /\ DOMAIN Ordered(S, R) = 1 .. Cardinality(S)
           /\ \A i \in 1 .. Cardinality(S) :
                 Ordered(S, R)[i] \in S /\ Place(S, R, Ordered(S, R)[i]) = i - 1
           /\ \A x \in S : /\ Place(S, R, x) + 1 \in 1 .. Cardinality(S)
                           /\ Ordered(S, R)[Place(S, R, x) + 1] = x
           /\ \A i, j \in 1 .. Cardinality(S) :
                 i < j <=> <<Ordered(S, R)[i], Ordered(S, R)[j]>> \in R
<1> DEFINE n == Cardinality(S)
           s == Ordered(S, R)
<1>1. n \in Nat
  BY FS_CardinalityType
<1>2. s = [k \in 1 .. n |-> CHOOSE x \in S : Place(S, R, x) = k - 1]
  BY DEF Ordered, Place, Ahead
<1>3. ASSUME NEW i \in 1 .. n
      PROVE  s[i] \in S /\ Place(S, R, s[i]) = i - 1
  <2>1. i - 1 \in 0 .. (n - 1)
    BY <1>1
  <2>2. \E x \in S : Place(S, R, x) = i - 1
    BY <2>1, PlaceOnto
  <2>3. s[i] = CHOOSE x \in S : Place(S, R, x) = i - 1
    BY <1>2
  <2> QED
    BY <2>2, <2>3
<1>4. s \in Seq(S) /\ Len(s) = n /\ DOMAIN s = 1 .. n
  <2> HIDE DEF s
  <2>1. s = [k \in 1 .. n |-> s[k]]
    BY <1>2
  <2>2. \A k \in 1 .. n : s[k] \in S
    BY <1>3
  <2> QED
    BY <1>1, <2>1, <2>2
<1>5. ASSUME NEW x \in S
      PROVE  Place(S, R, x) + 1 \in 1 .. n /\ s[Place(S, R, x) + 1] = x
  <2> DEFINE k == Place(S, R, x) + 1
  <2>1. k \in 1 .. n /\ k - 1 = Place(S, R, x)
    BY <1>1, PlaceType
  <2>2. s[k] \in S /\ Place(S, R, s[k]) = Place(S, R, x)
    BY <1>3, <2>1
  <2> QED
    BY <2>1, <2>2, PlaceOrder
<1>6. ASSUME NEW i \in 1 .. n, NEW j \in 1 .. n
      PROVE  i < j <=> <<s[i], s[j]>> \in R
  <2>1. s[i] \in S /\ s[j] \in S /\ Place(S, R, s[i]) = i - 1 /\ Place(S, R, s[j]) = j - 1
    BY <1>3
  <2> HIDE DEF s
  <2>2. Place(S, R, s[i]) < Place(S, R, s[j]) <=> <<s[i], s[j]>> \in R
    BY <2>1, PlaceOrder
  <2> QED
    BY <1>1, <2>1, <2>2
<1> QED
  BY <1>1, <1>3, <1>4, <1>5, <1>6

-----------------------------------------------------------------------------
(***************************************************************************)
(* Numbers.                                                                *)
(***************************************************************************)

\* The least of some numbers above a bound.
LEMMA MinFacts ==
    ASSUME NEW lo \in Int, NEW S \in SUBSET Int, S # {}, \A s \in S : lo <= s
    PROVE  Min(S) \in S /\ \A s \in S : Min(S) <= s
<1> DEFINE T == {s - lo : s \in S}
<1>1. T \in SUBSET Nat /\ T # {}
  <2>1. \A s \in S : s \in Int /\ s - lo \in Nat
    OBVIOUS
  <2>2. PICK s \in S : TRUE
    OBVIOUS
  <2>3. s - lo \in T
    BY <2>2
  <2> QED
    BY <2>1, <2>3
<1>2. PICK x \in T : \A y \in T : x <= y
  BY <1>1, LeastNumber
<1>3. PICK s \in S : x = s - lo
  BY <1>2
<1>4. \A t \in S : s <= t
  <2> SUFFICES ASSUME NEW t \in S PROVE s <= t
    OBVIOUS
  <2>1. s - lo <= t - lo
    BY <1>2, <1>3
  <2> QED
    BY <2>1
<1> HIDE DEF T
<1> QED
  BY <1>3, <1>4 DEF Min

\* The greatest of some numbers below a bound.
LEMMA MaxFacts ==
    ASSUME NEW hi \in Int, NEW S \in SUBSET Int, S # {}, \A s \in S : s <= hi
    PROVE  Max(S) \in S /\ \A s \in S : s <= Max(S)
<1> DEFINE T == {hi - s : s \in S}
<1>1. T \in SUBSET Nat /\ T # {}
  <2>1. \A s \in S : s \in Int /\ hi - s \in Nat
    OBVIOUS
  <2>2. PICK s \in S : TRUE
    OBVIOUS
  <2>3. hi - s \in T
    BY <2>2
  <2> QED
    BY <2>1, <2>3
<1>2. PICK x \in T : \A y \in T : x <= y
  BY <1>1, LeastNumber
<1>3. PICK s \in S : x = hi - s
  BY <1>2
<1>4. \A t \in S : s >= t
  <2> SUFFICES ASSUME NEW t \in S PROVE s >= t
    OBVIOUS
  <2>1. hi - s <= hi - t
    BY <1>2, <1>3
  <2> QED
    BY <2>1
<1>5. Max(S) \in S /\ \A t \in S : Max(S) >= t
  <2> HIDE DEF T
  <2> QED
    BY <1>3, <1>4 DEF Max
<1>6. \A t \in S : t <= Max(S)
  BY <1>5
<1> QED
  BY <1>5, <1>6

\* Some offsets of a range are no more than the range is long.
LEMMA Fits ==
    ASSUME NEW a \in Int, NEW b \in Int, NEW S \in SUBSET (a .. (b - 1))
    PROVE  /\ IsFiniteSet(S)
           /\ Cardinality(S) \in Nat
           /\ a <= b => Cardinality(S) <= b - a
<1>1. /\ IsFiniteSet(a .. (b - 1))
      /\ Cardinality(a .. (b - 1)) = IF a <= b THEN b - a ELSE 0
  <2>1. /\ IsFiniteSet(a .. (b - 1))
        /\ Cardinality(a .. (b - 1)) = IF a > b - 1 THEN 0 ELSE (b - 1) - a + 1
    BY FS_Interval
  <2> QED
    BY <2>1
<1>2. IsFiniteSet(S) /\ Cardinality(S) <= Cardinality(a .. (b - 1))
  BY <1>1, FS_Subset
<1>3. Cardinality(S) \in Nat
  BY <1>2, FS_CardinalityType
<1> QED
  BY <1>1, <1>2, <1>3

\* A range has as many offsets as it is long.
LEMMA Length ==
    ASSUME NEW a \in Int, NEW b \in Int, a <= b
    PROVE  Cardinality(a .. (b - 1)) = b - a
<1>1. Cardinality(a .. (b - 1)) = IF a > b - 1 THEN 0 ELSE (b - 1) - a + 1
  BY FS_Interval
<1> QED
  BY <1>1
-----------------------------------------------------------------------------
(***************************************************************************)
(* Text and symbols.                                                       *)
(***************************************************************************)

\* A file has a text, and the nodes of its tree lie in it.
LEMMA InputFacts ==
    ASSUME input \in Inputs
    PROVE  /\ Size \in Nat
           /\ IsFiniteSet(input.nodes)
           /\ input.ends \in SUBSET (0 .. Size)
           /\ \A n \in input.nodes :
                 /\ n.from \in Nat /\ n.from < Size
                 /\ n.to \in Nat /\ n.from < n.to /\ n.to <= Size
                 /\ ~Blank(n.from)
                 /\ n.container \in BOOLEAN
                 /\ n.name \in Seq(STRING) /\ n.name # <<>>
                 /\ n.comment # None => n.comment \in Nat /\ n.comment <= n.from
           /\ \A m, n \in input.nodes :
                 /\ Laminar(m, n)
                 /\ m # n => m.from # n.from \/ m.to # n.to
                 /\ m.from < n.from /\ n.comment # None => m.from < n.comment
                 /\ m.from = n.from /\ n.to < m.to => n.comment = None
<1>1. /\ input.text \in Seq({"x", "c", "_", "n"})
      /\ IsTree(input.text, input.nodes)
      /\ input.ends \in SUBSET (0 .. Len(input.text))
  BY ChunkerAssumption
<1>2. Len(input.text) \in Nat /\ Size = Len(input.text)
  <2>1. ASSUME NEW X, NEW s \in Seq(X)
        PROVE  Len(s) \in Nat
    OBVIOUS
  <2> QED
    BY <1>1, <2>1 DEF Size
<1>3. ASSUME NEW n \in input.nodes
      PROVE  /\ n.from \in Nat /\ n.from < Size
             /\ n.to \in Nat /\ n.from < n.to /\ n.to <= Size
             /\ ~Blank(n.from)
             /\ n.container \in BOOLEAN
             /\ n.name \in Seq(STRING) /\ n.name # <<>>
             /\ n.comment # None => n.comment \in Nat /\ n.comment <= n.from
  <2>1. /\ n.from \in 0 .. (Len(input.text) - 1)
        /\ n.to \in (n.from + 1) .. Len(input.text)
        /\ input.text[n.from + 1] \notin {"_", "n"}
        /\ n.container \in BOOLEAN
        /\ n.name \in Seq(STRING) /\ n.name # <<>>
        /\ n.comment \in 0 .. n.from \union {None}
    BY <1>1 DEF IsTree
  <2>2. ~Blank(n.from)
    BY <2>1 DEF Blank, Char
  <2>3. n.from \in Nat /\ n.from < Size /\ n.to \in Nat /\ n.from < n.to /\ n.to <= Size
    <3>1. ASSUME NEW l \in Nat, NEW a \in 0 .. (l - 1), NEW b \in (a + 1) .. l
          PROVE  a \in Nat /\ a < l /\ b \in Nat /\ a < b /\ b <= l
      OBVIOUS
    <3> QED
      BY <1>2, <2>1, <3>1
  <2>4. n.comment # None => n.comment \in Nat /\ n.comment <= n.from
    <3>1. ASSUME NEW a \in Nat, NEW c \in 0 .. a
          PROVE  c \in Nat /\ c <= a
      OBVIOUS
    <3>2. n.comment # None => n.comment \in 0 .. n.from
      BY <2>1
    <3> QED
      BY <2>3, <3>1, <3>2
  <2> QED
    BY <2>1, <2>2, <2>3, <2>4
<1>4. ASSUME NEW m \in input.nodes, NEW n \in input.nodes
      PROVE  /\ Laminar(m, n)
             /\ m # n => m.from # n.from \/ m.to # n.to
             /\ m.from < n.from /\ n.comment # None => m.from < n.comment
             /\ m.from = n.from /\ n.to < m.to => n.comment = None
  BY <1>1 DEF IsTree
<1> QED
  <2>1. IsFiniteSet(input.nodes) /\ input.ends \in SUBSET (0 .. Size) /\ Size \in Nat
    BY <1>1, <1>2 DEF IsTree
  <2> QED
    BY <1>3, <1>4, <2>1

\* str::trim keeps every character that is not blank.
LEMMA TrimmedFacts ==
    ASSUME NEW from \in Nat, NEW to \in Nat, from <= to
    PROVE  LET r == Between(from, to)
           IN  /\ Trimmed(r).from \in Nat /\ Trimmed(r).to \in Nat
               /\ from <= Trimmed(r).from /\ Trimmed(r).from <= Trimmed(r).to
               /\ Trimmed(r).to <= to
               /\ \A o \in Span(r) : ~Blank(o) => o \in Span(Trimmed(r))
               /\ Trimmed(r) = Between(Trimmed(r).from, Trimmed(r).to)
<1> DEFINE r == Between(from, to)
           solid == {o \in from .. (to - 1) : ~Blank(o)}
<1>1. Span(r) = from .. (to - 1) /\ r.to = to
  BY DEF Span, Between
<1>2. Trimmed(r) = IF solid = {} THEN Between(to, to) ELSE Between(Min(solid), Max(solid) + 1)
  BY <1>1 DEF Trimmed
<1>3. CASE solid = {}
  <2>1. Trimmed(r).from = to /\ Trimmed(r).to = to /\ Trimmed(r) = Between(to, to)
    BY <1>2, <1>3 DEF Between
  <2> QED
    BY <1>1, <1>3, <2>1
<1>4. CASE solid # {}
  <2>1. solid \in SUBSET Int /\ \A o \in solid : from <= o /\ o <= to - 1
    OBVIOUS
  <2>2. Min(solid) \in solid /\ \A o \in solid : Min(solid) <= o
    BY <1>4, <2>1, MinFacts
  <2>3. Max(solid) \in solid /\ \A o \in solid : o <= Max(solid)
    BY <1>4, <2>1, MaxFacts, to - 1 \in Int
  <2> DEFINE lo == Min(solid)
             hi == Max(solid)
  <2>8. /\ lo \in Nat /\ hi \in Nat /\ from <= lo /\ lo <= hi /\ hi + 1 <= to
        /\ \A o \in solid : o \in lo .. ((hi + 1) - 1)
    <3> HIDE DEF lo, hi
    <3>1. lo \in solid /\ hi \in solid /\ \A o \in solid : lo <= o /\ o <= hi
      BY <2>2, <2>3 DEF lo, hi
    <3> HIDE DEF solid
    <3> QED
      BY <2>1, <3>1
  <2> HIDE DEF solid
  <2>4. Trimmed(r) = Between(lo, hi + 1)
    BY <1>2, <1>4
  <2>5. \A o \in Span(r) : ~Blank(o) => o \in solid
    BY <1>1 DEF solid
  <2> HIDE DEF lo, hi, r
  <2>6. /\ Trimmed(r).from = lo /\ Trimmed(r).to = hi + 1
        /\ Trimmed(r) = Between(Trimmed(r).from, Trimmed(r).to)
        /\ Span(Trimmed(r)) = lo .. ((hi + 1) - 1)
    BY <2>4 DEF Between, Span
  <2>7. /\ Trimmed(r).from \in Nat /\ Trimmed(r).to \in Nat
        /\ from <= Trimmed(r).from /\ Trimmed(r).from <= Trimmed(r).to
        /\ Trimmed(r).to <= to
        /\ \A o \in Span(r) : ~Blank(o) => o \in Span(Trimmed(r))
        /\ Trimmed(r) = Between(Trimmed(r).from, Trimmed(r).to)
    BY <2>5, <2>6, <2>8
  <2> QED
    BY <2>7 DEF r
<1> QED
  BY <1>3, <1>4

\* Lines are counted from 1 and ascend with the offsets.
LEMMA LineFacts ==
    ASSUME input \in Inputs
    PROVE  /\ \A o \in Nat : LineOf(o) \in Nat /\ LineOf(o) >= 1
           /\ \A o, p \in Nat : o <= p => LineOf(o) <= LineOf(p)
<1> DEFINE Above(o) == {p \in 0 .. (Size - 1) : p < o /\ Char(p) = "n"}
<1>1. Size \in Int /\ 0 \in Int
  BY InputFacts
<1>2. \A o : IsFiniteSet(Above(o)) /\ Cardinality(Above(o)) \in Nat
  <2> SUFFICES ASSUME NEW o
               PROVE  IsFiniteSet(Above(o)) /\ Cardinality(Above(o)) \in Nat
    OBVIOUS
  <2>1. Above(o) \in SUBSET (0 .. (Size - 1))
    OBVIOUS
  <2> HIDE DEF Above
  <2> QED
    BY <1>1, <2>1, Fits
<1>3. \A o : LineOf(o) = 1 + Cardinality(Above(o))
  BY DEF LineOf
<1>4. ASSUME NEW o \in Nat, NEW p \in Nat, o <= p
      PROVE  Cardinality(Above(o)) <= Cardinality(Above(p))
  <2>1. Above(o) \subseteq Above(p)
    BY <1>1, <1>4
  <2> HIDE DEF Above
  <2> QED
    BY <1>2, <2>1, FS_Subset
<1> HIDE DEF Above
<1>5. ASSUME NEW o \in Nat
      PROVE  LineOf(o) \in Nat /\ LineOf(o) >= 1
  BY <1>2, <1>3
<1>6. ASSUME NEW o \in Nat, NEW p \in Nat, o <= p
      PROVE  LineOf(o) <= LineOf(p)
  BY <1>2, <1>3, <1>4, <1>6
<1> QED
  BY <1>5, <1>6

\* The documentation of a node starts before it.
LEMMA DocFacts ==
    ASSUME input \in Inputs, NEW n \in input.nodes, AttachedDoc(n) # None
    PROVE  AttachedDoc(n) \in Nat /\ AttachedDoc(n) <= n.from
<1> DEFINE before == Trimmed(Between(0, n.from))
           end == IF before.from = before.to THEN 0 ELSE before.to
           block == {l \in LineStarts(end) :
                        \A m \in LineStarts(end) : m >= l => LooksLikeComment(m, end)}
<1>1. n.from \in Nat /\ (n.comment # None => n.comment \in Nat /\ n.comment <= n.from)
  BY InputFacts
<1>2. before.to \in Nat /\ before.to <= n.from
  BY <1>1, TrimmedFacts
<1>3. end \in Nat /\ end <= n.from
  BY <1>1, <1>2
<1>4. AttachedDoc(n) = IF block # {} THEN Min(block) ELSE n.comment
  BY DEF AttachedDoc
<1> HIDE DEF end, before
<1>5. block \in SUBSET (0 .. (end - 1))
  BY DEF LineStarts
<1>6. block \in SUBSET Int /\ \A l \in block : 0 <= l
  BY <1>3, <1>5
<1> HIDE DEF block
<1>7. CASE block # {}
  <2>1. Min(block) \in block
    BY <1>6, <1>7, MinFacts
  <2>2. Min(block) \in 0 .. (end - 1)
    BY <1>5, <2>1
  <2>3. AttachedDoc(n) = Min(block)
    BY <1>4, <1>7
  <2> QED
    BY <1>1, <1>3, <2>2, <2>3
<1>8. CASE block = {}
  BY <1>1, <1>4, <1>8
<1> QED
  BY <1>7, <1>8

\* The values of a function on a finite set are finitely many.
LEMMA FiniteValues ==
    ASSUME NEW S, IsFiniteSet(S), NEW f, DOMAIN f = S
    PROVE  IsFiniteSet({f[x] : x \in S})
<1> DEFINE T == {f[x] : x \in S}
           g == [x \in S |-> f[x]]
<1>1. g \in Surjection(S, T)
  BY DEF Surjection
<1> QED
  BY <1>1, FS_Surjection

\* The matches of the query, and the symbols qualify_names makes of them.
Matched == {HitOf(node) : node \in input.nodes}
Qualified == {Qualify(hit, Matched) : hit \in Matched}

\* A match has the range of its node and of the documentation above it.
LEMMA HitFacts ==
    ASSUME input \in Inputs, NEW n \in input.nodes
    PROVE  LET h == HitOf(n)
           IN  /\ h.node = n
               /\ h.range.from \in Nat /\ h.range.from <= n.from
               /\ h.range.to = n.to
               /\ h.range = Between(h.range.from, h.range.to)
               /\ h.name = n.name
               /\ h.lines = <<LineOf(h.range.from), LineOf(h.range.to - 1)>>
               /\ DOMAIN h = {"node", "range", "name", "lines"}
<1> DEFINE doc == AttachedDoc(n)
           from == IF doc = None THEN n.from ELSE doc
           r == Between(from, n.to)
           h == HitOf(n)
<1>1. n.from \in Nat /\ n.to \in Nat /\ n.from < n.to
  BY InputFacts
<1>2. from \in Nat /\ from <= n.from
  BY <1>1, DocFacts
<1>3. h = [node |-> n, range |-> r, name |-> n.name,
           lines |-> <<LineOf(r.from), LineOf(Max({r.to - 1, r.from}))>>]
  BY DEF HitOf
<1> HIDE DEF h, from, doc
<1>4. r.from = from /\ r.to = n.to
  BY DEF Between
<1>5. Max({r.to - 1, r.from}) = r.to - 1
  <2> DEFINE a == n.to - 1
  <2>1. a \in Int /\ from \in Int /\ from <= a
    BY <1>1, <1>2
  <2> HIDE DEF a
  <2>2. {a, from} \in SUBSET Int /\ {a, from} # {} /\ \A s \in {a, from} : s <= a
    BY <2>1
  <2>3. Max({a, from}) = a
    <3> DEFINE S == {a, from}
    <3> HIDE DEF S
    <3>1. Max(S) \in S /\ \A s \in S : s <= Max(S)
      BY <2>1, <2>2, MaxFacts DEF S
    <3> QED
      BY <2>1, <3>1 DEF S
  <2> QED
    BY <1>4, <2>3 DEF a
<1> HIDE DEF r
<1>6. /\ h.node = n /\ h.range = r /\ h.name = n.name
      /\ h.lines = <<LineOf(r.from), LineOf(r.to - 1)>>
      /\ DOMAIN h = {"node", "range", "name", "lines"}
  BY <1>3, <1>5
<1>7. r = Between(r.from, r.to)
  BY <1>4 DEF r
<1>8. /\ h.node = n
      /\ h.range.from \in Nat /\ h.range.from <= n.from
      /\ h.range.to = n.to
      /\ h.range = Between(h.range.from, h.range.to)
      /\ h.name = n.name
      /\ h.lines = <<LineOf(h.range.from), LineOf(h.range.to - 1)>>
      /\ DOMAIN h = {"node", "range", "name", "lines"}
  BY <1>2, <1>4, <1>6, <1>7
<1> QED
  BY <1>8 DEF h

\* Only the name is qualified.
LEMMA QualifyKeeps ==
    ASSUME input \in Inputs, NEW n \in input.nodes, NEW all
    PROVE  LET h == HitOf(n)
               q == Qualify(h, all)
           IN  q.node = n /\ q.range = h.range /\ q.lines = h.lines
<1> DEFINE h == HitOf(n)
           q == Qualify(h, all)
<1>1. h.node = n /\ DOMAIN h = {"node", "range", "name", "lines"}
  BY HitFacts
<1>2. q = h \/ \E name : q = [h EXCEPT !.name = name]
  BY DEF Qualify
<1> HIDE DEF h, q
<1>3. q.node = n /\ q.range = h.range /\ q.lines = h.lines
  BY <1>1, <1>2
<1> QED
  BY <1>3 DEF h, q

\* A symbol of the file.
IsSymbol(s) ==
    /\ s.node \in input.nodes
    /\ s = Qualify(HitOf(s.node), Matched)
    /\ s.range.from \in Nat /\ s.range.from <= s.node.from
    /\ s.range.to = s.node.to
    /\ s.range = Between(s.range.from, s.range.to)
    /\ s.lines = <<LineOf(s.range.from), LineOf(s.range.to - 1)>>

\* The symbols are one for each node.
LEMMA QualifiedFacts ==
    ASSUME input \in Inputs
    PROVE  /\ IsFiniteSet(Qualified)
           /\ \A s \in Qualified : IsSymbol(s)
<1>1. ASSUME NEW s \in Qualified
      PROVE  IsSymbol(s)
  <2>1. PICK n \in input.nodes : s = Qualify(HitOf(n), Matched)
    BY DEF Qualified, Matched
  <2>2. s.node = n /\ s.range = HitOf(n).range /\ s.lines = HitOf(n).lines
    BY <2>1, QualifyKeeps
  <2>3. /\ HitOf(n).range.from \in Nat /\ HitOf(n).range.from <= n.from
        /\ HitOf(n).range.to = n.to
        /\ HitOf(n).range = Between(HitOf(n).range.from, HitOf(n).range.to)
        /\ HitOf(n).lines = <<LineOf(HitOf(n).range.from), LineOf(HitOf(n).range.to - 1)>>
    BY HitFacts
  <2> QED
    BY <2>1, <2>2, <2>3 DEF IsSymbol
<1>2. IsFiniteSet(Qualified)
  <2> DEFINE f == [n \in input.nodes |-> Qualify(HitOf(n), Matched)]
  <2>1. IsFiniteSet({f[n] : n \in input.nodes})
    <3>1. IsFiniteSet(input.nodes)
      BY InputFacts
    <3>2. DOMAIN f = input.nodes
      OBVIOUS
    <3> HIDE DEF f
    <3> QED
      BY <3>1, <3>2, FiniteValues
  <2>2. Qualified = {f[n] : n \in input.nodes}
    BY DEF Qualified, Matched
  <2> QED
    BY <2>1, <2>2
<1> QED
  BY <1>1, <1>2

\* Two symbols of one node are one.
LEMMA SymbolOfNode ==
    ASSUME NEW s, NEW t, IsSymbol(s), IsSymbol(t), s.node = t.node
    PROVE  s = t
  BY DEF IsSymbol

\* order_with_containers leaves no tie.
LEMMA ByRangeOrder ==
    ASSUME input \in Inputs
    PROVE  StrictOrder(Qualified, ByRange(Qualified))
<1> DEFINE R == ByRange(Qualified)
           Pre(a, b) == \/ a.range.from < b.range.from
                        \/ /\ a.range.from = b.range.from
                           /\ a.range.to < b.range.to
                        \/ a.range = b.range /\ Found(a.node, b.node)
<1>1. \A a, b \in Qualified : <<a, b>> \in R <=> Pre(a, b)
  BY DEF ByRange
<1>2. \A s \in Qualified :
         /\ IsSymbol(s) /\ s.node \in input.nodes
         /\ s.range.from \in Int /\ s.range.to \in Int
         /\ s.node.from \in Int /\ s.node.to \in Int
         /\ s.range.to = s.node.to
         /\ s.range = Between(s.range.from, s.range.to)
  BY QualifiedFacts, InputFacts DEF IsSymbol
<1> HIDE DEF R
<1>3. ASSUME NEW a \in Qualified
      PROVE  ~Pre(a, a)
  BY <1>2 DEF Found
<1>4. ASSUME NEW a \in Qualified, NEW b \in Qualified, NEW c \in Qualified,
             Pre(a, b), Pre(b, c)
      PROVE  Pre(a, c)
  BY <1>2, <1>4 DEF Found
<1>5. ASSUME NEW a \in Qualified, NEW b \in Qualified, a # b
      PROVE  Pre(a, b) \/ Pre(b, a)
  <2>1. a.node # b.node
    BY <1>2, <1>5, SymbolOfNode
  <2>2. a.node.from # b.node.from \/ a.node.to # b.node.to
    BY <1>2, <2>1, InputFacts
  <2>3. CASE a.range.from = b.range.from /\ a.range.to = b.range.to
    <3>1. a.range = b.range
      BY <1>2, <2>3
    <3>2. a.node.from < b.node.from \/ b.node.from < a.node.from
      BY <1>2, <2>2, <2>3
    <3> QED
      BY <3>1, <3>2 DEF Found
  <2>4. CASE ~(a.range.from = b.range.from /\ a.range.to = b.range.to)
    BY <1>2, <2>4
  <2> QED
    BY <2>3, <2>4
<1> HIDE DEF Pre
<1> QED
  BY <1>1, <1>3, <1>4, <1>5 DEF StrictOrder, R

\* What collect_symbols and order_with_containers return.
LEMMA SymbolFacts ==
    ASSUME input \in Inputs
    PROVE  /\ Symbols \in Seq(Qualified)
           /\ \A i \in DOMAIN Symbols : Symbols[i] \in Qualified /\ IsSymbol(Symbols[i])
           /\ \A i, j \in DOMAIN Symbols : Symbols[i] = Symbols[j] => i = j
<1> DEFINE R == ByRange(Qualified)
<1>1. Symbols = Ordered(Qualified, R)
  BY DEF Symbols, Qualified, Matched
<1>2. IsFiniteSet(Qualified) /\ StrictOrder(Qualified, R)
  BY QualifiedFacts, ByRangeOrder
<1> HIDE DEF R
<1>3. /\ Symbols \in Seq(Qualified)
      /\ Cardinality(Qualified) \in Nat
      /\ DOMAIN Symbols = 1 .. Cardinality(Qualified)
      /\ \A i \in 1 .. Cardinality(Qualified) :
            Symbols[i] \in Qualified /\ Place(Qualified, R, Symbols[i]) = i - 1
  BY <1>1, <1>2, OrderedFacts
<1>4. ASSUME NEW i \in DOMAIN Symbols, NEW j \in DOMAIN Symbols, Symbols[i] = Symbols[j]
      PROVE  i = j
  <2>1. i - 1 = j - 1 /\ i \in Int /\ j \in Int
    BY <1>3, <1>4
  <2> QED
    BY <2>1
<1> QED
  BY <1>3, <1>4, QualifiedFacts

-----------------------------------------------------------------------------
(***************************************************************************)
(* Bodies: what a container leaves out is what its members hold.           *)
(***************************************************************************)

\* Ranges inside a range.
Inside(outer, members) ==
    /\ outer.from \in Nat /\ outer.to \in Nat /\ outer.from <= outer.to
    /\ \A m \in members : /\ m.from \in Nat /\ m.to \in Nat
                          /\ outer.from <= m.from /\ m.from <= m.to /\ m.to <= outer.to

\* The cursor stands behind every member it has gone through.
LEMMA CursorFacts ==
    ASSUME NEW outer, NEW members, Inside(outer, members)
    PROVE  /\ Cursor(outer, members) \in Nat
           /\ outer.from <= Cursor(outer, members)
           /\ Cursor(outer, members) <= outer.to
           /\ \A m \in members : m.to <= Cursor(outer, members)
           /\ \/ Cursor(outer, members) = outer.from
              \/ \E m \in members : Cursor(outer, members) = m.to
<1> DEFINE S == {outer.from} \union {m.to : m \in members}
           a == outer.from
           b == outer.to
<1>1. a \in Nat /\ b \in Nat /\ a <= b
  BY DEF Inside
<1>2. \A m \in members : m.to \in Nat /\ m.to <= b
  BY DEF Inside
<1> HIDE DEF a, b
<1>3. /\ S \in SUBSET Int /\ S # {} /\ \A s \in S : s <= b
      /\ a \in S /\ \A m \in members : m.to \in S
  BY <1>1, <1>2 DEF a
<1>4. \A s \in S : s = a \/ \E m \in members : s = m.to
  BY DEF a
<1>5. Cursor(outer, members) = Max(S)
  BY DEF Cursor
<1>6. \A s \in S : s \in Nat
  BY <1>1, <1>2 DEF a
<1> HIDE DEF S
<1>7. Max(S) \in S /\ \A s \in S : s <= Max(S)
  BY <1>1, <1>3, MaxFacts
<1> QED
  BY <1>3, <1>4, <1>5, <1>6, <1>7 DEF a, b

\* body_minus_members: every offset of the range is in the body or in a member,
\* and the body reaches nowhere else.
LEMMA MinusFacts ==
    ASSUME NEW outer, NEW members, Inside(outer, members)
    PROVE  /\ MinusMembers(outer, members) \subseteq Span(outer)
           /\ \A o \in Span(outer) :
                 \/ o \in MinusMembers(outer, members)
                 \/ \E m \in members : o \in Span(m)
<1> DEFINE Piece(m) == Cursor(outer, Earlier(m, members)) .. (m.from - 1)
<1>1. outer.from \in Nat /\ outer.to \in Nat /\ outer.from <= outer.to
  BY DEF Inside
<1>2. \A m \in members : /\ m.from \in Nat /\ m.to \in Nat
                         /\ outer.from <= m.from /\ m.to <= outer.to
  BY DEF Inside
<1>3. \A o : o \in MinusMembers(outer, members) <=>
                \/ o \in Cursor(outer, members) .. (outer.to - 1)
                \/ \E m \in members : o \in Piece(m)
  <2>1. MinusMembers(outer, members) =
            (UNION {Piece(m) : m \in members}) \union (Cursor(outer, members) .. (outer.to - 1))
    BY DEF MinusMembers
  <2> DEFINE pieces == {Piece(m) : m \in members}
  <2>2. \A o : (\E p \in pieces : o \in p) <=> \E m \in members : o \in Piece(m)
    <3> HIDE DEF Piece
    <3> QED
      OBVIOUS
  <2>3. MinusMembers(outer, members) =
            (UNION pieces) \union (Cursor(outer, members) .. (outer.to - 1))
    BY <2>1
  <2> DEFINE tail == Cursor(outer, members) .. (outer.to - 1)
  <2> HIDE DEF pieces, Piece
  <2>4. ASSUME NEW A, NEW B, NEW o
        PROVE  o \in (UNION A) \union B <=> o \in B \/ \E p \in A : o \in p
    OBVIOUS
  <2>5. \A o : o \in (UNION pieces) \union tail <=> o \in tail \/ \E p \in pieces : o \in p
    <3> HIDE DEF tail
    <3> QED
      BY <2>4
  <2> QED
    BY <2>2, <2>3, <2>5
<1>4. \A m \in members : Inside(outer, Earlier(m, members))
  BY <1>1, <1>2 DEF Inside, Earlier
<1>5. /\ Cursor(outer, members) \in Nat /\ outer.from <= Cursor(outer, members)
      /\ \/ Cursor(outer, members) = outer.from
         \/ \E m \in members : Cursor(outer, members) = m.to
  BY CursorFacts
<1>6. \A m \in members : /\ Cursor(outer, Earlier(m, members)) \in Nat
                         /\ outer.from <= Cursor(outer, Earlier(m, members))
                         /\ \/ Cursor(outer, Earlier(m, members)) = outer.from
                            \/ \E k \in Earlier(m, members) :
                                  Cursor(outer, Earlier(m, members)) = k.to
  BY <1>4, CursorFacts
<1>7. \A o \in Span(outer) : o \in Nat /\ outer.from <= o /\ o < outer.to
  BY <1>1 DEF Span
<1>8. ASSUME NEW o \in Span(outer), \A m \in members : o \notin Span(m)
      PROVE  o \in MinusMembers(outer, members)
  <2>1. \A m \in members : o < m.from \/ m.to <= o
    BY <1>2, <1>7, <1>8 DEF Span
  <2> DEFINE beyond == {m.from : m \in {k \in members : o < k.from}}
  <2>2. CASE beyond = {}
    <3>1. \A m \in members : ~(o < m.from)
      BY <2>2
    <3>2. Cursor(outer, members) <= o
      BY <1>2, <1>5, <1>7, <2>1, <3>1
    <3>3. o \in Cursor(outer, members) .. (outer.to - 1)
      BY <1>1, <1>5, <1>7, <3>2
    <3> QED
      BY <1>3, <3>3
  <2>3. CASE beyond # {}
    <3>1. beyond \in SUBSET Nat
      BY <1>2
    <3>2. PICK least \in beyond : \A x \in beyond : least <= x
      BY <2>3, <3>1, LeastNumber
    <3>3. PICK m \in members : o < m.from /\ least = m.from
      BY <3>2
    <3>4. ASSUME NEW k \in Earlier(m, members)
          PROVE  k.to <= o
      <4>1. k \in members /\ k.from < m.from
        BY DEF Earlier
      <4>2. ~(o < k.from)
        <5> SUFFICES ASSUME o < k.from PROVE FALSE
          OBVIOUS
        <5>1. k.from \in beyond
          BY <4>1
        <5> HIDE DEF beyond
        <5>2. m.from <= k.from
          BY <3>2, <3>3, <5>1
        <5> QED
          BY <1>2, <4>1, <5>2
      <4> QED
        BY <2>1, <4>1, <4>2
    <3>5. Cursor(outer, Earlier(m, members)) <= o
      BY <1>6, <1>7, <3>4
    <3>6. o \in Piece(m)
      BY <1>2, <1>6, <1>7, <3>3, <3>5
    <3> QED
      BY <1>3, <3>3, <3>6
  <2> QED
    BY <2>2, <2>3
<1>9. ASSUME NEW o \in MinusMembers(outer, members)
      PROVE  o \in Span(outer)
  <2>1. CASE o \in Cursor(outer, members) .. (outer.to - 1)
    BY <1>1, <1>5, <2>1 DEF Span
  <2>2. CASE \E m \in members : o \in Piece(m)
    <3>1. PICK m \in members : o \in Piece(m)
      BY <2>2
    <3>2. o \in Int /\ outer.from <= o /\ o < m.from
      BY <1>1, <1>2, <1>6, <3>1
    <3>3. m.from <= outer.to
      BY <1>1, <1>2 DEF Inside
    <3> QED
      BY <1>1, <1>2, <3>2, <3>3 DEF Span
  <2> QED
    BY <1>3, <2>1, <2>2
<1> QED
  BY <1>8, <1>9

\* Symbols and their ranges, in numbers.
LEMMA RangeFacts ==
    ASSUME input \in Inputs, NEW s, IsSymbol(s)
    PROVE  /\ s.range.from \in Nat /\ s.range.to \in Nat
           /\ s.range.from < s.range.to /\ s.range.to <= Size
           /\ s.node.from \in Nat /\ s.node.to \in Nat
           /\ s.range.from <= s.node.from /\ s.node.from < s.node.to
           /\ s.node.to = s.range.to
           /\ Size \in Nat
           /\ Span(s.range) = s.range.from .. (s.range.to - 1)
           /\ Span(s.range) \subseteq 0 .. (Size - 1)
<1>1. /\ s.node \in input.nodes /\ s.range.from \in Nat /\ s.range.from <= s.node.from
      /\ s.range.to = s.node.to
  BY DEF IsSymbol
<1>2. /\ s.node.from \in Nat /\ s.node.to \in Nat /\ s.node.from < s.node.to
      /\ s.node.to <= Size /\ Size \in Nat
  BY <1>1, InputFacts
<1>3. Span(s.range) = s.range.from .. (s.range.to - 1)
  BY DEF Span
<1>4. \A o \in s.range.from .. (s.range.to - 1) : o \in 0 .. (Size - 1)
  BY <1>1, <1>2
<1> QED
  BY <1>1, <1>2, <1>3, <1>4

\* A character of a symbol is in its body or in that of a shorter symbol inside it.
LEMMA BodyFacts ==
    ASSUME input \in Inputs, hits = Symbols, NEW i \in DOMAIN hits
    PROVE  /\ BodyOf(hits[i]) \subseteq Span(hits[i].range)
           /\ \A o \in Span(hits[i].range) :
                 \/ o \in BodyOf(hits[i])
                 \/ \E j \in DOMAIN hits : /\ Encloses(hits[i].range, hits[j].range)
                                           /\ o \in Span(hits[j].range)
<1> DEFINE s == hits[i]
           inner == {j \in DOMAIN hits : Encloses(s.range, hits[j].range)}
           members == {hits[j].range : j \in inner}
<1>1. BodyOf(s) = IF s.node.container /\ members # {}
                  THEN MinusMembers(s.range, members) ELSE Span(s.range)
  BY DEF BodyOf
<1>2. \A j \in DOMAIN hits : IsSymbol(hits[j])
  BY SymbolFacts
<1>3. CASE BodyOf(s) = Span(s.range)
  BY <1>3
<1>4. CASE BodyOf(s) = MinusMembers(s.range, members)
  <2>1. Inside(s.range, members)
    <3>1. ASSUME NEW j \in inner
          PROVE  /\ hits[j].range.from \in Nat /\ hits[j].range.to \in Nat
                 /\ s.range.from <= hits[j].range.from
                 /\ hits[j].range.from <= hits[j].range.to
                 /\ hits[j].range.to <= s.range.to
      <4>1. Encloses(s.range, hits[j].range) /\ IsSymbol(hits[j])
        BY <1>2
      <4>2. /\ hits[j].range.from \in Nat /\ hits[j].range.to \in Nat
            /\ hits[j].range.from < hits[j].range.to
        BY <4>1, RangeFacts
      <4> QED
        BY <4>1, <4>2 DEF Encloses
    <3>2. s.range.from \in Nat /\ s.range.to \in Nat /\ s.range.from <= s.range.to
      BY <1>2, RangeFacts
    <3> HIDE DEF inner, s
    <3> QED
      BY <3>1, <3>2 DEF Inside
  <2>2. /\ MinusMembers(s.range, members) \subseteq Span(s.range)
        /\ \A o \in Span(s.range) : \/ o \in MinusMembers(s.range, members)
                                    \/ \E m \in members : o \in Span(m)
    <3> HIDE DEF members, s
    <3> QED
      BY <2>1, MinusFacts
  <2>3. ASSUME NEW m \in members
        PROVE  \E j \in DOMAIN hits : Encloses(s.range, hits[j].range) /\ m = hits[j].range
    OBVIOUS
  <2> HIDE DEF members
  <2> QED
    BY <1>4, <2>2, <2>3
<1> QED
  BY <1>1, <1>3, <1>4

\* If the bodies are kept, so are the symbols.
LEMMA BodiesHoldSymbols ==
    ASSUME input \in Inputs, hits = Symbols, NEW kept,
           \A i \in DOMAIN hits : Solid(BodyOf(hits[i])) \subseteq kept
    PROVE  \A i \in DOMAIN hits : Solid(Span(hits[i].range)) \subseteq kept
<1> DEFINE Extent(i) == hits[i].range.to - hits[i].range.from
           Bad(i) == \E o \in Solid(Span(hits[i].range)) : o \notin kept
           sizes == {Extent(i) : i \in {j \in DOMAIN hits : Bad(j)}}
<1>1. \A i \in DOMAIN hits : /\ hits[i].range.from \in Nat /\ hits[i].range.to \in Nat
                             /\ hits[i].range.from < hits[i].range.to
                             /\ hits[i].range = Between(hits[i].range.from, hits[i].range.to)
  BY SymbolFacts, RangeFacts DEF IsSymbol
<1>2. \A i \in DOMAIN hits : Extent(i) \in Nat
  BY <1>1
<1> SUFFICES ASSUME NEW i0 \in DOMAIN hits, Bad(i0) PROVE FALSE
  OBVIOUS
<1>3. sizes \in SUBSET Nat /\ sizes # {}
  <2>1. Extent(i0) \in sizes
    OBVIOUS
  <2> HIDE DEF Extent, Bad
  <2> QED
    BY <1>2, <2>1
<1>4. PICK least \in sizes : \A x \in sizes : least <= x
  BY <1>3, LeastNumber
<1>5. PICK i \in DOMAIN hits : Bad(i) /\ least = Extent(i)
  BY <1>4
<1>6. PICK o \in Solid(Span(hits[i].range)) : o \notin kept
  BY <1>5
<1>7. o \in Span(hits[i].range) /\ ~Blank(o)
  BY <1>6 DEF Solid
<1>8. CASE o \in BodyOf(hits[i])
  BY <1>6, <1>7, <1>8 DEF Solid
<1>9. CASE \E j \in DOMAIN hits : Encloses(hits[i].range, hits[j].range)
                                   /\ o \in Span(hits[j].range)
  <2>1. PICK j \in DOMAIN hits : Encloses(hits[i].range, hits[j].range)
                                   /\ o \in Span(hits[j].range)
    BY <1>9
  <2>2. Bad(j)
    BY <1>6, <1>7, <2>1 DEF Solid
  <2>3. Extent(j) < Extent(i)
    <3>1. /\ hits[i].range.from <= hits[j].range.from
          /\ hits[j].range.to <= hits[i].range.to
          /\ hits[i].range # hits[j].range
      BY <2>1 DEF Encloses
    <3>2. hits[i].range.from # hits[j].range.from \/ hits[i].range.to # hits[j].range.to
      BY <1>1, <3>1
    <3> QED
      BY <1>1, <3>1, <3>2
  <2>4. Extent(j) \in sizes
    BY <2>2
  <2> HIDE DEF sizes
  <2>5. Extent(i) <= Extent(j)
    BY <1>4, <1>5, <2>4
  <2> HIDE DEF Extent
  <2> QED
    BY <1>2, <2>3, <2>5
<1> QED
  BY <1>7, <1>8, <1>9, BodyFacts

-----------------------------------------------------------------------------
(***************************************************************************)
(* The invariant.  The symbols before the current one have left their      *)
(* text in the chunks, as fragments that follow each other; what the loop  *)
(* over statements and the loop over lines have made of the current one    *)
(* does so too, up to where they stand.                                    *)
(***************************************************************************)

\* The ends of the statements inside a symbol.
EndsIn(hit) == {e \in input.ends : hit.node.from < e /\ e <= hit.node.to}

\* A text beyond the limit could not be cut: no statement ends inside it, or,
\* in the last one, only in the first half of the limit.
Uncut(text, ends, final) ==
    ends # {} /\ Cardinality(text) > Limit =>
        LET inner == {e \in ends : Min(text) < e /\ e <= Max(text)}
        IN  IF final THEN \A e \in inner : e - Min(text) < Limit \div 2
            ELSE inner = {}

\* The chunks of a symbol that are fragments.
Own(cs, hit) == {i \in DOMAIN cs : cs[i].of = hit /\ cs[i].fragment # None}

\* FragmentsFollow for one symbol.
Follow(cs, hit) ==
    \A i \in Own(cs, hit) :
        /\ \A j \in Own(cs, hit) : i < j => \A o \in cs[i].text, p \in cs[j].text : o < p
        /\ Uncut(cs[i].text, EndsIn(hit), i = Max(Own(cs, hit)))

\* A character is in the text of some chunk.
InSome(cs, o) == \E i \in DOMAIN cs : o \in cs[i].text

\* The chunks of symbols.
Pieces ==
    [symbol : {h.name : h \in ToSet(hits)}, lines : Nat \X Nat,
     fragment : Nat \union {None}, text : SUBSET Nat, of : ToSet(hits)]

\* The chunks of the symbols before the n-th, with all their text.
CutUpTo(cs, n) ==
    /\ cs \in Seq(Pieces)
    /\ \A i \in DOMAIN cs : \E j \in 1 .. (n - 1) :
          /\ cs[i].of = hits[j]
          /\ cs[i].lines = hits[j].lines
          /\ cs[i].text \subseteq Span(hits[j].range)
    /\ \A j \in 1 .. (n - 1) :
          /\ \A o \in Solid(BodyOf(hits[j])) : InSome(cs, o)
          /\ Follow(cs, hits[j])

Working ==
    /\ hits = Symbols
    /\ at \in 1 .. (Len(hits) + 1)
    /\ covered \subseteq {hits[j].range : j \in DOMAIN hits}
    /\ CutUpTo(chunks, at)

\* Fragments that hold all of a range, in order, each of which could not be cut.
Cover(frags, from, to, ends) ==
    /\ frags \in Seq([text : SUBSET Nat, prefixed : BOOLEAN])
    /\ \A i \in DOMAIN frags : /\ frags[i].text \subseteq from .. (to - 1)
                               /\ Uncut(frags[i].text, ends, FALSE)
    /\ \A i, j \in DOMAIN frags :
          i < j => \A o \in frags[i].text, p \in frags[j].text : o < p
    /\ \A o \in from .. (to - 1) : InSome(frags, o)

\* The loop over the statement ends: the fragments hold the text up to the
\* last cut, every end is behind it or still to come, and those between the
\* last cut and the last end are too near to it.
Cutting(start, last, ends, frags, hit) ==
    /\ start \in Nat /\ last \in Nat
    /\ hit.range.from <= start /\ start <= last /\ last <= hit.range.to
    /\ last # start => last - start < Limit \div 2
    /\ ends \in Seq(EndsIn(hit))
    /\ \A i \in DOMAIN ends : last < ends[i]
    /\ \A i, j \in DOMAIN ends : i < j => ends[i] < ends[j]
    /\ \A e \in EndsIn(hit) :
          \/ e <= last /\ (start < e => e - start < Limit \div 2)
          \/ \E i \in DOMAIN ends : e = ends[i]
    /\ Cover(frags, hit.range.from, start, EndsIn(hit))

CutAt(c, hit) ==
    /\ DOMAIN c = {"start", "last", "ends", "frags"}
    /\ Cutting(c.start, c.last, c.ends, c.frags, hit)

CutInv ==
    /\ at \in DOMAIN hits
    /\ \E o \in BodyOf(Current) : ~Blank(o)
    /\ CutAt(cut, Current)

\* The number of a line of a body.
LineIn(body, o) == Cardinality({p \in Newlines(body) : p < o}) + 1

\* The lines of a body before the k-th.
LinesTo(body, k) == {o \in body \ Newlines(body) : LineIn(body, o) < k}

\* The loop over the lines: the fragments and the buffer hold the lines so
\* far, in order.
LinesAt(body, sp) ==
    /\ sp.line \in Nat \ {0}
    /\ sp.size \in Nat
    /\ sp.size = 0 => sp.buf = {}
    /\ sp.out \in Seq(SUBSET LinesTo(body, sp.line))
    /\ sp.buf \in SUBSET LinesTo(body, sp.line)
    /\ \A o \in LinesTo(body, sp.line) :
          o \in sp.buf \/ \E i \in DOMAIN sp.out : o \in sp.out[i]
    /\ \A i \in DOMAIN sp.out : \A o \in sp.out[i] :
          /\ \A p \in sp.buf : o < p
          /\ \A j \in DOMAIN sp.out : i < j => \A p \in sp.out[j] : o < p

LinesInv ==
    /\ at \in DOMAIN hits
    /\ EndsIn(Current) = {}
    /\ LinesAt(BodyOf(Current), split)

\* The first two parts of RecordsDescribe.
Described ==
    \A i \in DOMAIN chunks :
        /\ \A o \in Solid(chunks[i].text) :
              LineOf(o) \in chunks[i].lines[1] .. chunks[i].lines[2]
        /\ chunks[i].lines[2] <= LineOf(Max(chunks[i].text \union Span(chunks[i].of.range)))

ChunkInv ==
    /\ input \in Inputs
    /\ pc \in {"path", "parse"} =>
          hits = <<>> /\ at = 1 /\ covered = {} /\ chunks = <<>>
    /\ pc # "lines" => split = NoSplit
    /\ pc \in {"hit", "cut", "lines"} => Working
    /\ pc = "cut" => CutInv
    /\ pc = "lines" => LinesInv
    /\ pc = "done" => hits \in {<<>>, Symbols} /\ Described
    /\ NothingLost
    /\ FragmentsFollow

\* What is said of the chunks depends on the file and its symbols only.
LEMMA CutFrame ==
    ASSUME input' = input, hits' = hits
    PROVE  CutUpTo(chunks, at)' <=> CutUpTo(chunks', at')
  BY DEF CutUpTo, Pieces, Follow, Own, InSome, Uncut, EndsIn, Solid, Blank, Char, BodyOf

\* The statement ends in order.
LEMMA EndsFacts ==
    ASSUME input \in Inputs, NEW hit
    PROVE  /\ StatementEnds(hit) \in Seq(EndsIn(hit))
           /\ \A i, j \in DOMAIN StatementEnds(hit) :
                 i < j => StatementEnds(hit)[i] < StatementEnds(hit)[j]
           /\ \A e \in EndsIn(hit) : \E i \in DOMAIN StatementEnds(hit) : e = StatementEnds(hit)[i]
           /\ ToSet(StatementEnds(hit)) = EndsIn(hit)
           /\ StatementEnds(hit) = <<>> <=> EndsIn(hit) = {}
           /\ EndsIn(hit) \subseteq Nat
<1> DEFINE S == EndsIn(hit)
           R == {p \in S \X S : p[1] < p[2]}
           s == StatementEnds(hit)
<1>1. Size \in Nat /\ input.ends \subseteq 0 .. Size
  BY InputFacts
<1>2. S \subseteq 0 .. Size
  BY <1>1 DEF EndsIn
<1>3. IsFiniteSet(S)
  <2>1. 0 \in Int /\ Size \in Int
    BY <1>1
  <2>2. IsFiniteSet(0 .. Size)
    BY <2>1, FS_Interval
  <2> HIDE DEF S
  <2> QED
    BY <1>2, <2>2, FS_Subset
<1>4. s = Ordered(S, R)
  BY DEF StatementEnds, InOrder, EndsIn
<1> HIDE DEF S, s
<1>5. StrictOrder(S, R)
  BY <1>1, <1>2 DEF StrictOrder
<1>6. \A x, y \in S : <<x, y>> \in R <=> x < y
  OBVIOUS
<1> HIDE DEF R
<1>7. /\ s \in Seq(S)
      /\ Cardinality(S) \in Nat
      /\ DOMAIN s = 1 .. Cardinality(S)
      /\ \A i \in 1 .. Cardinality(S) : s[i] \in S
      /\ \A x \in S : /\ Place(S, R, x) + 1 \in 1 .. Cardinality(S)
                      /\ s[Place(S, R, x) + 1] = x
      /\ \A i, j \in 1 .. Cardinality(S) : i < j <=> <<s[i], s[j]>> \in R
  BY <1>3, <1>4, <1>5, OrderedFacts
<1>8. \A i, j \in DOMAIN s : i < j => s[i] < s[j]
  BY <1>6, <1>7
<1>9. \A e \in S : \E i \in DOMAIN s : e = s[i]
  BY <1>7
<1>10. ToSet(s) = S
  BY <1>7, <1>9 DEF ToSet
<1>11. s = <<>> <=> S = {}
  <2>1. CASE S = {}
    <3>1. Cardinality(S) = 0
      BY <2>1, FS_EmptySet
    <3>2. DOMAIN s = {}
      BY <1>7, <3>1
    <3> QED
      BY <1>7, <2>1, <3>2
  <2>2. CASE S # {}
    BY <1>9, <2>2
  <2> QED
    BY <2>1, <2>2
<1>12. S \subseteq Nat
  BY <1>1, <1>2
<1> QED
  BY <1>7, <1>8, <1>9, <1>10, <1>11, <1>12 DEF S, s

\* What Follow says is FragmentsFollow.
LEMMA FollowIs ==
    ASSUME input \in Inputs
    PROVE  FragmentsFollow <=> (Chunked => \A h \in DOMAIN hits : Follow(chunks, hits[h]))
<1>1. \A h : ToSet(StatementEnds(h)) = EndsIn(h)
  BY EndsFacts
<1>2. \A h : FragmentsOf(h) = Own(chunks, h)
  BY DEF FragmentsOf, Own
<1> QED
  BY <1>1, <1>2 DEF FragmentsFollow, Follow, Uncut

-----------------------------------------------------------------------------
(***************************************************************************)
(* The chunks of one symbol.                                               *)
(***************************************************************************)

\* Texts that may become the fragments of a symbol.
Sound(texts, hit) ==
    /\ texts \in Seq(SUBSET Span(hit.range))
    /\ \A i, j \in DOMAIN texts : i < j => \A o \in texts[i], p \in texts[j] : o < p
    /\ \A i \in DOMAIN texts : Uncut(texts[i], EndsIn(hit), i = Len(texts))
    /\ \A o \in Solid(BodyOf(hit)) : \E i \in DOMAIN texts : o \in texts[i]

\* A sequence whose elements are of another set too.
LEMMA SeqInto ==
    ASSUME NEW A, NEW B, NEW s \in Seq(A), \A i \in DOMAIN s : s[i] \in B
    PROVE  s \in Seq(B)
<1> DEFINE n == Len(s)
<1>1. n \in Nat /\ DOMAIN s = 1 .. n /\ s = [i \in 1 .. n |-> s[i]]
  OBVIOUS
<1> HIDE DEF n
<1>2. s \in [1 .. n -> B]
  BY <1>1
<1> QED
  BY <1>1, <1>2

\* A sequence put behind another.
LEMMA Behind ==
    ASSUME NEW X, NEW s \in Seq(X), NEW t \in Seq(X)
    PROVE  /\ s \o t \in Seq(X)
           /\ Len(s \o t) = Len(s) + Len(t)
           /\ Len(s) \in Nat /\ Len(t) \in Nat
           /\ DOMAIN s = 1 .. Len(s) /\ DOMAIN t = 1 .. Len(t)
           /\ DOMAIN (s \o t) = 1 .. (Len(s) + Len(t))
           /\ \A i \in 1 .. Len(s) : (s \o t)[i] = s[i]
           /\ \A i \in 1 .. Len(t) : (s \o t)[Len(s) + i] = t[i]
           /\ \A i \in 1 .. (Len(s) + Len(t)) :
                 \/ i \in 1 .. Len(s)
                 \/ \E k \in 1 .. Len(t) : i = Len(s) + k
<1>1. /\ s \o t \in Seq(X) /\ Len(s \o t) = Len(s) + Len(t)
      /\ Len(s) \in Nat /\ Len(t) \in Nat
      /\ DOMAIN s = 1 .. Len(s) /\ DOMAIN t = 1 .. Len(t)
      /\ DOMAIN (s \o t) = 1 .. (Len(s) + Len(t))
  OBVIOUS
<1>2. \A i \in 1 .. Len(s) : (s \o t)[i] = s[i]
  OBVIOUS
<1>3. \A i \in 1 .. Len(t) : (s \o t)[Len(s) + i] = t[i]
  OBVIOUS
<1>4. ASSUME NEW i \in 1 .. (Len(s) + Len(t))
      PROVE  i \in 1 .. Len(s) \/ \E k \in 1 .. Len(t) : i = Len(s) + k
  <2>1. CASE i <= Len(s)
    BY <1>1, <2>1
  <2>2. CASE i > Len(s)
    <3>1. i - Len(s) \in 1 .. Len(t) /\ i = Len(s) + (i - Len(s))
      BY <1>1, <2>2
    <3> QED
      BY <3>1
  <2> QED
    BY <1>1, <2>1, <2>2
<1> QED
  BY <1>1, <1>2, <1>3, <1>4

\* New chunks of the current symbol leave the earlier symbols what they have.
LEMMA EarlierStay ==
    ASSUME NEW cs \in Seq(Pieces), NEW new \in Seq(Pieces), NEW hit,
           \A i \in DOMAIN new : new[i].of # hit,
           Follow(cs, hit)
    PROVE  Follow(cs \o new, hit)
<1> DEFINE all == cs \o new
           n == Len(cs)
<1>1. /\ n \in Nat /\ DOMAIN cs = 1 .. n
      /\ \A i \in 1 .. n : all[i] = cs[i] /\ i \in DOMAIN all
      /\ \A i \in DOMAIN all : \/ i \in 1 .. n
                               \/ \E k \in DOMAIN new : all[i] = new[k]
  <2> DEFINE m == Len(new)
  <2>1. /\ n \in Nat /\ m \in Nat /\ DOMAIN cs = 1 .. n /\ DOMAIN new = 1 .. m
        /\ DOMAIN all = 1 .. (n + m)
        /\ \A i \in 1 .. n : all[i] = cs[i]
        /\ \A i \in 1 .. m : all[n + i] = new[i]
        /\ \A i \in 1 .. (n + m) : i \in 1 .. n \/ \E k \in 1 .. m : i = n + k
    BY Behind
  <2> HIDE DEF all, n, m
  <2>2. \A i \in 1 .. n : i \in 1 .. (n + m)
    BY <2>1
  <2>3. \A i \in 1 .. n : all[i] = cs[i] /\ i \in DOMAIN all
    BY <2>1, <2>2
  <2>4. ASSUME NEW i \in DOMAIN all, i \notin 1 .. n
        PROVE  \E k \in DOMAIN new : all[i] = new[k]
    <3>1. PICK k \in 1 .. m : i = n + k
      BY <2>1, <2>4
    <3> QED
      BY <2>1, <3>1
  <2> QED
    BY <2>1, <2>3, <2>4
<1> HIDE DEF all, n
<1>2. Own(all, hit) = Own(cs, hit)
  BY <1>1 DEF Own
<1>3. \A i \in Own(cs, hit) : all[i] = cs[i]
  BY <1>1 DEF Own
<1> QED
  BY <1>2, <1>3 DEF Follow, all

\* The fragments of the current symbol follow each other among the chunks.
LEMMA FragmentsAdded ==
    ASSUME NEW cs \in Seq(Pieces), NEW new \in Seq(Pieces), NEW hit, NEW texts,
           \A i \in DOMAIN cs : cs[i].of # hit,
           DOMAIN new = DOMAIN texts,
           \A i \in DOMAIN new : /\ new[i].of = hit /\ new[i].fragment # None
                                 /\ new[i].text = texts[i],
           texts # <<>>,
           Sound(texts, hit)
    PROVE  Follow(cs \o new, hit)
<1> DEFINE all == cs \o new
           n == Len(cs)
           k == Len(texts)
           own == Own(all, hit)
<1>1. k \in Nat /\ DOMAIN texts = 1 .. k /\ k > 0
  BY DEF Sound
<1>2. Len(new) = k
  BY <1>1
<1>3. /\ n \in Nat
      /\ DOMAIN cs = 1 .. n /\ DOMAIN all = 1 .. (n + k)
      /\ \A i \in 1 .. n : all[i] = cs[i]
      /\ \A i \in 1 .. k : all[n + i] = new[i]
      /\ \A i \in 1 .. (n + k) : i \in 1 .. n \/ \E j \in 1 .. k : i = n + j
  <2> DEFINE m == Len(new)
  <2>1. /\ n \in Nat /\ DOMAIN cs = 1 .. n /\ DOMAIN all = 1 .. (n + m)
        /\ \A i \in 1 .. n : all[i] = cs[i]
        /\ \A i \in 1 .. m : all[n + i] = new[i]
        /\ \A i \in 1 .. (n + m) : i \in 1 .. n \/ \E j \in 1 .. m : i = n + j
    BY Behind
  <2>2. m = k
    BY <1>2
  <2> HIDE DEF all, n, m, k
  <2> QED
    BY <2>1, <2>2
<1> HIDE DEF all, n, k
<1>4. \A i \in own : \E j \in 1 .. k : i = n + j
  <2> SUFFICES ASSUME NEW i \in own PROVE \E j \in 1 .. k : i = n + j
    OBVIOUS
  <2>1. i \in DOMAIN all /\ all[i].of = hit
    BY DEF Own
  <2> QED
    BY <1>3, <2>1
<1>5. \A j \in 1 .. k : /\ n + j \in own /\ all[n + j].text = texts[j]
                        /\ n + j \in 1 .. (n + k)
  <2> SUFFICES ASSUME NEW j \in 1 .. k
               PROVE  /\ n + j \in own /\ all[n + j].text = texts[j]
                      /\ n + j \in 1 .. (n + k)
    OBVIOUS
  <2>1. n + j \in 1 .. (n + k)
    BY <1>1, <1>3
  <2>2. all[n + j] = new[j] /\ j \in DOMAIN new
    BY <1>1, <1>3
  <2> QED
    BY <1>3, <2>1, <2>2 DEF Own
<1> HIDE DEF own
<1>6. Max(own) = n + k
  <2>1. n + k \in own /\ n + k \in Int
    BY <1>1, <1>3, <1>5
  <2>2. own \in SUBSET Int /\ \A i \in own : i <= n + k
    BY <1>1, <1>3, <1>4
  <2>3. Max(own) \in own /\ \A i \in own : i <= Max(own)
    BY <2>1, <2>2, MaxFacts
  <2>4. Max(own) \in Int /\ Max(own) <= n + k /\ n + k <= Max(own)
    BY <2>1, <2>2, <2>3
  <2> HIDE DEF own
  <2>5. ASSUME NEW x \in Int, NEW y \in Int, x <= y, y <= x PROVE x = y
    BY <2>5
  <2> QED
    BY <2>1, <2>4, <2>5
<1>7. ASSUME NEW i \in own, NEW j \in own, i < j,
             NEW o \in all[i].text, NEW p \in all[j].text
      PROVE  o < p
  <2>1. PICK a \in 1 .. k : i = n + a
    BY <1>4
  <2>2. PICK b \in 1 .. k : j = n + b
    BY <1>4
  <2>3. a < b
    BY <1>1, <1>3, <1>7, <2>1, <2>2
  <2>4. o \in texts[a] /\ p \in texts[b]
    BY <1>5, <1>7, <2>1, <2>2
  <2> QED
    BY <1>1, <2>3, <2>4 DEF Sound
<1>8. ASSUME NEW i \in own
      PROVE  Uncut(all[i].text, EndsIn(hit), i = Max(own))
  <2>1. PICK a \in 1 .. k : i = n + a
    BY <1>4
  <2>2. i = Max(own) <=> a = k
    BY <1>1, <1>3, <1>6, <2>1
  <2>3. Uncut(texts[a], EndsIn(hit), a = Len(texts))
    BY <1>1, <2>1 DEF Sound
  <2>4. all[i].text = texts[a]
    BY <1>5, <2>1
  <2> QED
    BY <2>2, <2>3, <2>4 DEF Uncut, k
<1> QED
  BY <1>7, <1>8 DEF Follow, own, all

\* A text of a symbol makes a chunk.
LEMMA ChunkType ==
    ASSUME input \in Inputs, hits = Symbols, NEW j \in DOMAIN hits,
           NEW f \in Nat \union {None}, NEW text \in SUBSET Span(hits[j].range),
           NEW c, c = Chunk(hits[j], f, text)
    PROVE  /\ c \in Pieces
           /\ c.of = hits[j] /\ c.lines = hits[j].lines /\ c.text = text
           /\ c.fragment = f
<1> DEFINE s == hits[j]
<1>1. IsSymbol(s)
  BY SymbolFacts
<1>2. s \in ToSet(hits)
  BY DEF ToSet
<1>3. Span(s.range) \subseteq Nat
  BY <1>1, RangeFacts
<1>4. s.range.from \in Nat /\ s.range.to - 1 \in Nat
  BY <1>1, RangeFacts
<1>5. s.lines = <<LineOf(s.range.from), LineOf(s.range.to - 1)>>
  BY <1>1 DEF IsSymbol
<1>6. s.lines \in Nat \X Nat
  BY <1>4, <1>5, LineFacts
<1> HIDE DEF s
<1>7. c = [symbol |-> s.name, lines |-> s.lines, fragment |-> f, text |-> text, of |-> s]
  BY DEF Chunk, s
<1>8. s.name \in {h.name : h \in ToSet(hits)} /\ text \in SUBSET Nat
  BY <1>2, <1>3 DEF s
<1>9. c \in Pieces
  BY <1>2, <1>6, <1>7, <1>8 DEF Pieces
<1>10. c.of = s /\ c.lines = s.lines /\ c.text = text /\ c.fragment = f
  BY <1>7
<1> QED
  BY <1>9, <1>10 DEF s

\* No chunk is of the current symbol yet.
LEMMA NotYet ==
    ASSUME input \in Inputs, Working, at \in DOMAIN hits, NEW i \in DOMAIN chunks
    PROVE  chunks[i].of # Current
<1>1. PICK j \in 1 .. (at - 1) : chunks[i].of = hits[j]
  BY DEF Working, CutUpTo
<1>2. hits = Symbols /\ hits \in Seq(Qualified)
  BY SymbolFacts DEF Working
<1>3. Len(hits) \in Nat /\ DOMAIN hits = 1 .. Len(hits)
  BY <1>2
<1>4. j \in DOMAIN hits /\ j # at
  BY <1>3
<1> QED
  BY <1>1, <1>2, <1>4, SymbolFacts DEF Current

\* The chunks of the current symbol are added.
LEMMA AddStep ==
    ASSUME input \in Inputs, Working, at \in DOMAIN hits, NEW new \in Seq(Pieces),
           \A i \in DOMAIN new : /\ new[i].of = Current
                                 /\ new[i].lines = Current.lines
                                 /\ new[i].text \subseteq Span(Current.range),
           \A o \in Solid(BodyOf(Current)) : InSome(new, o),
           Follow(chunks \o new, Current)
    PROVE  CutUpTo(chunks \o new, at + 1)
<1> DEFINE all == chunks \o new
           n == Len(chunks)
           m == Len(new)
<1>1. CutUpTo(chunks, at) /\ hits = Symbols
  BY DEF Working
<1>2. chunks \in Seq(Pieces)
  BY <1>1 DEF CutUpTo
<1>3. /\ all \in Seq(Pieces)
      /\ n \in Nat /\ m \in Nat /\ DOMAIN chunks = 1 .. n /\ DOMAIN new = 1 .. m
      /\ DOMAIN all = 1 .. (n + m)
      /\ \A i \in 1 .. n : all[i] = chunks[i]
      /\ \A i \in 1 .. m : all[n + i] = new[i]
      /\ \A i \in 1 .. (n + m) : i \in 1 .. n \/ \E k \in 1 .. m : i = n + k
  BY <1>2, Behind
<1>4. hits \in Seq(Qualified)
  BY <1>1, SymbolFacts
<1>5. at \in Nat /\ at >= 1 /\ DOMAIN hits = 1 .. Len(hits) /\ Len(hits) \in Nat
  BY <1>4
<1>6. (at + 1) - 1 = at /\ at \in 1 .. at /\ \A j \in 1 .. (at - 1) : j \in 1 .. at
  BY <1>5
<1> HIDE DEF n, m
<1>7. ASSUME NEW i \in DOMAIN all
      PROVE  \E j \in 1 .. at : /\ all[i].of = hits[j]
                                /\ all[i].lines = hits[j].lines
                                /\ all[i].text \subseteq Span(hits[j].range)
  <2>1. CASE i \in 1 .. n
    <3>1. all[i] = chunks[i] /\ i \in DOMAIN chunks
      BY <1>3, <2>1
    <3>2. PICK j \in 1 .. (at - 1) : /\ chunks[i].of = hits[j]
                                     /\ chunks[i].lines = hits[j].lines
                                     /\ chunks[i].text \subseteq Span(hits[j].range)
      BY <1>1, <3>1 DEF CutUpTo
    <3> HIDE DEF all
    <3> QED
      BY <1>6, <3>1, <3>2
  <2>2. CASE i \notin 1 .. n
    <3>1. PICK k \in 1 .. m : i = n + k
      BY <1>3, <2>2
    <3>2. all[i] = new[k] /\ k \in DOMAIN new
      BY <1>3, <3>1
    <3> HIDE DEF all
    <3>3. /\ all[i].of = hits[at] /\ all[i].lines = hits[at].lines
          /\ all[i].text \subseteq Span(hits[at].range)
      BY <3>2 DEF Current
    <3> QED
      BY <1>6, <3>3
  <2> QED
    BY <2>1, <2>2
<1> HIDE DEF all
<1>8. ASSUME NEW o, InSome(chunks, o) \/ InSome(new, o)
      PROVE  InSome(all, o)
  <2>1. CASE InSome(chunks, o)
    <3>1. PICK i \in 1 .. n : o \in chunks[i].text
      BY <1>3, <2>1 DEF InSome
    <3>2. i \in 1 .. (n + m)
      BY <1>3
    <3> QED
      BY <1>3, <3>1, <3>2 DEF InSome
  <2>2. CASE InSome(new, o)
    <3>1. PICK i \in 1 .. m : o \in new[i].text
      BY <1>3, <2>2 DEF InSome
    <3>2. n + i \in 1 .. (n + m)
      BY <1>3
    <3> QED
      BY <1>3, <3>1, <3>2 DEF InSome
  <2> QED
    BY <1>8, <2>1, <2>2
<1>9. ASSUME NEW j \in 1 .. at
      PROVE  /\ \A o \in Solid(BodyOf(hits[j])) : InSome(all, o)
             /\ Follow(all, hits[j])
  <2>1. CASE j = at
    BY <1>8, <2>1 DEF Current, all
  <2>2. CASE j # at
    <3>1. j \in 1 .. (at - 1) /\ j \in DOMAIN hits
      BY <1>5, <2>2
    <3>2. /\ \A o \in Solid(BodyOf(hits[j])) : InSome(chunks, o)
          /\ Follow(chunks, hits[j])
      BY <1>1, <3>1 DEF CutUpTo
    <3>3. hits[j] # Current
      BY <1>1, <2>2, <3>1, SymbolFacts DEF Current
    <3>4. \A i \in DOMAIN new : new[i].of # hits[j]
      BY <3>3
    <3>5. Follow(all, hits[j])
      BY <1>2, <3>2, <3>4, EarlierStay DEF all
    <3> QED
      BY <1>8, <3>2, <3>5
  <2> QED
    BY <2>1, <2>2
<1>10. /\ all \in Seq(Pieces)
       /\ \A i \in DOMAIN all : \E j \in 1 .. ((at + 1) - 1) :
             /\ all[i].of = hits[j]
             /\ all[i].lines = hits[j].lines
             /\ all[i].text \subseteq Span(hits[j].range)
       /\ \A j \in 1 .. ((at + 1) - 1) :
             /\ \A o \in Solid(BodyOf(hits[j])) : InSome(all, o)
             /\ Follow(all, hits[j])
  BY <1>3, <1>6, <1>7, <1>9
<1> QED
  BY <1>10 DEF CutUpTo, all

\* The fragments of the current symbol are added.
LEMMA EmitStep ==
    ASSUME input \in Inputs, Working, at \in DOMAIN hits,
           NEW texts, texts # <<>>, Sound(texts, Current)
    PROVE  CutUpTo(Emit(Current, texts), at + 1)
<1> DEFINE new == [i \in DOMAIN texts |-> Chunk(Current, i - 1, texts[i])]
<1>1. /\ hits = Symbols /\ CutUpTo(chunks, at) /\ chunks \in Seq(Pieces)
  BY DEF Working, CutUpTo
<1>2. /\ Len(texts) \in Nat /\ DOMAIN texts = 1 .. Len(texts)
      /\ \A i \in DOMAIN texts : texts[i] \in SUBSET Span(Current.range)
  BY DEF Sound
<1>3. \A i \in DOMAIN texts : i - 1 \in Nat
  BY <1>2
<1>4. ASSUME NEW i \in DOMAIN texts
      PROVE  /\ new[i] \in Pieces
             /\ new[i].of = Current /\ new[i].lines = Current.lines
             /\ new[i].text = texts[i] /\ new[i].fragment = i - 1
  <2>1. new[i] = Chunk(Current, i - 1, texts[i])
    OBVIOUS
  <2>2. i - 1 \in Nat \union {None} /\ texts[i] \in SUBSET Span(hits[at].range)
    BY <1>2, <1>3 DEF Current
  <2> DEFINE c == new[i]
             f == i - 1
             text == texts[i]
  <2>3. c = Chunk(hits[at], f, text) /\ f \in Nat \union {None}
        /\ text \in SUBSET Span(hits[at].range)
    BY <2>1, <2>2 DEF Current
  <2> HIDE DEF new, c, f, text
  <2>4. /\ c \in Pieces /\ c.of = hits[at] /\ c.lines = hits[at].lines /\ c.text = text
        /\ c.fragment = f
    BY <1>1, <2>3, ChunkType
  <2> QED
    BY <2>4 DEF Current, c, f, text
<1>5. new \in Seq(Pieces) /\ DOMAIN new = DOMAIN texts
  <2>1. new \in [1 .. Len(texts) -> Pieces]
    BY <1>2, <1>4
  <2> QED
    BY <1>2, <2>1
<1>6. Emit(Current, texts) = chunks \o new
  BY DEF Emit
<1> HIDE DEF new
<1>7. \A i \in DOMAIN new : /\ new[i].of = Current /\ new[i].fragment # None
                            /\ new[i].text = texts[i]
                            /\ new[i].lines = Current.lines
                            /\ new[i].text \subseteq Span(Current.range)
  BY <1>2, <1>3, <1>4, <1>5, ChunkerAssumption
<1>8. \A i \in DOMAIN chunks : chunks[i].of # Current
  BY NotYet
<1>9. Follow(chunks \o new, Current)
  BY <1>1, <1>5, <1>7, <1>8, FragmentsAdded
<1>10. \A o \in Solid(BodyOf(Current)) : InSome(new, o)
  BY <1>5, <1>7 DEF Sound, InSome
<1> QED
  BY <1>5, <1>6, <1>7, <1>9, <1>10, AddStep

\* A symbol that is one chunk has no fragments.
LEMMA WholeStep ==
    ASSUME input \in Inputs, Working, at \in DOMAIN hits
    PROVE  CutUpTo(Append(chunks, Chunk(Current, None, BodyOf(Current))), at + 1)
<1> DEFINE c == Chunk(Current, None, BodyOf(Current))
           new == <<c>>
<1>1. /\ hits = Symbols /\ chunks \in Seq(Pieces)
  BY DEF Working, CutUpTo
<1>2. BodyOf(Current) \in SUBSET Span(Current.range)
  BY <1>1, BodyFacts DEF Current
<1>3. /\ c \in Pieces /\ c.of = Current /\ c.lines = Current.lines
      /\ c.text = BodyOf(Current) /\ c.fragment = None
  <2> DEFINE text == BodyOf(Current)
             f == None
  <2>1. /\ c = Chunk(hits[at], f, text) /\ f \in Nat \union {None}
        /\ text \in SUBSET Span(hits[at].range)
    BY <1>2 DEF Current
  <2> HIDE DEF c, text, f, new
  <2>3. hits = Symbols
    BY <1>1
  <2>2. /\ c \in Pieces /\ c.of = hits[at] /\ c.lines = hits[at].lines /\ c.text = text
        /\ c.fragment = f
    BY <2>1, <2>3, ChunkType
  <2> QED
    BY <2>2 DEF Current, text, f
<1> HIDE DEF c
<1>4. /\ new \in Seq(Pieces) /\ DOMAIN new = {1} /\ new[1] = c
      /\ Append(chunks, c) = chunks \o new
  BY <1>1, <1>3
<1> HIDE DEF new
<1>5. \A i \in DOMAIN chunks : chunks[i].of # Current
  BY NotYet
<1>6. Follow(chunks \o new, Current)
  <2>1. Own(chunks \o new, Current) = {}
    <3> DEFINE all == chunks \o new
               n == Len(chunks)
               m == Len(new)
    <3>1. /\ n \in Nat /\ m \in Nat /\ DOMAIN chunks = 1 .. n /\ DOMAIN new = 1 .. m
          /\ DOMAIN all = 1 .. (n + m)
          /\ \A i \in 1 .. n : all[i] = chunks[i]
          /\ \A i \in 1 .. m : all[n + i] = new[i]
          /\ \A i \in 1 .. (n + m) : i \in 1 .. n \/ \E k \in 1 .. m : i = n + k
      BY <1>1, <1>4, Behind
    <3> HIDE DEF all, n, m
    <3>2. ASSUME NEW i \in DOMAIN all
          PROVE  all[i].of # Current \/ all[i].fragment = None
      <4>1. CASE i \in 1 .. n
        BY <1>5, <3>1, <4>1
      <4>2. CASE i \notin 1 .. n
        <5>1. PICK k \in 1 .. m : i = n + k
          BY <3>1, <4>2
        <5>2. all[i] = new[k] /\ k = 1
          BY <1>4, <3>1, <5>1
        <5> QED
          BY <1>3, <1>4, <5>2
      <4> QED
        BY <4>1, <4>2
    <3> QED
      BY <3>2 DEF Own, all
  <2> QED
    BY <2>1 DEF Follow
<1>7. \A o \in Solid(BodyOf(Current)) : InSome(new, o)
  BY <1>3, <1>4 DEF InSome, Solid
<1>8. \A i \in DOMAIN new : /\ new[i].of = Current /\ new[i].lines = Current.lines
                            /\ new[i].text \subseteq Span(Current.range)
  BY <1>2, <1>3, <1>4
<1>9. CutUpTo(chunks \o new, at + 1)
  BY <1>4, <1>6, <1>7, <1>8, AddStep
<1> QED
  BY <1>4, <1>9 DEF c

\* A symbol whose body is blank has nothing to add.
LEMMA BlankStep ==
    ASSUME input \in Inputs, Working, at \in DOMAIN hits,
           \A o \in BodyOf(Current) : Blank(o)
    PROVE  CutUpTo(chunks, at + 1)
<1> DEFINE new == <<>>
<1>1. chunks \in Seq(Pieces)
  BY DEF Working, CutUpTo
<1>2. new \in Seq(Pieces) /\ DOMAIN new = {} /\ chunks \o new = chunks
  BY <1>1
<1> HIDE DEF new
<1>3. Own(chunks, Current) = {}
  BY NotYet DEF Own
<1>4. Follow(chunks \o new, Current)
  BY <1>2, <1>3 DEF Follow
<1>5. \A o \in Solid(BodyOf(Current)) : InSome(new, o)
  BY DEF Solid
<1>6. CutUpTo(chunks \o new, at + 1)
  BY <1>2, <1>4, <1>5, AddStep
<1> QED
  BY <1>2, <1>6

-----------------------------------------------------------------------------
(***************************************************************************)
(* hard_split.                                                             *)
(***************************************************************************)

\* The lines of a body: numbered in the order of the text, every character
\* that is not a newline in one of them.
LEMMA LineInFacts ==
    ASSUME NEW size \in Nat, NEW body \in SUBSET (0 .. (size - 1))
    PROVE  /\ LineCount(body) \in Nat
           /\ \A o \in body : LineIn(body, o) \in Nat \ {0}
           /\ \A o \in body \ Newlines(body) : LineIn(body, o) <= LineCount(body)
           /\ \A o, p \in body : LineIn(body, o) < LineIn(body, p) => o < p
<1> DEFINE news == Newlines(body)
           Up(o) == {p \in news : p < o}
<1>1. news \in SUBSET (0 .. (size - 1))
  BY DEF Newlines
<1>2. 0 \in Int /\ size \in Int
  OBVIOUS
<1>3. IsFiniteSet(news) /\ Cardinality(news) \in Nat
  <2> HIDE DEF news
  <2> QED
    BY <1>1, <1>2, Fits
<1>4. \A o : /\ IsFiniteSet(Up(o)) /\ Cardinality(Up(o)) \in Nat
             /\ Cardinality(Up(o)) <= Cardinality(news)
  <2> SUFFICES ASSUME NEW o
               PROVE  /\ IsFiniteSet(Up(o)) /\ Cardinality(Up(o)) \in Nat
                      /\ Cardinality(Up(o)) <= Cardinality(news)
    OBVIOUS
  <2>1. Up(o) \subseteq news
    OBVIOUS
  <2> HIDE DEF Up, news
  <2>2. IsFiniteSet(Up(o)) /\ Cardinality(Up(o)) <= Cardinality(news)
    BY <1>3, <2>1, FS_Subset
  <2> QED
    BY <2>2, FS_CardinalityType
<1>5. \A o : LineIn(body, o) = Cardinality(Up(o)) + 1
  BY DEF LineIn
<1>6. LineCount(body) = Cardinality(news) + (IF \E o \in body : \A p \in news : p < o THEN 1 ELSE 0)
  BY DEF LineCount
<1>7. LineCount(body) \in Nat
  BY <1>3, <1>6
<1>8. ASSUME NEW o \in body
      PROVE  LineIn(body, o) \in Nat \ {0}
  <2> HIDE DEF Up
  <2> QED
    BY <1>4, <1>5
<1>9. ASSUME NEW o \in body \ news
      PROVE  LineIn(body, o) <= LineCount(body)
  <2>1. CASE \A p \in news : p < o
    <3>1. LineCount(body) = Cardinality(news) + 1
      BY <1>6, <1>9, <2>1
    <3> HIDE DEF Up, news
    <3> QED
      BY <1>3, <1>4, <1>5, <3>1
  <2>2. CASE \E p \in news : ~(p < o)
    <3>1. PICK p \in news : ~(p < o)
      BY <2>2
    <3>2. Up(o) \subseteq news \ {p}
      BY <3>1
    <3> HIDE DEF Up, news
    <3>3. IsFiniteSet(news \ {p}) /\ Cardinality(news \ {p}) = Cardinality(news) - 1
      BY <1>3, <3>1, FS_RemoveElement
    <3>4. Cardinality(Up(o)) <= Cardinality(news) - 1
      BY <3>2, <3>3, FS_Subset
    <3>5. LineCount(body) >= Cardinality(news)
      BY <1>3, <1>6
    <3> QED
      BY <1>3, <1>4, <1>5, <1>7, <3>4, <3>5
  <2> QED
    BY <2>1, <2>2
<1>10. ASSUME NEW o \in body, NEW p \in body, LineIn(body, o) < LineIn(body, p)
       PROVE  o < p
  <2> SUFFICES ASSUME ~(o < p) PROVE FALSE
    OBVIOUS
  <2>1. o \in Int /\ p \in Int /\ p <= o
    OBVIOUS
  <2>2. Up(p) \subseteq Up(o)
    <3>1. news \subseteq Int
      BY <1>1
    <3> HIDE DEF news
    <3>2. ASSUME NEW q \in news, q < p PROVE q < o
      BY <2>1, <3>1, <3>2
    <3> QED
      BY <3>2
  <2> HIDE DEF Up
  <2>3. Cardinality(Up(p)) <= Cardinality(Up(o))
    BY <1>4, <2>2, FS_Subset
  <2> QED
    BY <1>4, <1>5, <1>10, <2>3
<1> QED
  BY <1>7, <1>8, <1>9, <1>10

\* A body is a set of offsets of the file.
LEMMA BodyType ==
    ASSUME input \in Inputs, Working, at \in DOMAIN hits
    PROVE  /\ Size \in Nat
           /\ BodyOf(Current) \in SUBSET (0 .. (Size - 1))
           /\ BodyOf(Current) \in SUBSET Span(Current.range)
           /\ IsSymbol(Current)
<1>1. hits = Symbols
  BY DEF Working
<1>2. IsSymbol(Current)
  BY <1>1, SymbolFacts DEF Current
<1>3. BodyOf(Current) \subseteq Span(Current.range)
  BY <1>1, BodyFacts DEF Current
<1> QED
  BY <1>2, <1>3, RangeFacts

\* One line more.
LEMMA TakeLineStep ==
    ASSUME NEW size \in Nat, NEW body \in SUBSET (0 .. (size - 1)),
           NEW sp, LinesAt(body, sp), NEW full \in BOOLEAN,
           NEW kept \in Nat,
           kept = 0 => full \/ sp.size = 0,
           NEW new,
           new = [line |-> sp.line + 1,
                  out  |-> IF full THEN Append(sp.out, sp.buf) ELSE sp.out,
                  buf  |-> (IF full THEN {} ELSE sp.buf) \union LineAt(body, sp.line),
                  size |-> kept + Cardinality(LineAt(body, sp.line))]
    PROVE  LinesAt(body, new)
<1> DEFINE k == sp.line
           line == LineAt(body, k)
           old == LinesTo(body, k)
           now == LinesTo(body, k + 1)
<1>1. k \in Nat \ {0}
  BY DEF LinesAt
<1>2. line = {o \in body \ Newlines(body) : LineIn(body, o) = k}
  <2>1. \A o \in body : Cardinality({p \in Newlines(body) : p < o}) = LineIn(body, o) - 1
    <3>1. \A o \in body : LineIn(body, o) \in Nat \ {0}
      BY LineInFacts
    <3>2. ASSUME NEW o \in body
          PROVE  Cardinality({p \in Newlines(body) : p < o}) = LineIn(body, o) - 1
      <4> DEFINE c == Cardinality({p \in Newlines(body) : p < o})
      <4>1. c \in Nat
        <5> DEFINE up == {p \in Newlines(body) : p < o}
        <5>1. up \subseteq body
          BY DEF Newlines
        <5> HIDE DEF up
        <5>3. up \in SUBSET (0 .. (size - 1))
          BY <5>1
        <5>4. 0 \in Int /\ size \in Int
          OBVIOUS
        <5>2. Cardinality(up) \in Nat
          BY <5>3, <5>4, Fits
        <5> QED
          BY <5>2 DEF up
      <4>2. LineIn(body, o) = c + 1
        BY DEF LineIn
      <4> HIDE DEF c
      <4> QED
        BY <4>1, <4>2 DEF c
    <3> QED
      BY <3>2
  <2>2. \A o \in body : LineIn(body, o) \in Nat \ {0}
    BY LineInFacts
  <2>3. line = {o \in body \ Newlines(body) : Cardinality({p \in Newlines(body) : p < o}) = k - 1}
    BY DEF LineAt
  <2> HIDE DEF line, k
  <2>4. \A o : o \in line <=> o \in body \ Newlines(body) /\ LineIn(body, o) = k
    <3> SUFFICES ASSUME NEW o \in body \ Newlines(body)
                 PROVE  Cardinality({p \in Newlines(body) : p < o}) = k - 1 <=> LineIn(body, o) = k
      BY <2>3
    <3>1. LineIn(body, o) \in Nat
      BY <2>2
    <3> QED
      BY <1>1, <2>1, <3>1
  <2> QED
    BY <2>4
<1>3. \A o \in body : LineIn(body, o) \in Nat
  BY LineInFacts
<1>4. \A o : o \in now <=> o \in old \/ o \in line
  <2>1. \A o : o \in now <=> o \in body \ Newlines(body) /\ LineIn(body, o) < k + 1
    BY DEF LinesTo
  <2>2. \A o : o \in old <=> o \in body \ Newlines(body) /\ LineIn(body, o) < k
    BY DEF LinesTo
  <2> HIDE DEF now, old, line, k
  <2>3. \A o : o \in line <=> o \in body \ Newlines(body) /\ LineIn(body, o) = k
    BY <1>2
  <2>4. \A n \in Nat : n < k + 1 <=> n < k \/ n = k
    BY <1>1
  <2> QED
    BY <1>3, <2>1, <2>2, <2>3, <2>4
<1>5. \A o \in old, p \in line : o < p
  <2> SUFFICES ASSUME NEW o \in old, NEW p \in line PROVE o < p
    OBVIOUS
  <2>1. o \in body /\ p \in body /\ LineIn(body, o) < LineIn(body, p)
    BY <1>2 DEF LinesTo
  <2> QED
    BY <2>1, LineInFacts
<1>6. IsFiniteSet(line) /\ Cardinality(line) \in Nat
  <2>1. line \subseteq body
    BY <1>2
  <2> HIDE DEF line
  <2>2. line \in SUBSET (0 .. (size - 1))
    BY <2>1
  <2>3. 0 \in Int /\ size \in Int
    OBVIOUS
  <2> QED
    BY <2>2, <2>3, Fits
<1>7. /\ sp.size \in Nat /\ (sp.size = 0 => sp.buf = {})
      /\ sp.out \in Seq(SUBSET old) /\ sp.buf \in SUBSET old
      /\ \A o \in old : o \in sp.buf \/ \E i \in DOMAIN sp.out : o \in sp.out[i]
      /\ \A i \in DOMAIN sp.out : \A o \in sp.out[i] :
            /\ \A p \in sp.buf : o < p
            /\ \A j \in DOMAIN sp.out : i < j => \A p \in sp.out[j] : o < p
  BY DEF LinesAt
<1>8. /\ new.line = k + 1
      /\ new.out = IF full THEN Append(sp.out, sp.buf) ELSE sp.out
      /\ new.buf = (IF full THEN {} ELSE sp.buf) \union line
      /\ new.size = kept + Cardinality(line)
  OBVIOUS
<1> HIDE DEF k, line, old, now
<1>9. new.line \in Nat \ {0} /\ new.size \in Nat
  BY <1>1, <1>6, <1>8
<1>10. new.size = 0 => new.buf = {}
  <2> SUFFICES ASSUME new.size = 0 PROVE new.buf = {}
    OBVIOUS
  <2>1. kept = 0 /\ Cardinality(line) = 0
    BY <1>6, <1>8
  <2>2. line = {}
    BY <1>6, <2>1, FS_EmptySet
  <2>3. full \/ sp.buf = {}
    BY <1>7, <2>1
  <2> QED
    BY <1>8, <2>2, <2>3
<1>11. CASE full
  <2>1. new.out = Append(sp.out, sp.buf) /\ new.buf = line
    BY <1>8, <1>11
  <2> DEFINE n == Len(sp.out)
  <2>2. /\ n \in Nat /\ DOMAIN sp.out = 1 .. n /\ DOMAIN new.out = 1 .. (n + 1)
        /\ new.out \in Seq(SUBSET old) /\ new.out[n + 1] = sp.buf
        /\ \A i \in 1 .. n : new.out[i] = sp.out[i]
    BY <1>7, <2>1
  <2> HIDE DEF n
  <2>3. new.out \in Seq(SUBSET now)
    <3>1. \A i \in 1 .. (n + 1) : new.out[i] \in SUBSET now
      BY <1>4, <2>2
    <3> QED
      BY <2>2, <3>1, SeqInto
  <2>4. new.buf \in SUBSET now
    BY <1>4, <2>1
  <2>5. ASSUME NEW o \in now
        PROVE  o \in new.buf \/ \E i \in DOMAIN new.out : o \in new.out[i]
    <3>1. CASE o \in line
      BY <2>1, <3>1
    <3>2. CASE o \in sp.buf
      <4>1. n + 1 \in DOMAIN new.out
        BY <2>2
      <4> QED
        BY <2>2, <3>2, <4>1
    <3>3. CASE \E i \in DOMAIN sp.out : o \in sp.out[i]
      <4>1. PICK i \in 1 .. n : o \in sp.out[i]
        BY <2>2, <3>3
      <4>2. i \in 1 .. (n + 1)
        BY <2>2
      <4> QED
        BY <2>2, <4>1, <4>2
    <3> QED
      BY <1>4, <1>7, <3>1, <3>2, <3>3
  <2>6. ASSUME NEW i \in DOMAIN new.out, NEW o \in new.out[i]
        PROVE  /\ \A p \in new.buf : o < p
               /\ \A j \in DOMAIN new.out : i < j => \A p \in new.out[j] : o < p
    <3>1. o \in old
      BY <2>2
    <3>2. \A p \in new.buf : o < p
      BY <1>5, <2>1, <3>1
    <3>3. ASSUME NEW j \in DOMAIN new.out, i < j, NEW p \in new.out[j]
          PROVE  o < p
      <4>1. i \in 1 .. n
        BY <2>2, <3>3
      <4>2. o \in sp.out[i] /\ i \in DOMAIN sp.out
        BY <2>2, <4>1
      <4>3. CASE j = n + 1
        BY <1>7, <2>2, <3>3, <4>2, <4>3
      <4>4. CASE j # n + 1
        <5>1. j \in 1 .. n
          BY <2>2, <4>4
        <5>2. p \in sp.out[j] /\ j \in DOMAIN sp.out
          BY <2>2, <3>3, <5>1
        <5> QED
          BY <1>7, <3>3, <4>2, <5>2
      <4> QED
        BY <4>3, <4>4
    <3> QED
      BY <3>2, <3>3
  <2> QED
    BY <1>8, <1>9, <1>10, <2>3, <2>4, <2>5, <2>6 DEF LinesAt, now
<1>12. CASE ~full
  <2>1. new.out = sp.out /\ new.buf = sp.buf \union line
    BY <1>8, <1>12
  <2>2. new.out \in Seq(SUBSET now)
    <3>1. \A i \in DOMAIN sp.out : sp.out[i] \in SUBSET old
      BY <1>7
    <3>2. \A i \in DOMAIN sp.out : sp.out[i] \in SUBSET now
      BY <1>4, <3>1
    <3> QED
      BY <1>7, <2>1, <3>2, SeqInto
  <2>3. new.buf \in SUBSET now
    BY <1>4, <1>7, <2>1
  <2>4. \A o \in now : o \in new.buf \/ \E i \in DOMAIN new.out : o \in new.out[i]
    BY <1>4, <1>7, <2>1
  <2>5. ASSUME NEW i \in DOMAIN new.out, NEW o \in new.out[i]
        PROVE  /\ \A p \in new.buf : o < p
               /\ \A j \in DOMAIN new.out : i < j => \A p \in new.out[j] : o < p
    <3>1. o \in old
      BY <1>7, <2>1
    <3> QED
      BY <1>5, <1>7, <2>1, <3>1
  <2> QED
    BY <1>8, <1>9, <1>10, <2>2, <2>3, <2>4, <2>5 DEF LinesAt, now
<1> QED
  BY <1>11, <1>12

\* What hard_split returns.
LEMMA LinesDone ==
    ASSUME input \in Inputs, Working, LinesInv,
           split.line > LineCount(BodyOf(Current)),
           NEW out, out = IF split.size > 0 THEN Append(split.out, split.buf) ELSE split.out,
           NEW texts, texts = IF out = <<>> THEN <<BodyOf(Current)>> ELSE out
    PROVE  texts # <<>> /\ Sound(texts, Current)
<1> DEFINE body == BodyOf(Current)
           old == LinesTo(body, split.line)
<1>1. /\ at \in DOMAIN hits /\ EndsIn(Current) = {} /\ LinesAt(body, split)
  BY DEF LinesInv
<1>2. /\ Size \in Nat /\ body \in SUBSET (0 .. (Size - 1))
      /\ body \in SUBSET Span(Current.range)
  BY <1>1, BodyType
<1>3. /\ split.line \in Nat /\ split.size \in Nat /\ (split.size = 0 => split.buf = {})
      /\ split.out \in Seq(SUBSET old) /\ split.buf \in SUBSET old
      /\ \A o \in old : o \in split.buf \/ \E i \in DOMAIN split.out : o \in split.out[i]
      /\ \A i \in DOMAIN split.out : \A o \in split.out[i] :
            /\ \A p \in split.buf : o < p
            /\ \A j \in DOMAIN split.out : i < j => \A p \in split.out[j] : o < p
  BY <1>1 DEF LinesAt
<1>4. old \subseteq Span(Current.range)
  BY <1>2 DEF LinesTo
<1>5. \A o \in Solid(body) : o \in old
  <2> SUFFICES ASSUME NEW o \in Solid(body) PROVE o \in old
    OBVIOUS
  <2>1. o \in body /\ o \notin Newlines(body)
    BY DEF Solid, Blank, Newlines
  <2>2. LineIn(body, o) \in Nat /\ LineIn(body, o) <= LineCount(body) /\ LineCount(body) \in Nat
    <3> HIDE DEF body
    <3> QED
      BY <1>2, <2>1, LineInFacts
  <2>3. LineIn(body, o) < split.line
    BY <1>3, <2>2
  <2> QED
    BY <2>1, <2>3 DEF LinesTo
<1>6. \A t, b : Uncut(t, EndsIn(Current), b)
  BY <1>1 DEF Uncut
<1> HIDE DEF body, old
<1>7. CASE out = <<>>
  <2>1. texts = <<body>>
    BY <1>7 DEF body
  <2>2. /\ texts \in Seq(SUBSET Span(Current.range)) /\ DOMAIN texts = {1} /\ texts[1] = body
        /\ texts # <<>>
    <3> DEFINE X == SUBSET Span(Current.range)
    <3>1. body \in X
      BY <1>2
    <3> HIDE DEF X
    <3>2. ASSUME NEW b \in X
          PROVE  <<b>> \in Seq(X) /\ DOMAIN <<b>> = {1} /\ <<b>>[1] = b /\ <<b>> # <<>>
      OBVIOUS
    <3>3. texts \in Seq(X) /\ DOMAIN texts = {1} /\ texts[1] = body /\ texts # <<>>
      BY <2>1, <3>1, <3>2
    <3> QED
      BY <3>3 DEF X
  <2>3. \A o \in Solid(body) : o \in texts[1]
    BY <2>2 DEF Solid
  <2>4. \A i, j \in DOMAIN texts : ~(i < j)
    BY <2>2
  <2> QED
    BY <1>6, <2>2, <2>3, <2>4 DEF Sound, body
<1>8. CASE out # <<>>
  <2>1. texts = out
    BY <1>8
  <2>2. CASE split.size > 0
    <3>1. texts = Append(split.out, split.buf)
      BY <2>1, <2>2
    <3> DEFINE n == Len(split.out)
    <3>2. /\ n \in Nat /\ DOMAIN split.out = 1 .. n /\ DOMAIN texts = 1 .. (n + 1)
          /\ texts \in Seq(SUBSET old) /\ texts[n + 1] = split.buf
          /\ \A i \in 1 .. n : texts[i] = split.out[i]
      BY <1>3, <3>1
    <3> HIDE DEF n
    <3>3. texts \in Seq(SUBSET Span(Current.range))
      <4>1. \A i \in DOMAIN texts : texts[i] \in SUBSET old
        BY <3>2
      <4>2. \A i \in DOMAIN texts : texts[i] \in SUBSET Span(Current.range)
        BY <1>4, <4>1
      <4> QED
        BY <3>2, <4>2, SeqInto
    <3>4. ASSUME NEW i \in DOMAIN texts, NEW j \in DOMAIN texts, i < j,
                 NEW o \in texts[i], NEW p \in texts[j]
          PROVE  o < p
      <4>1. i \in 1 .. n
        BY <3>2, <3>4
      <4>2. o \in split.out[i] /\ i \in DOMAIN split.out
        BY <3>2, <3>4, <4>1
      <4>3. CASE j = n + 1
        BY <1>3, <3>2, <3>4, <4>2, <4>3
      <4>4. CASE j # n + 1
        <5>1. j \in 1 .. n
          BY <3>2, <4>4
        <5>2. p \in split.out[j] /\ j \in DOMAIN split.out
          BY <3>2, <3>4, <5>1
        <5> QED
          BY <1>3, <3>4, <4>2, <5>2
      <4> QED
        BY <4>3, <4>4
    <3>5. ASSUME NEW o \in Solid(body)
          PROVE  \E i \in DOMAIN texts : o \in texts[i]
      <4>1. o \in old
        BY <1>5
      <4>2. CASE o \in split.buf
        <5>1. n + 1 \in DOMAIN texts
          BY <3>2
        <5> QED
          BY <3>2, <4>2, <5>1
      <4>3. CASE \E i \in DOMAIN split.out : o \in split.out[i]
        <5>1. PICK i \in 1 .. n : o \in split.out[i]
          BY <3>2, <4>3
        <5>2. i \in 1 .. (n + 1)
          BY <3>2
        <5> QED
          BY <3>2, <5>1, <5>2
      <4> QED
        BY <1>3, <4>1, <4>2, <4>3
    <3> QED
      BY <1>6, <1>8, <2>1, <3>3, <3>4, <3>5 DEF Sound, body
  <2>3. CASE ~(split.size > 0)
    <3>1. texts = split.out /\ split.buf = {}
      BY <1>3, <2>1, <2>3
    <3>2. texts \in Seq(SUBSET Span(Current.range))
      <4>1. \A i \in DOMAIN texts : texts[i] \in SUBSET old
        BY <1>3, <3>1
      <4>2. \A i \in DOMAIN texts : texts[i] \in SUBSET Span(Current.range)
        BY <1>4, <4>1
      <4> QED
        BY <1>3, <3>1, <4>2, SeqInto
    <3>3. \A i, j \in DOMAIN texts : i < j => \A o \in texts[i], p \in texts[j] : o < p
      BY <1>3, <3>1
    <3>4. \A o \in Solid(body) : \E i \in DOMAIN texts : o \in texts[i]
      BY <1>3, <1>5, <3>1
    <3> QED
      BY <1>6, <1>8, <2>1, <3>2, <3>3, <3>4 DEF Sound, body
  <2> QED
    BY <2>2, <2>3
<1> QED
  BY <1>7, <1>8
-----------------------------------------------------------------------------
(***************************************************************************)
(* split_if_oversize.                                                      *)
(***************************************************************************)

\* One fragment more, from where the last one ended.
LEMMA CoverMore ==
    ASSUME NEW from \in Nat, NEW mid \in Nat, NEW to \in Nat, from <= mid, mid <= to,
           NEW ends, NEW frags, Cover(frags, from, mid, ends),
           NEW f, f.text = mid .. (to - 1), f \in [text : SUBSET Nat, prefixed : BOOLEAN],
           Uncut(f.text, ends, FALSE)
    PROVE  Cover(Append(frags, f), from, to, ends)
<1> DEFINE new == Append(frags, f)
           n == Len(frags)
           X == [text : SUBSET Nat, prefixed : BOOLEAN]
<1>1. /\ frags \in Seq(X)
      /\ \A i \in DOMAIN frags : /\ frags[i].text \subseteq from .. (mid - 1)
                                 /\ Uncut(frags[i].text, ends, FALSE)
      /\ \A i, j \in DOMAIN frags :
            i < j => \A o \in frags[i].text, p \in frags[j].text : o < p
      /\ \A o \in from .. (mid - 1) : InSome(frags, o)
  BY DEF Cover
<1>2. /\ new \in Seq(X) /\ n \in Nat /\ DOMAIN frags = 1 .. n /\ DOMAIN new = 1 .. (n + 1)
      /\ new[n + 1] = f /\ \A i \in 1 .. n : new[i] = frags[i]
  <2> HIDE DEF X
  <2>1. f \in X
    BY DEF X
  <2> QED
    BY <1>1, <2>1
<1> HIDE DEF new, n, X
<1>3. ASSUME NEW i \in DOMAIN new
      PROVE  new[i].text \subseteq from .. (to - 1) /\ Uncut(new[i].text, ends, FALSE)
  <2>1. CASE i = n + 1
    <3>1. new[i].text = mid .. (to - 1)
      BY <1>2, <2>1
    <3>2. \A o \in mid .. (to - 1) : o \in from .. (to - 1)
      OBVIOUS
    <3> QED
      BY <1>2, <2>1, <3>1, <3>2
  <2>2. CASE i # n + 1
    <3>1. i \in 1 .. n
      BY <1>2, <2>2
    <3>2. new[i] = frags[i] /\ i \in DOMAIN frags
      BY <1>2, <3>1
    <3>3. \A o \in from .. (mid - 1) : o \in from .. (to - 1)
      OBVIOUS
    <3> QED
      BY <1>1, <3>2, <3>3
  <2> QED
    BY <2>1, <2>2
<1>4. ASSUME NEW i \in DOMAIN new, NEW j \in DOMAIN new, i < j,
             NEW o \in new[i].text, NEW p \in new[j].text
      PROVE  o < p
  <2>1. i \in 1 .. n
    BY <1>2, <1>4
  <2>2. o \in frags[i].text /\ i \in DOMAIN frags
    BY <1>2, <1>4, <2>1
  <2>3. CASE j = n + 1
    <3>1. p \in mid .. (to - 1)
      BY <1>2, <1>4, <2>3
    <3>2. o \in from .. (mid - 1)
      BY <1>1, <2>2
    <3> QED
      BY <3>1, <3>2
  <2>4. CASE j # n + 1
    <3>1. j \in 1 .. n
      BY <1>2, <2>4
    <3>2. p \in frags[j].text /\ j \in DOMAIN frags
      BY <1>2, <1>4, <3>1
    <3> QED
      BY <1>1, <1>4, <2>2, <3>2
  <2> QED
    BY <2>3, <2>4
<1>5. ASSUME NEW o \in from .. (to - 1)
      PROVE  InSome(new, o)
  <2>1. CASE o < mid
    <3>1. o \in from .. (mid - 1)
      BY <2>1
    <3>2. PICK i \in 1 .. n : o \in frags[i].text
      BY <1>1, <1>2, <3>1 DEF InSome
    <3>3. i \in 1 .. (n + 1)
      BY <1>2
    <3> QED
      BY <1>2, <3>2, <3>3 DEF InSome
  <2>2. CASE ~(o < mid)
    <3>1. o \in mid .. (to - 1) /\ n + 1 \in 1 .. (n + 1)
      BY <1>2, <2>2
    <3> QED
      BY <1>2, <3>1 DEF InSome
  <2> QED
    BY <2>1, <2>2
<1> QED
  BY <1>2, <1>3, <1>4, <1>5 DEF Cover, new, X

\* The loop over the statements starts with nothing cut.
LEMMA CutStarts ==
    ASSUME NEW from \in Nat, NEW ends
    PROVE  Cover(<<>>, from, from, ends)
<1>1. from .. (from - 1) = {}
  OBVIOUS
<1> QED
  BY <1>1 DEF Cover, InSome

\* A fragment and its length.
LEMMA FragmentType ==
    ASSUME NEW hit, NEW from \in Nat, NEW to \in Nat, from <= to,
           NEW f, f = Fragment(hit, from, to)
    PROVE  /\ f.text = from .. (to - 1)
           /\ f \in [text : SUBSET Nat, prefixed : BOOLEAN]
           /\ Cardinality(from .. (to - 1)) = to - from
<1>1. Prefixed(hit, from, to) \in BOOLEAN
  BY DEF Prefixed
<1>2. from .. (to - 1) \in SUBSET Nat
  OBVIOUS
<1>3. Cardinality(from .. (to - 1)) = to - from
  BY Length
<1> QED
  BY <1>1, <1>2, <1>3 DEF Fragment

\* A range no statement ends in need not be cut.
LEMMA NoEndInside ==
    ASSUME NEW from \in Nat, NEW to \in Nat, from < to, NEW ends \in SUBSET Nat,
           \A e \in ends : e <= from \/ to <= e
    PROVE  Uncut(from .. (to - 1), ends, FALSE)
<1> DEFINE S == from .. (to - 1)
<1>1. S \in SUBSET Int /\ from \in S /\ to - 1 \in S
  OBVIOUS
<1>2. \A x \in S : from <= x /\ x <= to - 1
  OBVIOUS
<1> HIDE DEF S
<1>3. Min(S) \in S /\ \A x \in S : Min(S) <= x
  BY <1>1, <1>2, MinFacts
<1>4. Max(S) \in S /\ \A x \in S : x <= Max(S)
  BY <1>1, <1>2, MaxFacts, to - 1 \in Int
<1>5. Min(S) >= from /\ Max(S) <= to - 1 /\ Min(S) \in Int /\ Max(S) \in Int
  BY <1>1, <1>2, <1>3, <1>4
<1>6. ASSUME NEW e \in ends, Min(S) < e, e <= Max(S)
      PROVE  FALSE
  <2>1. e <= from \/ to <= e
    OBVIOUS
  <2>2. e \in Nat
    OBVIOUS
  <2> QED
    BY <1>5, <1>6, <2>1, <2>2
<1> QED
  BY <1>6 DEF Uncut, S

\* A short range need not be cut.
LEMMA ShortRange ==
    ASSUME NEW from \in Nat, NEW to \in Nat, from <= to, NEW ends, to - from <= Limit, NEW b
    PROVE  Uncut(from .. (to - 1), ends, b)
<1>1. Cardinality(from .. (to - 1)) = to - from
  BY Length
<1>2. Limit \in Nat
  BY ChunkerAssumption
<1>3. ~(Cardinality(from .. (to - 1)) > Limit)
  BY <1>1, <1>2
<1> QED
  BY <1>3 DEF Uncut

\* The limit and its half.
LEMMA HalfLimit ==
    Limit \in Nat /\ Limit \div 2 \in Nat /\ Limit \div 2 <= Limit
<1>1. Limit \in Nat
  BY ChunkerAssumption
<1> QED
  BY <1>1

\* A symbol without a fragment yet.
LEMMA CutBegins ==
    ASSUME input \in Inputs, NEW hit, IsSymbol(hit), NEW c,
           c = [start |-> hit.range.from, last |-> hit.range.from,
                ends |-> StatementEnds(hit), frags |-> <<>>]
    PROVE  CutAt(c, hit)
<1>1. /\ c.start = hit.range.from /\ c.last = hit.range.from
      /\ c.ends = StatementEnds(hit) /\ c.frags = <<>>
  OBVIOUS
<1>2. /\ hit.range.from \in Nat /\ hit.range.to \in Nat /\ hit.range.from < hit.range.to
      /\ hit.node.from \in Nat /\ hit.range.from <= hit.node.from
  BY RangeFacts
<1>3. /\ StatementEnds(hit) \in Seq(EndsIn(hit))
      /\ \A i, j \in DOMAIN StatementEnds(hit) :
            i < j => StatementEnds(hit)[i] < StatementEnds(hit)[j]
      /\ \A e \in EndsIn(hit) : \E i \in DOMAIN StatementEnds(hit) : e = StatementEnds(hit)[i]
      /\ EndsIn(hit) \subseteq Nat
  BY EndsFacts
<1>4. \A e \in EndsIn(hit) : hit.range.from < e
  <2>1. \A e \in EndsIn(hit) : e \in Nat /\ hit.node.from < e
    BY <1>3 DEF EndsIn
  <2> QED
    BY <1>2, <2>1
<1>5. \A i \in DOMAIN StatementEnds(hit) : StatementEnds(hit)[i] \in EndsIn(hit)
  BY <1>3
<1>6. Cover(<<>>, hit.range.from, hit.range.from, EndsIn(hit))
  BY <1>2, CutStarts
<1> QED
  BY <1>1, <1>2, <1>3, <1>4, <1>5, <1>6 DEF CutAt, Cutting

\* The first of the ends, and the others.
LEMMA HeadFacts ==
    ASSUME NEW S \in SUBSET Nat, NEW s \in Seq(S), s # <<>>,
           \A i, j \in DOMAIN s : i < j => s[i] < s[j]
    PROVE  /\ Head(s) \in S /\ Tail(s) \in Seq(S)
           /\ \A i \in DOMAIN Tail(s) : Head(s) < Tail(s)[i]
           /\ \A i, j \in DOMAIN Tail(s) : i < j => Tail(s)[i] < Tail(s)[j]
           /\ \A i \in DOMAIN s : \/ s[i] = Head(s)
                                  \/ \E j \in DOMAIN Tail(s) : s[i] = Tail(s)[j]
           /\ \E i \in DOMAIN s : s[i] = Head(s)
<1> DEFINE n == Len(s)
           t == Tail(s)
<1>1. n \in Nat /\ n > 0 /\ DOMAIN s = 1 .. n
  OBVIOUS
<1>2. Head(s) = s[1] /\ t \in Seq(S) /\ DOMAIN t = 1 .. (n - 1)
  OBVIOUS
<1>3. \A i \in 1 .. (n - 1) : t[i] = s[i + 1]
  OBVIOUS
<1> HIDE DEF n, t
<1>4. \A i \in 1 .. (n - 1) : i + 1 \in 1 .. n /\ 1 < i + 1
  BY <1>1
<1>5. 1 \in 1 .. n
  BY <1>1
<1>6. \A i \in DOMAIN t : Head(s) < t[i]
  BY <1>1, <1>2, <1>3, <1>4, <1>5
<1>7. ASSUME NEW i \in DOMAIN t, NEW j \in DOMAIN t, i < j
      PROVE  t[i] < t[j]
  <2>1. i + 1 < j + 1
    BY <1>1, <1>2, <1>7
  <2> QED
    BY <1>1, <1>2, <1>3, <1>4, <2>1
<1>8. ASSUME NEW i \in DOMAIN s, s[i] # Head(s)
      PROVE  \E j \in DOMAIN t : s[i] = t[j]
  <2>1. i # 1
    BY <1>2, <1>8
  <2>2. i - 1 \in 1 .. (n - 1) /\ (i - 1) + 1 = i
    BY <1>1, <2>1
  <2> QED
    BY <1>2, <1>3, <2>2
<1>9. Head(s) \in S
  BY <1>1, <1>2, <1>5
<1> QED
  BY <1>1, <1>2, <1>5, <1>6, <1>7, <1>8, <1>9 DEF t

\* One statement more, near to the last cut.
LEMMA NearStep ==
    ASSUME input \in Inputs, NEW hit, IsSymbol(hit), NEW start, NEW last, NEW ends, NEW frags,
           Cutting(start, last, ends, frags, hit), ends # <<>>,
           NEW end, end = Head(ends), end - start < Limit \div 2
    PROVE  Cutting(start, end, Tail(ends), frags, hit)
<1> DEFINE E == EndsIn(hit)
           a == hit.range.from
           b == hit.range.to
           rest == Tail(ends)
           h == Limit \div 2
<1>1. /\ start \in Nat /\ last \in Nat /\ a <= start /\ start <= last /\ last <= b
      /\ Cover(frags, a, start, E)
  BY DEF Cutting
<1>2. /\ ends \in Seq(E)
      /\ \A i \in DOMAIN ends : last < ends[i]
      /\ \A i, j \in DOMAIN ends : i < j => ends[i] < ends[j]
  BY DEF Cutting
<1>3. \A e \in E : \/ e <= last /\ (start < e => e - start < h)
                   \/ \E i \in DOMAIN ends : e = ends[i]
  BY DEF Cutting
<1>4. E \in SUBSET Nat
  BY EndsFacts
<1>5. \A e \in E : e <= b
  <2>1. b = hit.node.to
    BY RangeFacts
  <2> QED
    BY <2>1 DEF EndsIn
<1>6. a \in Nat /\ b \in Nat
  BY RangeFacts
<1>7. h \in Nat /\ end - start < h
  BY HalfLimit
<1> HIDE DEF E, a, b, rest, h
<1>8. /\ end \in E /\ rest \in Seq(E)
      /\ \A i \in DOMAIN rest : end < rest[i]
      /\ \A i, j \in DOMAIN rest : i < j => rest[i] < rest[j]
      /\ \A i \in DOMAIN ends : ends[i] = end \/ \E j \in DOMAIN rest : ends[i] = rest[j]
      /\ \E i \in DOMAIN ends : ends[i] = end
  BY <1>2, <1>4, HeadFacts DEF rest
<1>9. last < end /\ end \in Nat /\ end <= b
  BY <1>2, <1>4, <1>5, <1>8
<1>10. start <= end /\ a <= start /\ end # start
  BY <1>1, <1>9
<1>11. ASSUME NEW e \in E
       PROVE  \/ e <= end /\ (start < e => e - start < h)
              \/ \E i \in DOMAIN rest : e = rest[i]
  <2>1. CASE e <= last /\ (start < e => e - start < h)
    <3>1. e \in Nat
      BY <1>4
    <3> QED
      BY <1>1, <1>9, <2>1, <3>1
  <2>2. CASE e = end
    BY <1>7, <1>9, <2>2
  <2>3. CASE \E i \in DOMAIN rest : e = rest[i]
    BY <2>3
  <2> QED
    BY <1>3, <1>8, <2>1, <2>2, <2>3
<1> QED
  BY <1>1, <1>7, <1>8, <1>9, <1>10, <1>11 DEF Cutting, E, a, b, rest, h

\* One statement more, where the text is cut.
LEMMA FarStep ==
    ASSUME input \in Inputs, NEW hit, IsSymbol(hit), NEW start, NEW last, NEW ends, NEW frags,
           Cutting(start, last, ends, frags, hit), ends # <<>>,
           NEW end, end = Head(ends),
           NEW first, first = IF end - start > Limit /\ last > start
                              THEN <<Fragment(hit, start, last)>> ELSE <<>>,
           NEW from, from = IF first = <<>> THEN start ELSE last
    PROVE  Cutting(end, end, Tail(ends), frags \o first \o <<Fragment(hit, from, end)>>, hit)
<1> DEFINE E == EndsIn(hit)
           a == hit.range.from
           b == hit.range.to
           rest == Tail(ends)
           h == Limit \div 2
           X == [text : SUBSET Nat, prefixed : BOOLEAN]
<1>1. /\ start \in Nat /\ last \in Nat /\ a <= start /\ start <= last /\ last <= b
      /\ (last # start => last - start < h)
      /\ Cover(frags, a, start, E)
  BY DEF Cutting
<1>2. /\ ends \in Seq(E)
      /\ \A i \in DOMAIN ends : last < ends[i]
      /\ \A i, j \in DOMAIN ends : i < j => ends[i] < ends[j]
  BY DEF Cutting
<1>3. \A e \in E : e <= last \/ \E i \in DOMAIN ends : e = ends[i]
  BY DEF Cutting
<1>4. E \in SUBSET Nat
  BY EndsFacts
<1>5. \A e \in E : e <= b
  <2>1. b = hit.node.to
    BY RangeFacts
  <2> QED
    BY <2>1 DEF EndsIn
<1>6. a \in Nat /\ b \in Nat
  BY RangeFacts
<1>7. Limit \in Nat /\ h \in Nat /\ h <= Limit
  BY HalfLimit
<1> HIDE DEF E, a, b, rest, h
<1>8. /\ end \in E /\ rest \in Seq(E)
      /\ \A i \in DOMAIN rest : end < rest[i]
      /\ \A i, j \in DOMAIN rest : i < j => rest[i] < rest[j]
      /\ \A i \in DOMAIN ends : ends[i] = end \/ \E j \in DOMAIN rest : ends[i] = rest[j]
      /\ \E i \in DOMAIN ends : ends[i] = end
  BY <1>2, <1>4, HeadFacts DEF rest
<1>9. last < end /\ end \in Nat /\ end <= b
  BY <1>2, <1>4, <1>5, <1>8
<1>10. start < end /\ a <= end
  BY <1>1, <1>6, <1>9
<1>11. \A e \in E : e <= last \/ e = end \/ \E j \in DOMAIN rest : e = rest[j]
  BY <1>3, <1>8
<1>12. \A e \in E : e <= last \/ end <= e
  <2> SUFFICES ASSUME NEW e \in E, ~(e <= last) PROVE end <= e
    OBVIOUS
  <2>1. CASE e = end
    BY <1>9, <2>1
  <2>2. CASE \E j \in DOMAIN rest : e = rest[j]
    <3>1. end < e /\ e \in Nat
      BY <1>4, <1>8, <2>2
    <3> QED
      BY <1>9, <3>1
  <2> QED
    BY <1>11, <2>1, <2>2
<1>13. \A e \in E : e <= end \/ \E j \in DOMAIN rest : e = rest[j]
  <2> SUFFICES ASSUME NEW e \in E, ~(\E j \in DOMAIN rest : e = rest[j]) PROVE e <= end
    OBVIOUS
  <2>1. e \in Nat /\ (e <= last \/ e = end)
    BY <1>4, <1>11
  <2> QED
    BY <1>1, <1>9, <2>1
<1>14. frags \in Seq(X)
  BY <1>1 DEF Cover
<1> DEFINE new == frags \o first \o <<Fragment(hit, from, end)>>
<1>15. CASE end - start > Limit /\ last > start
  <2> DEFINE f == Fragment(hit, start, last)
             g == Fragment(hit, last, end)
  <2>1. first = <<f>>
    BY <1>15
  <2>2. from = last
    <3>1. first # <<>>
      BY <2>1
    <3> QED
      BY <3>1
  <2>3. f.text = start .. (last - 1) /\ f \in X
    <3>1. f = Fragment(hit, start, last)
      OBVIOUS
    <3> HIDE DEF f, X
    <3>2. f.text = start .. (last - 1) /\ f \in [text : SUBSET Nat, prefixed : BOOLEAN]
      BY <1>1, <3>1 DEF Fragment, Prefixed
    <3> QED
      BY <3>2 DEF X
  <2>4. g.text = last .. (end - 1) /\ g \in X
    <3>1. last <= end /\ g = Fragment(hit, last, end)
      BY <1>1, <1>9
    <3> HIDE DEF f, g, X
    <3>2. g.text = last .. (end - 1) /\ g \in [text : SUBSET Nat, prefixed : BOOLEAN]
      BY <1>1, <1>9, <3>1 DEF Fragment, Prefixed
    <3> QED
      BY <3>2 DEF X
  <2>5. new = Append(Append(frags, f), g)
    <3>1. new = frags \o <<f>> \o <<g>>
      BY <2>1, <2>2
    <3> HIDE DEF f, g, X, new
    <3>2. frags \o <<f>> = Append(frags, f) /\ Append(frags, f) \in Seq(X)
      BY <1>14, <2>3
    <3>3. Append(frags, f) \o <<g>> = Append(Append(frags, f), g)
      BY <2>4, <3>2
    <3> QED
      BY <3>1, <3>2, <3>3
  <2>6. Uncut(start .. (last - 1), E, FALSE)
    <3>1. last - start <= Limit
      BY <1>1, <1>7, <1>15
    <3> QED
      BY <1>1, <3>1, ShortRange
  <2>7. Uncut(last .. (end - 1), E, FALSE)
    BY <1>1, <1>4, <1>9, <1>12, NoEndInside
  <2>8. f \in [text : SUBSET Nat, prefixed : BOOLEAN] /\ g \in [text : SUBSET Nat, prefixed : BOOLEAN]
    BY <2>3, <2>4
  <2> HIDE DEF f, g, X, new
  <2>9. Cover(Append(frags, f), a, last, E)
    <3>1. Uncut(f.text, E, FALSE)
      BY <2>3, <2>6
    <3> QED
      BY <1>1, <1>6, <2>3, <2>8, <3>1, CoverMore
  <2>10. Cover(Append(Append(frags, f), g), a, end, E)
    <3> DEFINE fs == Append(frags, f)
    <3>1. a <= last /\ last <= end
      BY <1>1, <1>6, <1>9
    <3>2. Uncut(g.text, E, FALSE)
      BY <2>4, <2>7
    <3>3. Cover(fs, a, last, E)
      BY <2>9
    <3> HIDE DEF fs
    <3>4. Cover(Append(fs, g), a, end, E)
      BY <1>1, <1>6, <1>9, <2>4, <2>8, <3>1, <3>2, <3>3, CoverMore
    <3> QED
      BY <3>4 DEF fs
  <2>11. Cover(new, a, end, E)
    BY <2>5, <2>10
  <2> QED
    BY <1>8, <1>9, <1>10, <1>13, <2>11 DEF Cutting, E, a, b, rest, new
<1>16. CASE ~(end - start > Limit /\ last > start)
  <2> DEFINE f == Fragment(hit, start, end)
  <2>1. first = <<>> /\ from = start
    BY <1>16
  <2>2. f.text = start .. (end - 1) /\ f \in X
    <3>1. start <= end /\ f = Fragment(hit, start, end)
      BY <1>1, <1>9, <1>10
    <3> HIDE DEF f, X
    <3>2. f.text = start .. (end - 1) /\ f \in [text : SUBSET Nat, prefixed : BOOLEAN]
      BY <1>1, <1>9, <3>1 DEF Fragment, Prefixed
    <3> QED
      BY <3>2 DEF X
  <2>3. new = Append(frags, f)
    <3>1. new = frags \o <<>> \o <<f>>
      BY <2>1
    <3> HIDE DEF f, X, new
    <3>2. frags \o <<>> = frags
      BY <1>14
    <3>3. frags \o <<f>> = Append(frags, f)
      BY <1>14, <2>2
    <3> QED
      BY <3>1, <3>2, <3>3
  <2>4. Uncut(start .. (end - 1), E, FALSE)
    <3>1. CASE end - start > Limit
      <4>1. last = start
        BY <1>1, <1>16, <3>1
      <4>2. \A e \in E : e <= start \/ end <= e
        BY <1>12, <4>1
      <4> QED
        BY <1>1, <1>4, <1>9, <1>10, <4>2, NoEndInside
    <3>2. CASE ~(end - start > Limit)
      <4>1. end - start <= Limit /\ start <= end
        BY <1>1, <1>7, <1>9, <1>10, <3>2
      <4> QED
        BY <1>1, <1>9, <4>1, ShortRange
    <3> QED
      BY <3>1, <3>2
  <2>5. f \in [text : SUBSET Nat, prefixed : BOOLEAN]
    BY <2>2
  <2> HIDE DEF f, X, new
  <2>6. Cover(Append(frags, f), a, end, E)
    <3>1. Uncut(f.text, E, FALSE)
      BY <2>2, <2>4
    <3>2. start <= end
      BY <1>1, <1>9, <1>10
    <3> QED
      BY <1>1, <1>6, <1>9, <2>2, <2>5, <3>1, <3>2, CoverMore
  <2>7. Cover(new, a, end, E)
    BY <2>3, <2>6
  <2> QED
    BY <1>8, <1>9, <1>10, <1>13, <2>7 DEF Cutting, E, a, b, rest, new
<1> QED
  BY <1>15, <1>16

\* The fragments when the loop over the statements has ended.
LEMMA CutEnds ==
    ASSUME input \in Inputs, NEW hit, IsSymbol(hit), NEW start, NEW last, NEW frags,
           Cutting(start, last, <<>>, frags, hit)
    PROVE  /\ start \in Nat /\ hit.range.from <= start /\ start <= hit.range.to
           /\ \A e \in EndsIn(hit) : start < e => e - start < Limit \div 2
           /\ EndsIn(hit) \subseteq Nat
           /\ frags \in Seq([text : SUBSET Nat, prefixed : BOOLEAN])
           /\ Len(frags) \in Nat /\ DOMAIN frags = 1 .. Len(frags)
           /\ \A i \in DOMAIN frags : /\ frags[i].text \subseteq hit.range.from .. (start - 1)
                                      /\ frags[i].text \subseteq Span(hit.range)
                                      /\ Uncut(frags[i].text, EndsIn(hit), FALSE)
           /\ \A i, j \in DOMAIN frags :
                 i < j => \A o \in frags[i].text, p \in frags[j].text : o < p
           /\ \A o \in Span(hit.range) : o < start => \E i \in DOMAIN frags : o \in frags[i].text
<1> DEFINE X == [text : SUBSET Nat, prefixed : BOOLEAN]
           a == hit.range.from
           b == hit.range.to
<1>1. a \in Nat /\ b \in Nat /\ Span(hit.range) = a .. (b - 1)
  BY RangeFacts
<1>2. /\ start \in Nat /\ last \in Nat /\ a <= start /\ start <= last /\ last <= b
  BY DEF Cutting
<1>3. \A e \in EndsIn(hit) : start < e => e - start < Limit \div 2
  <2>1. \A e \in EndsIn(hit) : \/ e <= last /\ (start < e => e - start < Limit \div 2)
                               \/ \E i \in DOMAIN <<>> : e = <<>>[i]
    BY DEF Cutting
  <2>2. DOMAIN <<>> = {}
    OBVIOUS
  <2> QED
    BY <2>1, <2>2
<1>4. EndsIn(hit) \subseteq Nat
  BY EndsFacts
<1>5. /\ frags \in Seq(X)
      /\ \A i \in DOMAIN frags : /\ frags[i].text \subseteq a .. (start - 1)
                                 /\ Uncut(frags[i].text, EndsIn(hit), FALSE)
      /\ \A i, j \in DOMAIN frags :
            i < j => \A o \in frags[i].text, p \in frags[j].text : o < p
      /\ \A o \in a .. (start - 1) : \E i \in DOMAIN frags : o \in frags[i].text
  BY DEF Cutting, Cover, InSome
<1> HIDE DEF a, b
<1>6. start <= b
  BY <1>1, <1>2
<1>7. Len(frags) \in Nat /\ DOMAIN frags = 1 .. Len(frags)
  <2> HIDE DEF X
  <2> QED
    BY <1>5
<1>8. a .. (start - 1) \subseteq Span(hit.range)
  BY <1>1, <1>2, <1>6
<1>9. \A o \in Span(hit.range) : o < start => o \in a .. (start - 1)
  BY <1>1, <1>2
<1> QED
  BY <1>2, <1>3, <1>4, <1>5, <1>6, <1>7, <1>8, <1>9 DEF a, b

\* What could not be cut may also be the last text.
LEMMA MayBeLast ==
    ASSUME NEW text, NEW ends, NEW final \in BOOLEAN, Uncut(text, ends, FALSE)
    PROVE  Uncut(text, ends, final)
  BY DEF Uncut

\* A text within the limit.
LEMMA ShortText ==
    ASSUME NEW text, NEW ends, NEW final, Cardinality(text) \in Nat, Cardinality(text) <= Limit
    PROVE  Uncut(text, ends, final)
<1>1. Limit \in Nat
  BY ChunkerAssumption
<1>2. ~(Cardinality(text) > Limit)
  BY <1>1
<1> QED
  BY <1>2 DEF Uncut

\* Only space follows the last cut.
LEMMA RestBlank ==
    ASSUME input \in Inputs, NEW hit, IsSymbol(hit), NEW start, NEW last, NEW frags,
           Cutting(start, last, <<>>, frags, hit),
           BodyOf(hit) \subseteq Span(hit.range), Solid(BodyOf(hit)) # {},
           \A o \in start .. (hit.range.to - 1) : Blank(o)
    PROVE  frags # <<>> /\ Sound(FragmentTexts(frags), hit)
<1> DEFINE texts == FragmentTexts(frags)
           T == SUBSET Span(hit.range)
           n == Len(frags)
<1>1. /\ start \in Nat /\ n \in Nat /\ DOMAIN frags = 1 .. n
      /\ \A i \in DOMAIN frags : /\ frags[i].text \in T
                                 /\ Uncut(frags[i].text, EndsIn(hit), FALSE)
      /\ \A i, j \in DOMAIN frags :
            i < j => \A o \in frags[i].text, p \in frags[j].text : o < p
      /\ \A o \in Span(hit.range) : o < start => \E i \in DOMAIN frags : o \in frags[i].text
  BY CutEnds
<1>2. texts = [i \in 1 .. n |-> frags[i].text]
  BY <1>1 DEF FragmentTexts
<1> HIDE DEF texts, n
<1>3. texts \in [1 .. n -> T] /\ DOMAIN texts = 1 .. n /\ \A i \in 1 .. n : texts[i] = frags[i].text
  <2> HIDE DEF T
  <2> QED
    BY <1>1, <1>2
<1>4. texts \in Seq(T) /\ Len(texts) = n
  <2> HIDE DEF T
  <2> QED
    BY <1>1, <1>3
<1>5. ASSUME NEW o \in Solid(BodyOf(hit))
      PROVE  \E i \in DOMAIN frags : o \in frags[i].text
  <2>1. o \in Span(hit.range) /\ ~Blank(o)
    BY DEF Solid
  <2>2. hit.range.from \in Nat /\ hit.range.to \in Nat
        /\ Span(hit.range) = hit.range.from .. (hit.range.to - 1)
    BY RangeFacts
  <2>3. o \notin start .. (hit.range.to - 1)
    BY <2>1
  <2>4. o < start
    BY <1>1, <2>1, <2>2, <2>3
  <2> QED
    BY <1>1, <2>1, <2>4
<1>6. frags # <<>>
  <2>1. PICK o : o \in Solid(BodyOf(hit))
    OBVIOUS
  <2> QED
    BY <1>5, <2>1
<1>7. \A i \in DOMAIN texts : Uncut(texts[i], EndsIn(hit), i = Len(texts))
  BY <1>1, <1>3, MayBeLast
<1> QED
  BY <1>1, <1>3, <1>4, <1>5, <1>6, <1>7 DEF Sound, texts

\* The rest is a fragment of its own.
LEMMA RestAlone ==
    ASSUME input \in Inputs, NEW hit, IsSymbol(hit), NEW start, NEW last, NEW frags,
           Cutting(start, last, <<>>, frags, hit),
           BodyOf(hit) \subseteq Span(hit.range),
           \E o \in start .. (hit.range.to - 1) : ~Blank(o),
           NEW f, f.text = start .. (hit.range.to - 1)
    PROVE  Append(frags, f) # <<>> /\ Sound(FragmentTexts(Append(frags, f)), hit)
<1> DEFINE fs == Append(frags, f)
           texts == FragmentTexts(fs)
           T == SUBSET Span(hit.range)
           n == Len(frags)
           b == hit.range.to
           E == EndsIn(hit)
<1>1. /\ start \in Nat /\ n \in Nat /\ DOMAIN frags = 1 .. n
      /\ frags \in Seq([text : SUBSET Nat, prefixed : BOOLEAN])
      /\ hit.range.from <= start
      /\ E \subseteq Nat
      /\ \A i \in DOMAIN frags : /\ frags[i].text \subseteq hit.range.from .. (start - 1)
                                 /\ frags[i].text \in T
                                 /\ Uncut(frags[i].text, E, FALSE)
      /\ \A i, j \in DOMAIN frags :
            i < j => \A o \in frags[i].text, p \in frags[j].text : o < p
      /\ \A o \in Span(hit.range) : o < start => \E i \in DOMAIN frags : o \in frags[i].text
  BY CutEnds
<1>2. \A e \in E : start < e => e - start < Limit \div 2
  BY CutEnds
<1>3. /\ hit.range.from \in Nat /\ b \in Nat /\ Span(hit.range) = hit.range.from .. (b - 1)
  BY RangeFacts
<1>4. /\ DOMAIN fs = 1 .. (n + 1) /\ fs[n + 1] = f
      /\ \A i \in 1 .. n : fs[i] = frags[i]
  BY <1>1
<1>5. texts = [i \in 1 .. (n + 1) |-> fs[i].text]
  BY <1>4 DEF FragmentTexts
<1> HIDE DEF texts, n, fs, b, E
<1>6. start .. (b - 1) \in T
  BY <1>1, <1>3
<1>7. ASSUME NEW i \in 1 .. (n + 1)
      PROVE  \/ i = n + 1
             \/ i \in 1 .. n
  BY <1>1
<1>8. /\ DOMAIN texts = 1 .. (n + 1) /\ texts[n + 1] = start .. (b - 1)
      /\ \A i \in 1 .. n : texts[i] = frags[i].text
  <2>1. n + 1 \in 1 .. (n + 1) /\ \A i \in 1 .. n : i \in 1 .. (n + 1)
    BY <1>1
  <2> QED
    BY <1>4, <1>5, <2>1 DEF b
<1>9. texts \in Seq(T) /\ Len(texts) = n + 1
  <2>1. \A i \in 1 .. (n + 1) : texts[i] \in T
    BY <1>1, <1>6, <1>7, <1>8
  <2> HIDE DEF T
  <2>2. texts \in [1 .. (n + 1) -> T] /\ n + 1 \in Nat
    BY <1>1, <1>5, <2>1
  <2> QED
    BY <1>8, <2>2
<1>10. ASSUME NEW i \in DOMAIN texts, NEW j \in DOMAIN texts, i < j,
              NEW o \in texts[i], NEW p \in texts[j]
       PROVE  o < p
  <2>1. i \in 1 .. n
    BY <1>1, <1>8, <1>10
  <2>2. o \in frags[i].text /\ i \in DOMAIN frags
    BY <1>1, <1>8, <1>10, <2>1
  <2>3. CASE j = n + 1
    <3>1. p \in start .. (b - 1)
      BY <1>8, <1>10, <2>3
    <3>2. o \in hit.range.from .. (start - 1)
      BY <1>1, <2>2
    <3> QED
      BY <1>1, <1>3, <3>1, <3>2
  <2>4. CASE j # n + 1
    <3>1. j \in 1 .. n
      BY <1>7, <1>8, <2>4
    <3>2. p \in frags[j].text /\ j \in DOMAIN frags
      BY <1>1, <1>8, <1>10, <3>1
    <3> QED
      BY <1>1, <1>10, <2>2, <3>2
  <2> QED
    BY <2>3, <2>4
<1>11. Uncut(start .. (b - 1), E, TRUE)
  <2> DEFINE S == start .. (b - 1)
             h == Limit \div 2
  <2>1. S \in SUBSET Int /\ S # {} /\ \A x \in S : start <= x /\ x <= b - 1
    BY <1>1, <1>3 DEF b
  <2>2. start \in S /\ start \in Int
    <3>1. PICK x \in S : start <= x /\ x <= b - 1
      BY <2>1
    <3> QED
      BY <1>1, <1>3, <3>1
  <2>3. h \in Nat
    BY HalfLimit
  <2> HIDE DEF S
  <2>4. Min(S) \in S /\ \A x \in S : Min(S) <= x
    BY <2>1, <2>2, MinFacts
  <2>5. Min(S) = start
    <3>1. Min(S) \in Int /\ Min(S) <= start /\ start <= Min(S)
      BY <2>1, <2>2, <2>4
    <3> QED
      BY <2>2, <3>1
  <2>6. \A e \in E : Min(S) < e => e - Min(S) < Limit \div 2
    BY <1>2, <2>5 DEF E
  <2> QED
    BY <2>6 DEF Uncut, S
<1>12. ASSUME NEW i \in DOMAIN texts
       PROVE  Uncut(texts[i], E, i = Len(texts))
  <2>1. CASE i = n + 1
    BY <1>8, <1>9, <1>11, <2>1
  <2>2. CASE i \in 1 .. n
    BY <1>1, <1>8, <2>2, MayBeLast
  <2> QED
    BY <1>7, <1>8, <2>1, <2>2
<1>13. ASSUME NEW o \in Solid(BodyOf(hit))
       PROVE  \E i \in DOMAIN texts : o \in texts[i]
  <2>1. o \in Span(hit.range)
    BY DEF Solid
  <2>2. CASE o < start
    <3>1. PICK i \in 1 .. n : o \in frags[i].text
      BY <1>1, <2>1, <2>2
    <3>2. i \in 1 .. (n + 1)
      BY <1>1
    <3> QED
      BY <1>8, <3>1, <3>2
  <2>3. CASE ~(o < start)
    <3>1. o \in start .. (b - 1)
      BY <1>1, <1>3, <2>1, <2>3
    <3>2. n + 1 \in 1 .. (n + 1)
      BY <1>1
    <3> QED
      BY <1>8, <3>1, <3>2
  <2> QED
    BY <2>2, <2>3
<1>14. fs # <<>>
  <2>1. n + 1 \in DOMAIN fs
    BY <1>1, <1>4
  <2> QED
    BY <2>1
<1> QED
  BY <1>9, <1>10, <1>12, <1>13, <1>14 DEF Sound, texts, fs, E

\* A signature has a length.
LEMMA SignatureFacts ==
    ASSUME input \in Inputs, NEW hit, IsSymbol(hit)
    PROVE  SignatureSize(hit) \in Nat
<1> DEFINE n == hit.node
           line == {o \in Span(n) : LineOf(o) = LineOf(n.from)}
           to == Max(line) + 1
           from == n.from
<1>1. n.from \in Nat /\ n.to \in Nat /\ n.from < n.to
  BY RangeFacts
<1>2. Span(n) = n.from .. (n.to - 1)
  BY DEF Span
<1>3. n.from \in line
  BY <1>1, <1>2
<1>4. line \in SUBSET Int /\ line # {} /\ (\A o \in line : o <= n.to) /\ n.to \in Int
  BY <1>1, <1>2, <1>3
<1> HIDE DEF line
<1>5. Max(line) \in line /\ \A o \in line : o <= Max(line)
  BY <1>4, MaxFacts
<1>6. to \in Nat /\ from \in Nat /\ from <= to
  <2> DEFINE m == Max(line)
  <2>1. m \in Int /\ n.from <= m
    BY <1>3, <1>4, <1>5
  <2> HIDE DEF m
  <2>2. m + 1 \in Nat /\ n.from <= m + 1
    BY <1>1, <2>1
  <2> QED
    BY <1>1, <2>2 DEF m
<1>7. SignatureEnd(hit) = Trimmed(Between(from, to)).to
  BY DEF SignatureEnd, line
<1> HIDE DEF to, from
<1> DEFINE r == Trimmed(Between(from, to))
<1>8. r.from \in Nat /\ r.to \in Nat /\ from <= r.from /\ r.from <= r.to
  BY <1>6, TrimmedFacts
<1> HIDE DEF r
<1>9. r.to - from \in Nat
  BY <1>6, <1>8
<1> QED
  BY <1>7, <1>9 DEF SignatureSize, r, from

\* The rest joins the last fragment.
LEMMA RestJoined ==
    ASSUME input \in Inputs, NEW hit, IsSymbol(hit), NEW start, NEW last, NEW frags,
           Cutting(start, last, <<>>, frags, hit),
           BodyOf(hit) \subseteq Span(hit.range),
           frags # <<>>,
           NEW rest, rest = Trimmed(Between(start, hit.range.to)),
           FragmentSize(hit, Last(frags)) + rest.to - rest.from <= Limit,
           NEW fs, fs = [frags EXCEPT ![Len(frags)].text = @ \union Span(rest)]
    PROVE  fs # <<>> /\ Sound(FragmentTexts(fs), hit)
<1> DEFINE texts == FragmentTexts(fs)
           T == SUBSET Span(hit.range)
           n == Len(frags)
           a == hit.range.from
           b == hit.range.to
           E == EndsIn(hit)
           X == [text : SUBSET Nat, prefixed : BOOLEAN]
           R == Span(rest)
<1>1. /\ start \in Nat /\ n \in Nat /\ DOMAIN frags = 1 .. n
      /\ a <= start /\ start <= b
      /\ frags \in Seq(X)
      /\ \A i \in DOMAIN frags : /\ frags[i].text \subseteq a .. (start - 1)
                                 /\ frags[i].text \in T
                                 /\ Uncut(frags[i].text, E, FALSE)
      /\ \A i, j \in DOMAIN frags :
            i < j => \A o \in frags[i].text, p \in frags[j].text : o < p
      /\ \A o \in Span(hit.range) : o < start => \E i \in DOMAIN frags : o \in frags[i].text
  BY CutEnds
<1>2. /\ a \in Nat /\ b \in Nat /\ Span(hit.range) = a .. (b - 1)
  BY RangeFacts
<1>3. n > 0 /\ n \in 1 .. n
  <2> HIDE DEF X
  <2> QED
    BY <1>1
<1>4. /\ rest.from \in Nat /\ rest.to \in Nat /\ start <= rest.from /\ rest.from <= rest.to
      /\ rest.to <= b
      /\ \A o \in Span(Between(start, b)) : ~Blank(o) => o \in R
  <2>1. rest = Trimmed(Between(start, b))
    OBVIOUS
  <2> HIDE DEF b
  <2> QED
    BY <1>1, <1>2, <2>1, TrimmedFacts
<1>5. Span(Between(start, b)) = start .. (b - 1) /\ R = rest.from .. (rest.to - 1)
  BY DEF Span, Between
<1>6. /\ DOMAIN fs = 1 .. n /\ fs[n].text = frags[n].text \union R
      /\ \A i \in 1 .. n : i # n => fs[i].text = frags[i].text
  <2>1. frags \in [1 .. n -> X]
    <3> HIDE DEF X
    <3> QED
      BY <1>1
  <2>2. frags[n] \in X
    BY <1>3, <2>1
  <2>3. DOMAIN frags[n] = {"text", "prefixed"}
    BY <2>2
  <2>4. fs = [frags EXCEPT ![n] = [frags[n] EXCEPT !.text = frags[n].text \union R]]
    OBVIOUS
  <2> HIDE DEF X, R, n
  <2>5. DOMAIN fs = 1 .. n /\ \A i \in 1 .. n : i # n => fs[i] = frags[i]
    BY <1>1, <2>4
  <2>6. fs[n] = [frags[n] EXCEPT !.text = frags[n].text \union R]
    BY <1>1, <1>3, <2>4
  <2> QED
    BY <2>3, <2>5, <2>6
<1>7. Last(frags) = frags[n]
  BY DEF Last
<1>8. texts = [i \in 1 .. n |-> fs[i].text]
  BY <1>6 DEF FragmentTexts
<1> HIDE DEF texts, n, a, b, E, X, R
<1>9. /\ DOMAIN texts = 1 .. n /\ texts[n] = frags[n].text \union R
      /\ \A i \in 1 .. n : i # n => texts[i] = frags[i].text
  BY <1>3, <1>6, <1>8
<1>10. R \in T
  BY <1>1, <1>2, <1>4, <1>5
<1>11. \A o \in R : start <= o /\ o \in Nat
  BY <1>1, <1>4, <1>5
<1>12. texts \in Seq(T) /\ Len(texts) = n
  <2>1. \A i \in 1 .. n : texts[i] \in T
    BY <1>1, <1>9, <1>10
  <2> HIDE DEF T
  <2>2. texts \in [1 .. n -> T]
    BY <1>8, <2>1, <1>9
  <2> QED
    BY <1>1, <1>9, <2>2
<1>13. ASSUME NEW i \in DOMAIN texts, NEW j \in DOMAIN texts, i < j,
              NEW o \in texts[i], NEW p \in texts[j]
       PROVE  o < p
  <2>1. i # n /\ i \in 1 .. n /\ j \in 1 .. n
    BY <1>1, <1>9, <1>13
  <2>2. o \in frags[i].text
    BY <1>9, <1>13, <2>1
  <2>3. CASE p \in frags[j].text
    BY <1>1, <1>13, <2>1, <2>2, <2>3
  <2>4. CASE p \in R
    <3>1. o \in a .. (start - 1)
      BY <1>1, <2>1, <2>2
    <3> QED
      BY <1>1, <1>2, <1>11, <2>4, <3>1
  <2> QED
    BY <1>9, <1>13, <2>1, <2>3, <2>4
<1>14. Uncut(texts[n], E, TRUE)
  <2> DEFINE A == frags[n].text
             k == Cardinality(A)
             m == FragmentSize(hit, frags[n])
  <2>1. A \in SUBSET (a .. (start - 1)) /\ a \in Int /\ start \in Int
    <3>1. n \in DOMAIN frags
      BY <1>1, <1>3
    <3>2. frags[n].text \subseteq a .. (start - 1)
      BY <1>1, <3>1
    <3>3. a \in Int /\ start \in Int
      BY <1>1, <1>2
    <3> QED
      BY <3>2, <3>3
  <2> HIDE DEF A
  <2>2. IsFiniteSet(A) /\ k \in Nat
    BY <2>1, Fits
  <2>3. m = k + (IF frags[n].prefixed THEN SignatureSize(hit) + 1 ELSE 0)
    BY DEF FragmentSize, A
  <2>4. m \in Nat /\ k <= m
    <3>1. SignatureSize(hit) \in Nat
      BY SignatureFacts
    <3> HIDE DEF m, k
    <3> QED
      BY <2>2, <2>3, <3>1
  <2>5. m + rest.to - rest.from <= Limit
    BY <1>7
  <2>6. IsFiniteSet(R) /\ Cardinality(R) = rest.to - rest.from
    <3>1. rest.from \in Int /\ rest.to \in Int
      BY <1>4
    <3>2. R \in SUBSET (rest.from .. (rest.to - 1))
      BY <1>5
    <3>3. IsFiniteSet(R)
      BY <3>1, <3>2, Fits
    <3>4. Cardinality(rest.from .. (rest.to - 1)) = rest.to - rest.from
      BY <1>4, <3>1, Length
    <3> QED
      BY <1>5, <3>3, <3>4
  <2> DEFINE r == Cardinality(R)
             c == Cardinality(A \union R)
             d == Cardinality(A \cap R)
  <2>7. IsFiniteSet(A \union R) /\ IsFiniteSet(A \cap R) /\ c = k + r - d
    BY <2>2, <2>6, FS_Union, FS_Intersection
  <2>8. c \in Nat /\ d \in Nat /\ r \in Nat
    BY <2>2, <2>6, <2>7, FS_CardinalityType
  <2>9. Limit \in Nat
    BY ChunkerAssumption
  <2>10. r = rest.to - rest.from
    BY <2>6
  <2> HIDE DEF r, c, d, k, m
  <2>11. c <= Limit
    BY <1>4, <2>2, <2>4, <2>5, <2>7, <2>8, <2>9, <2>10
  <2>12. Cardinality(texts[n]) \in Nat /\ Cardinality(texts[n]) <= Limit
    BY <1>9, <2>8, <2>11 DEF c, A
  <2> QED
    BY <2>12, ShortText
<1>15. ASSUME NEW i \in DOMAIN texts
       PROVE  Uncut(texts[i], E, i = Len(texts))
  <2>1. CASE i = n
    BY <1>12, <1>14, <2>1
  <2>2. CASE i # n
    <3>1. texts[i] = frags[i].text /\ i \in DOMAIN frags
      BY <1>1, <1>9, <2>2
    <3> QED
      BY <1>1, <3>1, MayBeLast
  <2> QED
    BY <2>1, <2>2
<1>16. ASSUME NEW o \in Solid(BodyOf(hit))
       PROVE  \E i \in DOMAIN texts : o \in texts[i]
  <2>1. o \in Span(hit.range) /\ ~Blank(o)
    BY DEF Solid
  <2>2. CASE o < start
    <3>1. PICK i \in 1 .. n : o \in frags[i].text
      BY <1>1, <2>1, <2>2
    <3>2. o \in texts[i]
      BY <1>9, <3>1
    <3> QED
      BY <1>9, <3>2
  <2>3. CASE ~(o < start)
    <3>1. o \in start .. (b - 1)
      BY <1>1, <1>2, <2>1, <2>3
    <3>2. o \in R
      BY <1>4, <1>5, <2>1, <3>1
    <3> QED
      BY <1>3, <1>9, <3>2
  <2> QED
    BY <2>2, <2>3
<1>17. fs # <<>>
  BY <1>3, <1>6
<1> QED
  BY <1>12, <1>13, <1>15, <1>16, <1>17 DEF Sound, texts, E

\* What EndCut makes of the last fragments is all of the symbol; the split by
\* lines behind it is for nothing.
LEMMA RestStep ==
    ASSUME input \in Inputs, Working, CutInv, cut.ends = <<>>
    PROVE  /\ FragmentTexts(WithRest) # <<>> /\ WithRest # <<>>
           /\ Sound(FragmentTexts(WithRest), Current)
<1> DEFINE hit == Current
           start == cut.start
           last == cut.last
           frags == cut.frags
           whole == Between(start, hit.range.to)
           rest == Trimmed(whole)
<1>1. IsSymbol(hit) /\ BodyOf(hit) \subseteq Span(hit.range)
  BY BodyType DEF CutInv
<1>2. Cutting(start, last, <<>>, frags, hit)
  BY DEF CutInv, CutAt
<1>3. Solid(BodyOf(hit)) # {}
  BY DEF CutInv, Solid
<1>4. /\ WithRest = IF \A o \in Span(whole) : Blank(o) THEN frags
                    ELSE IF frags # <<>>
                            /\ FragmentSize(hit, Last(frags)) + rest.to - rest.from <= Limit
                    THEN [frags EXCEPT ![Len(frags)].text = @ \union Span(rest)]
                    ELSE Append(frags, Fragment(hit, whole.from, whole.to))
  BY DEF WithRest
<1>5. Span(whole) = start .. (hit.range.to - 1) /\ whole.from = start /\ whole.to = hit.range.to
  BY DEF Span, Between
<1>6. rest = Trimmed(Between(start, hit.range.to))
  OBVIOUS
<1> HIDE DEF hit, start, last, frags, whole, rest
<1>7. WithRest # <<>> /\ Sound(FragmentTexts(WithRest), hit)
  <2>1. CASE \A o \in Span(whole) : Blank(o)
    <3>1. WithRest = frags
      BY <1>4, <2>1
    <3>2. frags # <<>> /\ Sound(FragmentTexts(frags), hit)
      BY <1>1, <1>2, <1>3, <1>5, <2>1, RestBlank
    <3> QED
      BY <3>1, <3>2
  <2>2. CASE /\ ~\A o \in Span(whole) : Blank(o)
             /\ frags # <<>>
             /\ FragmentSize(hit, Last(frags)) + rest.to - rest.from <= Limit
    <3> DEFINE fs == [frags EXCEPT ![Len(frags)].text = @ \union Span(rest)]
    <3>1. WithRest = fs
      BY <1>4, <2>2
    <3>2. fs # <<>> /\ Sound(FragmentTexts(fs), hit)
      BY <1>1, <1>2, <1>6, <2>2, RestJoined
    <3> QED
      BY <3>1, <3>2
  <2>3. CASE /\ ~\A o \in Span(whole) : Blank(o)
             /\ ~(/\ frags # <<>>
                  /\ FragmentSize(hit, Last(frags)) + rest.to - rest.from <= Limit)
    <3> DEFINE f == Fragment(hit, start, hit.range.to)
    <3>1. WithRest = Append(frags, f)
      BY <1>4, <1>5, <2>3
    <3>2. f.text = start .. (hit.range.to - 1)
      BY DEF Fragment
    <3> HIDE DEF f
    <3>3. Append(frags, f) # <<>> /\ Sound(FragmentTexts(Append(frags, f)), hit)
      BY <1>1, <1>2, <1>5, <2>3, <3>2, RestAlone
    <3> QED
      BY <3>1, <3>3
  <2> QED
    BY <2>1, <2>2, <2>3
<1>8. FragmentTexts(WithRest) # <<>>
  <2>1. PICK o : o \in Solid(BodyOf(hit))
    BY <1>3
  <2>2. \E i \in DOMAIN FragmentTexts(WithRest) : o \in FragmentTexts(WithRest)[i]
    BY <1>7, <2>1 DEF Sound
  <2> DEFINE texts == FragmentTexts(WithRest)
  <2> HIDE DEF texts
  <2> QED
    BY <2>2
<1> QED
  BY <1>7, <1>8 DEF hit

-----------------------------------------------------------------------------
(***************************************************************************)
(* The steps.                                                              *)
(***************************************************************************)

\* The symbols are those of the file.
LEMMA SymbolsFrame ==
    ASSUME input' = input
    PROVE  Symbols' = Symbols
<1>1. \A o : (LineOf(o))' = LineOf(o)
  BY DEF LineOf, Char, Size
<1>2. \A r : (Trimmed(r))' = Trimmed(r)
  BY DEF Trimmed, Blank, Char
<1>3. \A e : (LineStarts(e))' = LineStarts(e)
  BY DEF LineStarts, Char
<1>4. \A l, e : (LooksLikeComment(l, e))' = LooksLikeComment(l, e)
  BY DEF LooksLikeComment, LineOf, Blank, Char, Size
<1>5. \A n : (AttachedDoc(n))' = AttachedDoc(n)
  BY <1>2, <1>3, <1>4 DEF AttachedDoc
<1>6. \A n : (HitOf(n))' = HitOf(n)
  BY <1>1, <1>5 DEF HitOf
<1> QED
  BY <1>6 DEF Symbols

\* A step that keeps the symbols keeps what is said of the earlier ones.
LEMMA WorkingFrame ==
    ASSUME input' = input, hits' = hits
    PROVE  Working' <=> /\ hits = Symbols
                        /\ at' \in 1 .. (Len(hits) + 1)
                        /\ covered' \subseteq {hits[j].range : j \in DOMAIN hits}
                        /\ CutUpTo(chunks', at')
<1>1. Symbols' = Symbols
  BY SymbolsFrame
<1>2. CutUpTo(chunks, at)' <=> CutUpTo(chunks', at')
  BY CutFrame
<1> QED
  BY <1>1, <1>2 DEF Working

\* A step that keeps the symbols and the place among them keeps what is said
\* of the loops.
LEMMA LoopFrame ==
    ASSUME input' = input, hits' = hits
    PROVE  /\ CutInv' <=> /\ at' \in DOMAIN hits
                          /\ \E o \in BodyOf(hits[at']) : ~Blank(o)
                          /\ CutAt(cut', hits[at'])
           /\ LinesInv' <=> /\ at' \in DOMAIN hits
                            /\ EndsIn(hits[at']) = {}
                            /\ LinesAt(BodyOf(hits[at']), split')
<1>1. CutInv' <=> /\ at' \in DOMAIN hits
                  /\ \E o \in BodyOf(hits[at']) : ~Blank(o)
                  /\ CutAt(cut', hits[at'])
  BY DEF CutInv, CutAt, Cutting, Cover, Uncut, EndsIn, InSome, Current, BodyOf, Blank, Char
<1>2. LinesInv' <=> /\ at' \in DOMAIN hits
                    /\ EndsIn(hits[at']) = {}
                    /\ LinesAt(BodyOf(hits[at']), split')
  BY DEF LinesInv, LinesAt, LinesTo, LineIn, Newlines, EndsIn, Current, BodyOf, Char
<1> QED
  BY <1>1, <1>2

\* A step that changes nothing.
LEMMA StutterFrame ==
    ASSUME ChunkInv, UNCHANGED vars
    PROVE  ChunkInv'
<1>1. /\ input' = input /\ pc' = pc /\ refused' = refused /\ hits' = hits /\ at' = at
      /\ cut' = cut /\ split' = split /\ covered' = covered /\ chunks' = chunks
  BY DEF vars
<1>2. Working' <=> Working
  BY <1>1, WorkingFrame DEF Working
<1>3. (CutInv' <=> CutInv) /\ (LinesInv' <=> LinesInv)
  BY <1>1, LoopFrame DEF CutInv, LinesInv, Current
<1>4. NothingLost' <=> NothingLost
  BY <1>1 DEF NothingLost, Solid, Blank, Char, Size
<1>5. FragmentsFollow' <=> FragmentsFollow
  BY <1>1 DEF FragmentsFollow, Chunked, FragmentsOf, StatementEnds
<1>6. Described' <=> Described
  BY <1>1 DEF Described, Solid, LineOf, Blank, Char, Size
<1>7. Symbols' = Symbols
  BY <1>1, SymbolsFrame
<1> QED
  BY <1>1, <1>2, <1>3, <1>4, <1>5, <1>6, <1>7 DEF ChunkInv, NoSplit

\* The last fragment is the one no other follows.
LEMMA LastOwn ==
    ASSUME NEW X, NEW cs \in Seq(X), NEW hit, NEW i \in Own(cs, hit)
    PROVE  i = Max(Own(cs, hit)) <=> \A j \in Own(cs, hit) : j <= i
<1> DEFINE S == Own(cs, hit)
           n == Len(cs)
<1>1. n \in Int /\ DOMAIN cs = 1 .. n
  OBVIOUS
<1>2. S \in SUBSET Int /\ S # {} /\ \A j \in S : j <= n
  BY <1>1 DEF Own
<1> HIDE DEF S, n
<1>3. Max(S) \in S /\ \A j \in S : j <= Max(S)
  BY <1>1, <1>2, MaxFacts
<1>4. i \in S
  BY DEF S
<1>5. Max(S) \in Int /\ i \in Int
  BY <1>2, <1>3, <1>4
<1>6. (\A j \in S : j <= i) => i = Max(S)
  <2> SUFFICES ASSUME \A j \in S : j <= i PROVE i = Max(S)
    OBVIOUS
  <2>1. Max(S) <= i /\ i <= Max(S)
    BY <1>3, <1>4
  <2> QED
    BY <1>5, <2>1
<1> QED
  BY <1>3, <1>6 DEF S

\* A chunk that is no fragment may stand before all others.
LEMMA FollowShift ==
    ASSUME NEW X, NEW cs \in Seq(X), NEW p \in X, p.fragment = None, NEW hit, Follow(cs, hit)
    PROVE  Follow(<<p>> \o cs, hit)
<1> DEFINE all == <<p>> \o cs
           n == Len(cs)
           Old == Own(cs, hit)
           New == Own(all, hit)
<1>1. /\ n \in Nat /\ DOMAIN cs = 1 .. n /\ DOMAIN all = 1 .. (n + 1) /\ all \in Seq(X)
      /\ all[1] = p /\ \A i \in 1 .. n : all[i + 1] = cs[i]
  OBVIOUS
<1> HIDE DEF all, n
<1>2. \A i \in New : i \in 1 .. (n + 1) /\ i - 1 \in Old /\ all[i] = cs[i - 1]
  <2> SUFFICES ASSUME NEW i \in New
               PROVE  i \in 1 .. (n + 1) /\ i - 1 \in Old /\ all[i] = cs[i - 1]
    OBVIOUS
  <2>1. i \in 1 .. (n + 1) /\ all[i].of = hit /\ all[i].fragment # None
    BY <1>1 DEF Own
  <2>2. i # 1
    BY <1>1, <2>1
  <2>3. i - 1 \in 1 .. n /\ (i - 1) + 1 = i
    BY <1>1, <2>1, <2>2
  <2>4. all[i] = cs[i - 1]
    BY <1>1, <2>3
  <2> QED
    BY <1>1, <2>1, <2>3, <2>4 DEF Own
<1>3. \A i \in Old : i \in 1 .. n /\ i + 1 \in New
  <2> SUFFICES ASSUME NEW i \in Old PROVE i \in 1 .. n /\ i + 1 \in New
    OBVIOUS
  <2>1. i \in 1 .. n /\ cs[i].of = hit /\ cs[i].fragment # None
    BY <1>1 DEF Own
  <2>2. i + 1 \in 1 .. (n + 1) /\ all[i + 1] = cs[i]
    BY <1>1, <2>1
  <2> QED
    BY <1>1, <2>1, <2>2 DEF Own
<1>4. /\ \A i \in Old : i = Max(Old) <=> \A j \in Old : j <= i
      /\ \A i \in New : i = Max(New) <=> \A j \in New : j <= i
  BY <1>1, LastOwn
<1>5. \A i \in Old : /\ \A j \in Old : i < j => \A o \in cs[i].text, q \in cs[j].text : o < q
                     /\ Uncut(cs[i].text, EndsIn(hit), i = Max(Old))
  BY DEF Follow
<1> HIDE DEF Old, New
<1>6. ASSUME NEW i \in New, NEW j \in New, i < j, NEW o \in all[i].text, NEW q \in all[j].text
      PROVE  o < q
  <2>1. i - 1 < j - 1
    BY <1>1, <1>2, <1>6
  <2>2. o \in cs[i - 1].text /\ q \in cs[j - 1].text /\ i - 1 \in Old /\ j - 1 \in Old
    BY <1>2, <1>6
  <2> QED
    BY <1>5, <2>1, <2>2
<1>7. ASSUME NEW i \in New
      PROVE  Uncut(all[i].text, EndsIn(hit), i = Max(New))
  <2> DEFINE k == i - 1
  <2>1. k \in Old /\ all[i] = cs[k]
    BY <1>2
  <2>2. (\A j \in New : j <= i) <=> (\A j \in Old : j <= k)
    <3>1. ASSUME \A j \in New : j <= i, NEW j \in Old PROVE j <= k
      <4>1. j + 1 <= i /\ j \in 1 .. n /\ i \in 1 .. (n + 1)
        BY <1>2, <1>3, <3>1
      <4> QED
        BY <1>1, <4>1
    <3>2. ASSUME \A j \in Old : j <= k, NEW j \in New PROVE j <= i
      <4>1. j - 1 <= i - 1 /\ j \in 1 .. (n + 1) /\ i \in 1 .. (n + 1)
        BY <1>2, <3>2
      <4> QED
        BY <1>1, <4>1
    <3> QED
      BY <3>1, <3>2
  <2>3. (i = Max(New)) = (k = Max(Old))
    <3> HIDE DEF k
    <3> QED
      BY <1>4, <2>1, <2>2
  <2> HIDE DEF k
  <2>4. Uncut(cs[k].text, EndsIn(hit), k = Max(Old))
    BY <1>5, <2>1
  <2> QED
    BY <2>1, <2>3, <2>4
<1> QED
  BY <1>6, <1>7 DEF Follow, New, all

\* The prelude, if there is one.
LEMMA PreludeFacts ==
    ASSUME input \in Inputs, Working, NEW end,
           end = IF covered = {} THEN Size ELSE Min({r.from : r \in covered}),
           NEW text, text = Trimmed(Between(0, end))
    PROVE  /\ end \in Nat /\ end <= Size
           /\ covered # {} => \E j \in DOMAIN hits : end = hits[j].range.from
           /\ covered = {} => end = Size
           /\ text.from \in Nat /\ text.to \in Nat
           /\ text.from <= text.to /\ text.to <= end
           /\ Span(text) = text.from .. (text.to - 1)
           /\ \A o \in 0 .. (end - 1) : ~Blank(o) => o \in Span(text)
<1>1. Size \in Nat
  BY InputFacts
<1>2. hits = Symbols /\ covered \subseteq {hits[j].range : j \in DOMAIN hits}
  BY DEF Working
<1>3. \A j \in DOMAIN hits : /\ hits[j].range.from \in Nat
                             /\ hits[j].range.from < Size
  <2> SUFFICES ASSUME NEW j \in DOMAIN hits
               PROVE  hits[j].range.from \in Nat /\ hits[j].range.from < Size
    OBVIOUS
  <2>1. IsSymbol(hits[j])
    BY <1>2, SymbolFacts
  <2> DEFINE s == hits[j]
  <2> HIDE DEF s
  <2>2. /\ s.range.from \in Nat /\ s.range.to \in Nat
        /\ s.range.from < s.range.to /\ s.range.to <= Size
    BY <2>1, RangeFacts DEF s
  <2> QED
    BY <1>1, <2>2 DEF s
<1>4. /\ end \in Nat /\ end <= Size
      /\ covered # {} => \E j \in DOMAIN hits : end = hits[j].range.from
  <2>1. CASE covered = {}
    BY <1>1, <2>1
  <2>2. CASE covered # {}
    <3> DEFINE F == {r.from : r \in covered}
    <3>1. \A x \in F : \E j \in DOMAIN hits : x = hits[j].range.from
      BY <1>2
    <3>2. F \in SUBSET Int /\ F # {} /\ \A x \in F : 0 <= x
      <4>1. F # {}
        BY <2>2
      <4> HIDE DEF F
      <4>2. \A x \in F : x \in Nat
        BY <1>3, <3>1
      <4> QED
        BY <4>1, <4>2
    <3>3. end = Min(F)
      BY <2>2
    <3> HIDE DEF F
    <3>4. Min(F) \in F
      BY <3>2, MinFacts, 0 \in Int
    <3>5. PICK j \in DOMAIN hits : end = hits[j].range.from
      BY <3>1, <3>3, <3>4
    <3>6. end \in Nat /\ end < Size
      BY <1>3, <3>5
    <3>7. end <= Size
      BY <1>1, <3>6
    <3> QED
      BY <3>5, <3>6, <3>7
  <2> QED
    BY <2>1, <2>2
<1>5. Span(Between(0, end)) = 0 .. (end - 1) /\ Span(text) = text.from .. (text.to - 1)
  BY DEF Span, Between
<1> DEFINE zero == 0
<1>6. zero \in Nat /\ zero <= end /\ text = Trimmed(Between(zero, end))
  BY <1>4
<1> HIDE DEF zero
<1>7. /\ text.from \in Nat /\ text.to \in Nat /\ text.from <= text.to /\ text.to <= end
      /\ \A o \in Span(Between(zero, end)) : ~Blank(o) => o \in Span(text)
  BY <1>4, <1>6, TrimmedFacts
<1> QED
  BY <1>4, <1>5, <1>7 DEF zero

\* The chunk of a prelude and its lines.
PreludeChunk(end, text) ==
    [symbol |-> <<"file_prelude">>, lines |-> <<1, LineOf(Max({end - 1, 0}))>>,
     fragment |-> None, text |-> Span(text), of |-> [range |-> Between(0, end)]]

\* A record that describes its text.
Describes(c) ==
    /\ \A o \in Solid(c.text) : LineOf(o) \in c.lines[1] .. c.lines[2]
    /\ c.lines[2] <= LineOf(Max(c.text \union Span(c.of.range)))

\* A range, some of its characters, and the lines from its start to its end.
LEMMA LinesDescribe ==
    ASSUME input \in Inputs, NEW from \in Nat, NEW to \in Nat, from < to,
           NEW c, c.text \subseteq from .. (to - 1), Span(c.of.range) = from .. (to - 1),
           c.lines[1] <= LineOf(from), c.lines[1] \in Nat, c.lines[2] = LineOf(to - 1)
    PROVE  Describes(c)
<1> DEFINE S == c.text \union Span(c.of.range)
           top == to - 1
<1>1. S = from .. (to - 1)
  OBVIOUS
<1>2. top \in Nat /\ top \in S
  BY <1>1
<1> HIDE DEF S
<1>3. S \in SUBSET Int /\ S # {} /\ \A x \in S : x <= top
  <2>1. from .. (to - 1) \in SUBSET Int /\ \A x \in from .. (to - 1) : x <= to - 1
    OBVIOUS
  <2> QED
    BY <1>1, <1>2, <2>1
<1>4. Max(S) \in S /\ \A x \in S : x <= Max(S)
  <2>1. top \in Int
    BY <1>2
  <2> HIDE DEF top
  <2> QED
    BY <1>3, <2>1, MaxFacts
<1>5. Max(S) = top
  <2>1. Max(S) \in Int /\ top \in Int /\ Max(S) <= top /\ top <= Max(S)
    BY <1>2, <1>3, <1>4
  <2> HIDE DEF top
  <2> QED
    BY <2>1
<1>6. LineOf(top) \in Nat
  BY <1>2, LineFacts
<1>7. c.lines[2] <= LineOf(Max(S))
  <2>1. c.lines[2] = LineOf(top)
    OBVIOUS
  <2> HIDE DEF top
  <2> QED
    BY <1>5, <1>6, <2>1
<1>8. ASSUME NEW o \in Solid(c.text)
      PROVE  LineOf(o) \in c.lines[1] .. c.lines[2]
  <2>1. o \in from .. (to - 1)
    BY DEF Solid
  <2>2. o \in Nat /\ from <= o /\ o <= top
    BY <2>1
  <2>3. /\ LineOf(from) <= LineOf(o) /\ LineOf(o) <= LineOf(top)
        /\ LineOf(from) \in Nat /\ LineOf(o) \in Nat
    BY <1>2, <2>2, LineFacts
  <2>4. c.lines[2] = LineOf(top)
    OBVIOUS
  <2> HIDE DEF top
  <2> QED
    BY <1>6, <2>3, <2>4
<1> QED
  BY <1>7, <1>8 DEF Describes, S

\* The chunks of the symbols.
LEMMA AllDescribed ==
    ASSUME input \in Inputs, Working, NEW i \in DOMAIN chunks
    PROVE  Describes(chunks[i])
<1> DEFINE c == chunks[i]
<1>1. PICK j \in 1 .. (at - 1) : /\ c.of = hits[j] /\ c.lines = hits[j].lines
                                 /\ c.text \subseteq Span(hits[j].range)
  BY DEF Working, CutUpTo
<1>2. hits = Symbols /\ hits \in Seq(Qualified) /\ at \in 1 .. (Len(hits) + 1)
  BY SymbolFacts DEF Working
<1>3. j \in DOMAIN hits
  BY <1>2
<1> DEFINE s == hits[j]
           from == s.range.from
           to == s.range.to
<1>4. IsSymbol(s)
  BY <1>2, <1>3, SymbolFacts
<1> HIDE DEF s, c
<1>5. from \in Nat /\ to \in Nat /\ from < to /\ Span(s.range) = from .. (to - 1)
  BY <1>4, RangeFacts
<1>6. s.lines = <<LineOf(from), LineOf(to - 1)>>
  BY <1>4 DEF IsSymbol
<1>7. c.of = s /\ c.lines = s.lines /\ c.text \subseteq Span(s.range)
  BY <1>1 DEF s
<1> HIDE DEF from, to
<1>8. LineOf(from) \in Nat
  BY <1>5, LineFacts
<1>9. c.lines[1] = LineOf(from) /\ c.lines[2] = LineOf(to - 1)
  BY <1>6, <1>7
<1>10. c.text \subseteq from .. (to - 1) /\ Span(c.of.range) = from .. (to - 1)
  BY <1>5, <1>7
<1>11. c.lines[1] <= LineOf(from) /\ c.lines[1] \in Nat
  BY <1>8, <1>9
<1> QED
  BY <1>5, <1>9, <1>10, <1>11, LinesDescribe DEF c

\* The chunk of the prelude.
LEMMA PreludeDescribed ==
    ASSUME input \in Inputs, NEW end \in Nat, end > 0, NEW text, NEW p,
           Span(text) \subseteq 0 .. (end - 1), p = PreludeChunk(end, text)
    PROVE  Describes(p)
<1> DEFINE from == 0
           to == end
<1>1. /\ p.lines = <<1, LineOf(Max({end - 1, 0}))>> /\ p.text = Span(text)
      /\ p.of.range = Between(0, end)
  BY DEF PreludeChunk
<1>2. Max({end - 1, 0}) = end - 1
  <2> DEFINE S == {end - 1, 0}
             top == end - 1
  <2>1. S \in SUBSET Int /\ S # {} /\ top \in S /\ top \in Int /\ \A x \in S : x <= top
    OBVIOUS
  <2> HIDE DEF S, top
  <2>2. Max(S) \in S /\ \A x \in S : x <= Max(S)
    BY <2>1, MaxFacts
  <2>3. Max(S) \in Int /\ Max(S) <= top /\ top <= Max(S)
    BY <2>1, <2>2
  <2>4. Max(S) = top
    BY <2>1, <2>3
  <2> QED
    BY <2>4 DEF S, top
<1>3. Span(p.of.range) = from .. (to - 1)
  BY <1>1 DEF Span, Between
<1>4. LineOf(from) \in Nat /\ LineOf(from) >= 1
  BY LineFacts
<1>5. p.lines[1] = 1 /\ p.lines[2] = LineOf(to - 1)
  BY <1>1, <1>2
<1>6. from \in Nat /\ to \in Nat /\ from < to /\ p.text \subseteq from .. (to - 1)
  BY <1>1
<1> HIDE DEF from, to
<1>7. p.lines[1] <= LineOf(from) /\ p.lines[1] \in Nat
  BY <1>4, <1>5
<1> QED
  BY <1>3, <1>5, <1>6, <1>7, LinesDescribe

\* The chunks of a file: the prelude, unless it is too short, and the chunks
\* of all symbols.
LEMMA FinishFacts ==
    ASSUME input \in Inputs, Working, at > Len(hits), NEW all, all = Prelude \o chunks
    PROVE  /\ \A h \in DOMAIN hits : Follow(all, hits[h])
           /\ \A i \in DOMAIN all : Describes(all[i])
           /\ \A o : InSome(chunks, o) => InSome(all, o)
           /\ \A h \in DOMAIN hits : \A o \in Solid(BodyOf(hits[h])) : InSome(chunks, o)
<1> DEFINE end == IF covered = {} THEN Size ELSE Min({r.from : r \in covered})
           text == Trimmed(Between(0, end))
           p == PreludeChunk(end, text)
           X == Pieces \union {p}
           n == Len(chunks)
<1>1. /\ end \in Nat /\ text.from \in Nat /\ text.to \in Nat
      /\ text.from <= text.to /\ text.to <= end
      /\ Span(text) = text.from .. (text.to - 1)
  BY PreludeFacts
<1>2. Prelude = IF text.to - text.from >= PreludeMin THEN <<p>> ELSE <<>>
  BY DEF Prelude, PreludeChunk
<1>3. CutUpTo(chunks, at) /\ hits = Symbols /\ at \in 1 .. (Len(hits) + 1)
  BY DEF Working
<1>4. hits \in Seq(Qualified)
  BY <1>3, SymbolFacts
<1>5. 1 .. (at - 1) = DOMAIN hits
  BY <1>3, <1>4
<1>6. /\ \A h \in DOMAIN hits : /\ \A o \in Solid(BodyOf(hits[h])) : InSome(chunks, o)
                                /\ Follow(chunks, hits[h])
      /\ chunks \in Seq(Pieces)
  BY <1>3, <1>5 DEF CutUpTo
<1>7. \A i \in DOMAIN chunks : Describes(chunks[i])
  BY AllDescribed
<1>8. p.fragment = None
  BY DEF PreludeChunk
<1>9. CASE text.to - text.from >= PreludeMin
  <2>1. all = <<p>> \o chunks
    BY <1>2, <1>9
  <2>2. p \in X /\ chunks \in Seq(X)
    <3>1. \A i \in DOMAIN chunks : chunks[i] \in X
      <4> HIDE DEF p
      <4>1. Pieces \subseteq X
        OBVIOUS
      <4> HIDE DEF X
      <4> QED
        BY <1>6, <4>1
    <3> HIDE DEF p
    <3>2. p \in X
      OBVIOUS
    <3> HIDE DEF X
    <3> QED
      BY <1>6, <3>1, <3>2, SeqInto
  <2>3. Describes(p)
    <3>1. PreludeMin \in Nat \ {0}
      BY ChunkerAssumption
    <3> HIDE DEF end, text
    <3>2. end > 0
      BY <1>1, <1>9, <3>1
    <3>3. Span(text) \subseteq 0 .. (end - 1)
      BY <1>1
    <3> QED
      BY <1>1, <3>2, <3>3, PreludeDescribed
  <2> HIDE DEF end, text, p, X
  <2>4. \A h \in DOMAIN hits : Follow(<<p>> \o chunks, hits[h])
    BY <1>6, <1>8, <2>2, FollowShift
  <2>5. /\ n \in Nat /\ DOMAIN chunks = 1 .. n /\ DOMAIN all = 1 .. (n + 1)
        /\ all[1] = p /\ \A i \in 1 .. n : all[i + 1] = chunks[i]
    BY <2>1, <2>2
  <2> HIDE DEF n
  <2>6. ASSUME NEW i \in DOMAIN all
        PROVE  Describes(all[i])
    <3>1. CASE i = 1
      BY <2>3, <2>5, <3>1
    <3>2. CASE i # 1
      <4>1. i - 1 \in 1 .. n /\ (i - 1) + 1 = i
        BY <2>5, <3>2
      <4>2. all[i] = chunks[i - 1] /\ i - 1 \in DOMAIN chunks
        BY <2>5, <4>1
      <4> QED
        BY <1>7, <4>2
    <3> QED
      BY <3>1, <3>2
  <2>7. ASSUME NEW o, InSome(chunks, o)
        PROVE  InSome(all, o)
    <3>1. PICK i \in 1 .. n : o \in chunks[i].text
      BY <2>5, <2>7 DEF InSome
    <3>2. i + 1 \in DOMAIN all /\ all[i + 1] = chunks[i]
      BY <2>5
    <3> QED
      BY <3>1, <3>2 DEF InSome
  <2> QED
    BY <1>6, <2>1, <2>4, <2>6, <2>7
<1>10. CASE ~(text.to - text.from >= PreludeMin)
  <2>1. Prelude = <<>>
    BY <1>2, <1>10
  <2>2. all = chunks
    BY <1>6, <2>1
  <2> QED
    BY <1>6, <1>7, <2>2
<1> QED
  BY <1>9, <1>10

\* What stands above all symbols is in the prelude, if it is long enough.
LEMMA AboveKept ==
    ASSUME input \in Inputs, Working, NEW all, all = Prelude \o chunks,
           NEW low, low = Min({h.range.from : h \in ToSet(hits)} \union {Size}),
           Cardinality(Solid(0 .. (low - 1))) >= PreludeMin,
           NEW o \in Solid(0 .. (low - 1))
    PROVE  InSome(all, o)
<1> DEFINE end == IF covered = {} THEN Size ELSE Min({r.from : r \in covered})
           text == Trimmed(Between(0, end))
           p == PreludeChunk(end, text)
           X == Pieces \union {p}
           S == {h.range.from : h \in ToSet(hits)} \union {Size}
           A == Solid(0 .. (low - 1))
<1>1. /\ end \in Nat /\ text.from \in Nat /\ text.to \in Nat /\ end <= Size
      /\ text.from <= text.to /\ text.to <= end
      /\ covered # {} => \E j \in DOMAIN hits : end = hits[j].range.from
      /\ covered = {} => end = Size
      /\ Span(text) = text.from .. (text.to - 1)
      /\ \A q \in 0 .. (end - 1) : ~Blank(q) => q \in Span(text)
  BY PreludeFacts
<1>2. Prelude = IF text.to - text.from >= PreludeMin THEN <<p>> ELSE <<>>
  BY DEF Prelude, PreludeChunk
<1>3. chunks \in Seq(Pieces) /\ hits = Symbols
  BY DEF Working, CutUpTo
<1>4. \A j \in DOMAIN hits : hits[j].range.from \in Nat
  BY <1>3, SymbolFacts DEF IsSymbol
<1>5. Size \in Nat
  BY InputFacts
<1> HIDE DEF end, text, p
<1>6. end \in S
  <2>1. CASE covered = {}
    BY <1>1, <2>1
  <2>2. CASE covered # {}
    <3>1. PICK j \in DOMAIN hits : end = hits[j].range.from
      BY <1>1, <2>2
    <3>2. hits[j] \in ToSet(hits)
      BY DEF ToSet
    <3> QED
      BY <3>1, <3>2
  <2> QED
    BY <2>1, <2>2
<1>7. S \in SUBSET Int /\ S # {} /\ \A x \in S : 0 <= x
  <2>1. \A h \in ToSet(hits) : h.range.from \in Nat
    BY <1>4 DEF ToSet
  <2>2. \A x \in S : x \in Nat
    BY <1>5, <2>1
  <2> HIDE DEF S
  <2> QED
    BY <1>6, <2>2
<1>8. low = Min(S)
  OBVIOUS
<1> HIDE DEF S
<1>9. low \in S /\ \A x \in S : low <= x
  <2>1. Min(S) \in S /\ \A x \in S : Min(S) <= x
    BY <1>7, MinFacts, 0 \in Int
  <2> QED
    BY <1>8, <2>1
<1>10. low \in Nat /\ low <= end
  BY <1>6, <1>7, <1>9
<1>11. A \subseteq Span(text)
  <2> SUFFICES ASSUME NEW q \in A PROVE q \in Span(text)
    OBVIOUS
  <2>1. q \in 0 .. (low - 1) /\ ~Blank(q)
    BY DEF Solid
  <2>2. q \in 0 .. (end - 1)
    BY <1>1, <1>10, <2>1
  <2> QED
    BY <1>1, <2>1, <2>2
<1>12. Cardinality(A) >= PreludeMin /\ o \in A
  OBVIOUS
<1> HIDE DEF A
<1>13. text.to - text.from >= PreludeMin
  <2> DEFINE f == text.from
             t == text.to
  <2>1. f \in Int /\ t \in Int /\ f <= t /\ A \in SUBSET (f .. (t - 1))
    BY <1>1, <1>11
  <2> HIDE DEF f, t
  <2>2. Cardinality(A) \in Nat /\ Cardinality(A) <= t - f
    BY <2>1, Fits
  <2>3. PreludeMin \in Nat
    BY ChunkerAssumption
  <2>4. t - f >= PreludeMin
    BY <1>12, <2>1, <2>2, <2>3
  <2> QED
    BY <2>4 DEF f, t
<1>14. all = <<p>> \o chunks
  BY <1>2, <1>13
<1>15. p \in X /\ chunks \in Seq(X)
  <2>1. Pieces \subseteq X /\ p \in X
    OBVIOUS
  <2> HIDE DEF X
  <2>2. \A i \in DOMAIN chunks : chunks[i] \in X
    BY <1>3, <2>1
  <2> QED
    BY <1>3, <2>1, <2>2, SeqInto
<1> HIDE DEF X
<1>16. 1 \in DOMAIN all /\ all[1] = p
  BY <1>14, <1>15
<1>17. p.text = Span(text)
  BY DEF p, PreludeChunk
<1> QED
  BY <1>11, <1>12, <1>16, <1>17 DEF InSome

\* A step that does not end the work.
LEMMA Ongoing ==
    ASSUME pc' # "done"
    PROVE  NothingLost' /\ FragmentsFollow'
  BY DEF NothingLost, FragmentsFollow, Chunked

\* At first there is nothing.
LEMMA InitStep == Init => ChunkInv
  BY DEF Init, ChunkInv, NothingLost, FragmentsFollow, Chunked

\* A file that is refused has no chunks.
LEMMA AdmitStep ==
    ASSUME ChunkInv, Admit
    PROVE  ChunkInv'
<1>1. /\ input \in Inputs /\ hits = <<>> /\ at = 1 /\ covered = {} /\ chunks = <<>>
      /\ split = NoSplit
  BY DEF ChunkInv, Admit
<1>2. /\ input' = input /\ hits' = hits /\ at' = at /\ covered' = covered /\ chunks' = chunks
      /\ split' = split /\ pc' = IF refused' = None THEN "parse" ELSE "done"
  BY DEF Admit
<1>3. NothingLost'
  BY <1>2 DEF NothingLost
<1>4. FragmentsFollow'
  BY <1>1, <1>2 DEF FragmentsFollow, Chunked
<1>5. Described'
  BY <1>1, <1>2 DEF Described
<1> QED
  BY <1>1, <1>2, <1>3, <1>4, <1>5 DEF ChunkInv, NoSplit

\* The symbols of a file, before any of them is cut.
LEMMA ParseStep ==
    ASSUME ChunkInv, Parse
    PROVE  ChunkInv'
<1>1. /\ input \in Inputs /\ hits = <<>> /\ at = 1 /\ covered = {} /\ chunks = <<>>
      /\ split = NoSplit
  BY DEF ChunkInv, Parse
<1>2. /\ input' = input /\ at' = at /\ covered' = covered /\ chunks' = chunks
      /\ split' = split
  BY DEF Parse
<1>3. CASE input.parses
  <2>1. pc' = "hit" /\ hits' = Symbols
    BY <1>3 DEF Parse
  <2>2. Symbols' = Symbols
    BY <1>2, SymbolsFrame
  <2>3. Symbols \in Seq(Qualified)
    BY <1>1, SymbolFacts
  <2>4. at' \in 1 .. (Len(hits') + 1)
    <3>1. Len(Symbols) \in Nat
      BY <2>3
    <3> QED
      BY <1>1, <1>2, <2>1, <3>1
  <2>5. CutUpTo(chunks, at)'
    <3>1. chunks' = <<>> /\ at' = 1 /\ 1 .. (at' - 1) = {}
      BY <1>1, <1>2
    <3>2. chunks' \in Seq(Pieces')
      BY <3>1
    <3> QED
      BY <3>1, <3>2 DEF CutUpTo
  <2>6. Working'
    BY <1>1, <1>2, <2>1, <2>2, <2>4, <2>5 DEF Working
  <2>7. NothingLost' /\ FragmentsFollow'
    BY <2>1, Ongoing
  <2> QED
    BY <1>1, <1>2, <2>1, <2>6, <2>7 DEF ChunkInv, NoSplit
<1>4. CASE ~input.parses
  <2>1. pc' = "done" /\ hits' = hits
    BY <1>4 DEF Parse
  <2>2. NothingLost'
    BY <1>2, <1>4 DEF NothingLost
  <2>3. FragmentsFollow'
    BY <1>1, <2>1 DEF FragmentsFollow, Chunked
  <2>4. Described'
    BY <1>1, <1>2 DEF Described
  <2> QED
    BY <1>1, <1>2, <2>1, <2>2, <2>3, <2>4 DEF ChunkInv, NoSplit
<1> QED
  BY <1>3, <1>4

\* The place of a symbol and the next.
LEMMA NextPlace ==
    ASSUME input \in Inputs, Working, at <= Len(hits)
    PROVE  at \in DOMAIN hits /\ at + 1 \in 1 .. (Len(hits) + 1)
<1>1. hits \in Seq(Qualified) /\ at \in 1 .. (Len(hits) + 1)
  BY SymbolFacts DEF Working
<1> QED
  BY <1>1

\* The symbol that is cut covers its range.
LEMMA CoverStep ==
    ASSUME Working, at \in DOMAIN hits
    PROVE  covered \union {Current.range} \subseteq {hits[j].range : j \in DOMAIN hits}
  BY DEF Working, Current

\* A blank symbol is passed over.
LEMMA SkipBlankStep ==
    ASSUME ChunkInv, SkipBlank
    PROVE  ChunkInv'
<1>1. input \in Inputs /\ Working /\ split = NoSplit /\ at <= Len(hits)
  BY DEF ChunkInv, SkipBlank
<1>2. at \in DOMAIN hits /\ at + 1 \in 1 .. (Len(hits) + 1)
  BY <1>1, NextPlace
<1>3. /\ input' = input /\ hits' = hits /\ at' = at + 1 /\ pc' = "hit"
      /\ covered' = covered /\ chunks' = chunks /\ split' = split
  BY DEF SkipBlank
<1>4. CutUpTo(chunks, at + 1)
  BY <1>1, <1>2, BlankStep DEF SkipBlank
<1>5. Working'
  BY <1>1, <1>2, <1>3, <1>4, WorkingFrame DEF Working
<1>6. NothingLost' /\ FragmentsFollow'
  BY <1>3, Ongoing
<1> QED
  BY <1>1, <1>3, <1>5, <1>6 DEF ChunkInv, NoSplit

\* A symbol that fits.
LEMMA TakeWholeStep ==
    ASSUME ChunkInv, TakeWhole
    PROVE  ChunkInv'
<1>1. input \in Inputs /\ Working /\ split = NoSplit /\ at <= Len(hits)
  BY DEF ChunkInv, TakeWhole, HasBody
<1>2. at \in DOMAIN hits /\ at + 1 \in 1 .. (Len(hits) + 1)
  BY <1>1, NextPlace
<1>3. /\ input' = input /\ hits' = hits /\ at' = at + 1 /\ pc' = "hit"
      /\ covered' = covered \union {Current.range} /\ split' = split
      /\ chunks' = Append(chunks, Chunk(Current, None, BodyOf(Current)))
  BY DEF TakeWhole, HasBody
<1>4. CutUpTo(Append(chunks, Chunk(Current, None, BodyOf(Current))), at + 1)
  BY <1>1, <1>2, WholeStep
<1>5. CutUpTo(chunks', at')
  BY <1>3, <1>4
<1>6. covered' \subseteq {hits[j].range : j \in DOMAIN hits}
  BY <1>1, <1>2, <1>3, CoverStep
<1>7. Working'
  BY <1>1, <1>2, <1>3, <1>5, <1>6, WorkingFrame DEF Working
<1>8. NothingLost' /\ FragmentsFollow'
  BY <1>3, Ongoing
<1> QED
  BY <1>1, <1>3, <1>7, <1>8 DEF ChunkInv, NoSplit

\* The loop over the lines starts.
LEMMA SplitLinesStep ==
    ASSUME ChunkInv, SplitLines
    PROVE  ChunkInv'
<1>1. input \in Inputs /\ Working /\ split = NoSplit /\ at <= Len(hits)
  BY DEF ChunkInv, SplitLines, HasBody
<1>2. at \in DOMAIN hits
  BY <1>1, NextPlace
<1>3. /\ input' = input /\ hits' = hits /\ at' = at /\ pc' = "lines"
      /\ covered' = covered \union {Current.range} /\ split' = split /\ chunks' = chunks
  BY DEF SplitLines
<1>4. covered' \subseteq {hits[j].range : j \in DOMAIN hits}
  BY <1>1, <1>2, <1>3, CoverStep
<1>5. Working'
  BY <1>1, <1>3, <1>4, WorkingFrame DEF Working
<1>6. EndsIn(Current) = {}
  BY <1>1, EndsFacts DEF SplitLines
<1>7. LinesAt(BodyOf(Current), NoSplit)
  <2> DEFINE body == BodyOf(Current)
             sp == NoSplit
             size == Size
  <2>1. size \in Nat /\ body \in SUBSET (0 .. (size - 1))
    BY <1>1, <1>2, BodyType
  <2>2. sp.line = 1 /\ sp.out = <<>> /\ sp.buf = {} /\ sp.size = 0
    BY DEF NoSplit
  <2> HIDE DEF body, sp, size
  <2>3. \A o \in body : LineIn(body, o) \in Nat \ {0}
    BY <2>1, LineInFacts
  <2>4. LinesTo(body, 1) = {}
    <3>1. \A o \in body : ~(LineIn(body, o) < 1)
      BY <2>3
    <3> QED
      BY <3>1 DEF LinesTo
  <2>5. sp.out \in Seq(SUBSET LinesTo(body, sp.line))
    BY <2>2
  <2> QED
    BY <2>2, <2>4, <2>5 DEF LinesAt, body, sp
<1>8. LinesInv'
  BY <1>1, <1>2, <1>3, <1>6, <1>7, LoopFrame DEF Current
<1>9. NothingLost' /\ FragmentsFollow'
  BY <1>3, Ongoing
<1> QED
  BY <1>1, <1>3, <1>5, <1>8, <1>9 DEF ChunkInv

\* The loop over the lines goes on.
LEMMA LineStep ==
    ASSUME ChunkInv, TakeLine
    PROVE  ChunkInv'
<1>1. input \in Inputs /\ Working /\ LinesInv
  BY DEF ChunkInv, TakeLine
<1>2. at \in DOMAIN hits
  BY <1>1 DEF LinesInv
<1>3. /\ input' = input /\ hits' = hits /\ at' = at /\ pc' = "lines"
      /\ covered' = covered /\ chunks' = chunks
  BY DEF TakeLine
<1> DEFINE body == BodyOf(Current)
           line == LineAt(body, split.line)
           full == split.size > 0 /\ split.size + Cardinality(line) + 1 > Limit
           kept == IF full \/ split.size = 0 THEN 0 ELSE split.size + 1
           sp == split
           size == Size
<1>4. split' = [line |-> sp.line + 1,
                out  |-> IF full THEN Append(sp.out, sp.buf) ELSE sp.out,
                buf  |-> (IF full THEN {} ELSE sp.buf) \union LineAt(body, sp.line),
                size |-> kept + Cardinality(LineAt(body, sp.line))]
  BY DEF TakeLine
<1>5. size \in Nat /\ body \in SUBSET (0 .. (size - 1))
  BY <1>1, <1>2, BodyType
<1>6. LinesAt(body, sp)
  BY <1>1 DEF LinesInv
<1>7. sp.size \in Nat
  BY <1>6 DEF LinesAt
<1>8. full \in BOOLEAN /\ kept \in Nat /\ (kept = 0 => full \/ sp.size = 0)
  BY <1>7
<1> DEFINE new == split'
<1> HIDE DEF body, full, kept, sp, size, new
<1>9. new = [line |-> sp.line + 1,
             out  |-> IF full THEN Append(sp.out, sp.buf) ELSE sp.out,
             buf  |-> (IF full THEN {} ELSE sp.buf) \union LineAt(body, sp.line),
             size |-> kept + Cardinality(LineAt(body, sp.line))]
  BY <1>4 DEF new
<1>10. LinesAt(body, new)
  BY <1>5, <1>6, <1>8, <1>9, TakeLineStep
<1>11. LinesInv'
  <2>1. EndsIn(hits[at']) = {} /\ at' \in DOMAIN hits
    BY <1>1, <1>3 DEF LinesInv, Current
  <2>2. LinesAt(BodyOf(hits[at']), split')
    BY <1>3, <1>10 DEF body, new, Current
  <2> QED
    BY <1>3, <2>1, <2>2, LoopFrame
<1>12. Working'
  BY <1>1, <1>3, WorkingFrame DEF Working
<1>13. NothingLost' /\ FragmentsFollow'
  BY <1>3, Ongoing
<1> QED
  BY <1>1, <1>3, <1>11, <1>12, <1>13 DEF ChunkInv

\* The loop over the lines ends.
LEMMA EndLinesStep ==
    ASSUME ChunkInv, EndLines
    PROVE  ChunkInv'
<1>1. input \in Inputs /\ Working /\ LinesInv
  BY DEF ChunkInv, EndLines
<1> DEFINE out == IF split.size > 0 THEN Append(split.out, split.buf) ELSE split.out
           texts == IF out = <<>> THEN <<BodyOf(Current)>> ELSE out
<1>2. /\ input' = input /\ hits' = hits /\ at' = at + 1 /\ pc' = "hit"
      /\ covered' = covered /\ split' = NoSplit /\ chunks' = Emit(Current, texts)
      /\ split.line > LineCount(BodyOf(Current))
  BY DEF EndLines
<1>3. texts # <<>> /\ Sound(texts, Current)
  BY <1>1, <1>2, LinesDone
<1> HIDE DEF texts
<1>4. at \in DOMAIN hits /\ hits \in Seq(Qualified)
  BY <1>1, SymbolFacts DEF LinesInv, Working
<1>5. at + 1 \in 1 .. (Len(hits) + 1)
  BY <1>4
<1>6. CutUpTo(Emit(Current, texts), at + 1)
  BY <1>1, <1>3, <1>4, EmitStep
<1>7. Working'
  BY <1>1, <1>2, <1>5, <1>6, WorkingFrame DEF Working
<1>8. NothingLost' /\ FragmentsFollow'
  BY <1>2, Ongoing
<1> QED
  BY <1>1, <1>2, <1>7, <1>8 DEF ChunkInv, NoSplit

\* The loop over the statements starts.
LEMMA StartCutStep ==
    ASSUME ChunkInv, StartCut
    PROVE  ChunkInv'
<1>1. input \in Inputs /\ Working /\ split = NoSplit /\ at <= Len(hits)
  BY DEF ChunkInv, StartCut, HasBody
<1>2. at \in DOMAIN hits
  BY <1>1, NextPlace
<1>3. /\ input' = input /\ hits' = hits /\ at' = at /\ pc' = "cut"
      /\ covered' = covered \union {Current.range} /\ split' = split /\ chunks' = chunks
      /\ cut' = [start |-> Current.range.from, last |-> Current.range.from,
                 ends |-> StatementEnds(Current), frags |-> <<>>]
  BY DEF StartCut
<1>4. covered' \subseteq {hits[j].range : j \in DOMAIN hits}
  BY <1>1, <1>2, <1>3, CoverStep
<1>5. Working'
  BY <1>1, <1>3, <1>4, WorkingFrame DEF Working
<1>6. IsSymbol(Current)
  BY <1>1, <1>2, BodyType
<1>7. CutAt(cut', Current)
  <2> DEFINE hit == Current
             c == cut'
  <2>1. c = [start |-> hit.range.from, last |-> hit.range.from,
             ends |-> StatementEnds(hit), frags |-> <<>>]
    BY <1>3
  <2>2. IsSymbol(hit)
    BY <1>6
  <2> HIDE DEF hit, c
  <2>3. CutAt(c, hit)
    BY <1>1, <2>1, <2>2, CutBegins
  <2> QED
    BY <2>3 DEF hit, c
<1>8. \E o \in BodyOf(Current) : ~Blank(o)
  BY DEF StartCut, HasBody
<1>9. CutInv'
  BY <1>2, <1>3, <1>7, <1>8, LoopFrame DEF Current
<1>10. NothingLost' /\ FragmentsFollow'
  BY <1>3, Ongoing
<1> QED
  BY <1>1, <1>3, <1>5, <1>9, <1>10 DEF ChunkInv, NoSplit

\* The loop over the statements goes on.
LEMMA CutAtStatementStep ==
    ASSUME ChunkInv, CutAtStatement
    PROVE  ChunkInv'
<1>1. input \in Inputs /\ Working /\ CutInv /\ split = NoSplit
  BY DEF ChunkInv, CutAtStatement
<1>2. at \in DOMAIN hits /\ IsSymbol(Current)
  BY <1>1, BodyType DEF CutInv
<1> DEFINE hit == Current
           start == cut.start
           last == cut.last
           ends == cut.ends
           frags == cut.frags
           end == Head(ends)
           first == IF end - start > Limit /\ last > start
                    THEN <<Fragment(hit, start, last)>> ELSE <<>>
           from == IF first = <<>> THEN start ELSE last
           fs == frags \o first \o <<Fragment(hit, from, end)>>
<1>3. /\ input' = input /\ hits' = hits /\ at' = at /\ pc' = "cut"
      /\ covered' = covered /\ split' = split /\ chunks' = chunks
      /\ ends # <<>>
      /\ cut' = IF end - start >= Limit \div 2
                THEN [start |-> end, last |-> end, ends |-> Tail(ends), frags |-> fs]
                ELSE [cut EXCEPT !.last = end, !.ends = Tail(ends)]
  BY DEF CutAtStatement
<1>4. /\ DOMAIN cut = {"start", "last", "ends", "frags"}
      /\ Cutting(start, last, ends, frags, hit)
  BY <1>1 DEF CutInv, CutAt
<1>5. IsSymbol(hit)
  BY <1>2
<1>6. Cutting(end, end, Tail(ends), fs, hit)
  <2>1. /\ end = Head(ends)
        /\ first = IF end - start > Limit /\ last > start
                   THEN <<Fragment(hit, start, last)>> ELSE <<>>
        /\ from = IF first = <<>> THEN start ELSE last
    OBVIOUS
  <2> HIDE DEF hit, start, last, ends, frags, end, first, from
  <2> QED
    BY <1>1, <1>3, <1>4, <1>5, <2>1, FarStep
<1>7. end - start < Limit \div 2 => Cutting(start, end, Tail(ends), frags, hit)
  <2>1. end = Head(ends)
    OBVIOUS
  <2> HIDE DEF hit, start, last, ends, frags, end, first, from, fs
  <2> QED
    BY <1>1, <1>3, <1>4, <1>5, <2>1, NearStep
<1>8. start \in Nat /\ end \in Nat
  <2>1. start \in Nat
    BY <1>4 DEF Cutting
  <2>2. end \in Nat
    <3> HIDE DEF end, fs, hit
    <3> QED
      BY <1>6 DEF Cutting
  <2> QED
    BY <2>1, <2>2
<1>9. Limit \div 2 \in Nat
  BY HalfLimit
<1> HIDE DEF hit, start, last, ends, frags, end, first, from, fs
<1>10. CutAt(cut', hit)
  <2>1. CASE end - start >= Limit \div 2
    <3>1. cut' = [start |-> end, last |-> end, ends |-> Tail(ends), frags |-> fs]
      BY <1>3, <2>1
    <3>2. /\ DOMAIN cut' = {"start", "last", "ends", "frags"}
          /\ cut'.start = end /\ cut'.last = end /\ cut'.ends = Tail(ends) /\ cut'.frags = fs
      BY <3>1
    <3> QED
      BY <1>6, <3>2 DEF CutAt
  <2>2. CASE ~(end - start >= Limit \div 2)
    <3>1. cut' = [cut EXCEPT !.last = end, !.ends = Tail(ends)]
      BY <1>3, <2>2
    <3>2. /\ DOMAIN cut' = {"start", "last", "ends", "frags"}
          /\ cut'.start = start /\ cut'.last = end /\ cut'.ends = Tail(ends)
          /\ cut'.frags = frags
      BY <1>4, <3>1 DEF start, frags
    <3>3. end - start < Limit \div 2
      BY <1>8, <1>9, <2>2
    <3> QED
      BY <1>7, <3>2, <3>3 DEF CutAt
  <2> QED
    BY <2>1, <2>2
<1>11. \E o \in BodyOf(Current) : ~Blank(o)
  BY <1>1 DEF CutInv
<1>12. CutInv'
  BY <1>2, <1>3, <1>10, <1>11, LoopFrame DEF Current, hit
<1>13. Working'
  BY <1>1, <1>3, WorkingFrame DEF Working
<1>14. NothingLost' /\ FragmentsFollow'
  BY <1>3, Ongoing
<1> QED
  BY <1>1, <1>3, <1>12, <1>13, <1>14 DEF ChunkInv, NoSplit

\* The loop over the statements ends.
LEMMA EndCutStep ==
    ASSUME ChunkInv, EndCut
    PROVE  ChunkInv'
<1>1. input \in Inputs /\ Working /\ CutInv /\ split = NoSplit /\ cut.ends = <<>>
  BY DEF ChunkInv, EndCut
<1> DEFINE texts == FragmentTexts(WithRest)
<1>2. texts # <<>> /\ WithRest # <<>> /\ Sound(texts, Current)
  BY <1>1, RestStep
<1>3. /\ input' = input /\ hits' = hits /\ at' = at + 1 /\ pc' = "hit"
      /\ covered' = covered /\ split' = split /\ chunks' = Emit(Current, texts)
  BY <1>2 DEF EndCut
<1> HIDE DEF texts
<1>4. at \in DOMAIN hits /\ hits \in Seq(Qualified)
  BY <1>1, SymbolFacts DEF CutInv, Working
<1>5. at + 1 \in 1 .. (Len(hits) + 1)
  BY <1>4
<1>6. CutUpTo(Emit(Current, texts), at + 1)
  BY <1>1, <1>2, <1>4, EmitStep
<1>7. Working'
  BY <1>1, <1>3, <1>5, <1>6, WorkingFrame DEF Working
<1>8. NothingLost' /\ FragmentsFollow'
  BY <1>3, Ongoing
<1> QED
  BY <1>1, <1>3, <1>7, <1>8 DEF ChunkInv, NoSplit

\* All symbols have their chunks, and the prelude goes before them.
LEMMA FinishStep ==
    ASSUME ChunkInv, Finish
    PROVE  ChunkInv'
<1>1. input \in Inputs /\ Working /\ split = NoSplit /\ at > Len(hits) /\ hits = Symbols
  BY DEF ChunkInv, Finish, Working
<1> DEFINE all == Prelude \o chunks
           kept == UNION {all[i].text : i \in DOMAIN all}
           low == Min({h.range.from : h \in ToSet(hits)} \union {Size})
           above == Solid(0 .. (low - 1))
<1>2. /\ input' = input /\ hits' = hits /\ at' = at /\ pc' = "done" /\ refused' = refused
      /\ covered' = covered /\ split' = split /\ chunks' = all
  BY DEF Finish
<1>3. /\ \A h \in DOMAIN hits : Follow(all, hits[h])
      /\ \A i \in DOMAIN all : Describes(all[i])
      /\ \A o : InSome(chunks, o) => InSome(all, o)
      /\ \A h \in DOMAIN hits : \A o \in Solid(BodyOf(hits[h])) : InSome(chunks, o)
  BY <1>1, FinishFacts
<1>4. \A o : InSome(all, o) => o \in kept
  BY DEF InSome
<1>5. Cardinality(above) >= PreludeMin => above \subseteq kept
  <2> SUFFICES ASSUME Cardinality(above) >= PreludeMin, NEW o \in above PROVE o \in kept
    OBVIOUS
  <2>1. InSome(all, o)
    <3>1. Working /\ input \in Inputs
      BY <1>1
    <3>2. all = Prelude \o chunks /\ low = Min({h.range.from : h \in ToSet(hits)} \union {Size})
      OBVIOUS
    <3>3. Cardinality(Solid(0 .. (low - 1))) >= PreludeMin /\ o \in Solid(0 .. (low - 1))
      OBVIOUS
    <3> HIDE DEF all, low, above, kept
    <3> QED
      BY <3>1, <3>2, <3>3, AboveKept
  <2> QED
    BY <1>4, <2>1
<1> HIDE DEF all
<1>6. \A i \in DOMAIN hits : Solid(Span(hits[i].range)) \subseteq kept
  <2>1. \A i \in DOMAIN hits : Solid(BodyOf(hits[i])) \subseteq kept
    BY <1>3, <1>4
  <2> HIDE DEF kept
  <2> QED
    BY <1>1, <2>1, BodiesHoldSymbols
<1>7. NothingLost'
  <2>1. /\ \A i \in DOMAIN hits' : Solid(Span(hits[i].range))' \subseteq kept
        /\ Cardinality(above) >= PreludeMin => above \subseteq kept
    BY <1>2, <1>5, <1>6 DEF Solid, Blank, Char
  <2>2. kept = UNION {chunks'[i].text : i \in DOMAIN chunks'}
    BY <1>2
  <2>3. above = Solid(0 .. (Min({h.range.from : h \in ToSet(hits)} \union {Size}) - 1))'
    BY <1>2 DEF Solid, Blank, Char, Size
  <2> HIDE DEF kept, above
  <2> QED
    BY <2>1, <2>2, <2>3 DEF NothingLost
<1>8. FragmentsFollow'
  <2>1. \A h \in DOMAIN hits' : Follow(chunks', hits'[h])
    BY <1>2, <1>3
  <2>3. \A h \in DOMAIN hits' : ToSet(StatementEnds(hits'[h])) = EndsIn(hits'[h])
    BY <1>1, EndsFacts
  <2>4. FragmentsFollow' <=>
            (Chunked' => \A h \in DOMAIN hits' :
                LET own  == Own(chunks', hits'[h])
                    ends == ToSet(StatementEnds(hits'[h]))
                IN  \A i \in own :
                    LET text  == chunks'[i].text
                        inner == {e \in ends : Min(text) < e /\ e <= Max(text)}
                    IN  /\ \A j \in own : i < j =>
                              \A o \in text, p \in chunks'[j].text : o < p
                        /\ ends # {} /\ Cardinality(text) > Limit =>
                              IF i = Max(own)
                              THEN \A e \in inner : e - Min(text) < Limit \div 2
                              ELSE inner = {})
    BY <1>2 DEF FragmentsFollow, FragmentsOf, Own, StatementEnds
  <2> QED
    BY <2>1, <2>3, <2>4 DEF Follow, Uncut
<1>9. Described'
  BY <1>2, <1>3 DEF Described, Describes, Solid, LineOf, Blank, Char, Size
<1>10. Symbols' = Symbols
  BY <1>2, SymbolsFrame
<1> QED
  BY <1>1, <1>2, <1>7, <1>8, <1>9, <1>10 DEF ChunkInv, NoSplit

\* Every step of the chunker keeps the invariant.
LEMMA NextStep == ChunkInv /\ [Next]_vars => ChunkInv'
<1> SUFFICES ASSUME ChunkInv, [Next]_vars PROVE ChunkInv'
  OBVIOUS
<1>1. CASE Admit
  BY <1>1, AdmitStep
<1>2. CASE Parse
  BY <1>2, ParseStep
<1>3. CASE SkipBlank
  BY <1>3, SkipBlankStep
<1>4. CASE TakeWhole
  BY <1>4, TakeWholeStep
<1>5. CASE SplitLines
  BY <1>5, SplitLinesStep
<1>6. CASE TakeLine
  BY <1>6, LineStep
<1>7. CASE EndLines
  BY <1>7, EndLinesStep
<1>8. CASE StartCut
  BY <1>8, StartCutStep
<1>9. CASE CutAtStatement
  BY <1>9, CutAtStatementStep
<1>10. CASE EndCut
  BY <1>10, EndCutStep
<1>11. CASE Finish
  BY <1>11, FinishStep
<1>12. CASE Stop
  BY <1>12, StutterFrame DEF Stop
<1>13. CASE UNCHANGED vars
  BY <1>13, StutterFrame
<1> QED
  BY <1>1, <1>2, <1>3, <1>4, <1>5, <1>6, <1>7, <1>8, <1>9, <1>10, <1>11, <1>12, <1>13
     DEF Next

\* In every state the symbols before the current one have all their text in
\* the chunks, and the loops of split_if_oversize and hard_split keep what
\* they have cut so far, in order.
THEOREM ChunkInvariance == Spec => []ChunkInv
<1>1. Init => ChunkInv
  BY InitStep
<1>2. ChunkInv /\ [Next]_vars => ChunkInv'
  BY NextStep
<1> QED
  BY <1>1, <1>2, PTL DEF Spec

\* chunk_file loses nothing of a named construct, whatever file it is given.
THEOREM NothingIsLost == Spec => []NothingLost
<1>1. ChunkInv => NothingLost
  BY DEF ChunkInv
<1> QED
  BY <1>1, ChunkInvariance, PTL

\* The fragments of a symbol follow each other and are cut wherever
\* split_if_oversize could cut them, whatever file it is given.
THEOREM FragmentsAlwaysFollow == Spec => []FragmentsFollow
<1>1. ChunkInv => FragmentsFollow
  BY DEF ChunkInv
<1> QED
  BY <1>1, ChunkInvariance, PTL

-----------------------------------------------------------------------------
(***************************************************************************)
(* Names.  Ranges with their documentation are nested as the nodes are, if *)
(* no symbol starts on a line that looks like a comment.                   *)
(***************************************************************************)

\* A line has a start.
LEMMA LineHasStart ==
    ASSUME input \in Inputs, NEW e \in Nat, e <= Size, NEW f \in 0 .. (e - 1)
    PROVE  \E k \in LineStarts(e) : /\ k <= f /\ LineOf(k) = LineOf(f)
                                    /\ \A j \in LineStarts(e) : j <= f => j <= k
<1> DEFINE S == {j \in LineStarts(e) : j <= f}
<1>1. LineStarts(e) = {o \in 0 .. (e - 1) : o = 0 \/ Char(o - 1) = "n"}
  BY DEF LineStarts
<1>2. S \in SUBSET Int /\ (\A j \in S : j <= f) /\ f \in Int
  BY <1>1
<1>3. 0 \in S
  BY <1>1
<1>4. Size \in Nat
  BY InputFacts
<1> HIDE DEF S
<1>5. Max(S) \in S /\ \A j \in S : j <= Max(S)
  BY <1>2, <1>3, MaxFacts
<1> DEFINE k == Max(S)
<1> HIDE DEF k
<1>6. k \in LineStarts(e) /\ k <= f /\ k \in 0 .. (e - 1)
  BY <1>1, <1>5 DEF S, k
<1>7. \A j \in LineStarts(e) : j <= f => j <= k
  BY <1>5 DEF S, k
<1>8. ASSUME NEW p \in 0 .. (Size - 1), k <= p, p < f, Char(p) = "n"
      PROVE  FALSE
  <2> DEFINE q == p + 1
  <2>1. q \in 0 .. (e - 1) /\ q <= f /\ q - 1 = p /\ ~(q <= k)
    BY <1>6, <1>8
  <2> HIDE DEF q
  <2>2. Char(q - 1) = "n"
    BY <1>8, <2>1
  <2>3. q \in LineStarts(e)
    BY <1>1, <2>1, <2>2
  <2> QED
    BY <1>7, <2>1, <2>3
<1>9. {p \in 0 .. (Size - 1) : p < k /\ Char(p) = "n"}
      = {p \in 0 .. (Size - 1) : p < f /\ Char(p) = "n"}
  <2>1. \A p \in 0 .. (Size - 1) : p < k => p < f
    BY <1>4, <1>6
  <2>2. \A p \in 0 .. (Size - 1) : p < f /\ Char(p) = "n" => p < k
    <3> SUFFICES ASSUME NEW p \in 0 .. (Size - 1), p < f, Char(p) = "n", ~(p < k)
                 PROVE  FALSE
      OBVIOUS
    <3>1. k <= p
      BY <1>4, <1>6
    <3> QED
      BY <1>8, <3>1
  <2> QED
    BY <2>1, <2>2
<1>10. LineOf(k) = LineOf(f)
  BY <1>9 DEF LineOf
<1> QED
  BY <1>6, <1>7, <1>10

\* What looks like a comment still does when more of the text is seen.
LEMMA CommentStays ==
    ASSUME NEW k \in Nat, NEW e \in Nat, NEW s \in Nat, e <= s, LooksLikeComment(k, e)
    PROVE  LooksLikeComment(k, s)
<1> DEFINE A == {o \in k .. (e - 1) : ~Blank(o) /\ LineOf(o) = LineOf(k)}
           B == {o \in k .. (s - 1) : ~Blank(o) /\ LineOf(o) = LineOf(k)}
<1>1. A # {} /\ Char(Min(A)) = "c"
  BY DEF LooksLikeComment
<1>2. A \subseteq B
  OBVIOUS
<1>3. \A o \in B : o < e => o \in A
  OBVIOUS
<1>4. A \in SUBSET Int /\ (\A o \in A : k <= o /\ o < e) /\ B \in SUBSET Int /\ \A o \in B : k <= o
  OBVIOUS
<1>5. LooksLikeComment(k, s) <=> B # {} /\ Char(Min(B)) = "c"
  BY DEF LooksLikeComment
<1> HIDE DEF A, B
<1>6. Min(A) \in A /\ \A o \in A : Min(A) <= o
  BY <1>1, <1>4, MinFacts
<1>7. B # {}
  BY <1>1, <1>2
<1>8. Min(B) \in B /\ \A o \in B : Min(B) <= o
  BY <1>4, <1>7, MinFacts
<1>9. Min(B) <= Min(A) /\ Min(A) \in Int /\ Min(B) \in Int /\ Min(A) < e
  BY <1>2, <1>4, <1>6, <1>8
<1>10. Min(B) < e
  BY <1>9
<1>11. Min(A) <= Min(B)
  BY <1>3, <1>6, <1>8, <1>10
<1>12. Min(A) = Min(B)
  BY <1>9, <1>11
<1> QED
  BY <1>1, <1>5, <1>7, <1>12

\* The documentation of a symbol starts behind every symbol that starts
\* before it.
LEMMA DocBehind ==
    ASSUME input \in Inputs, CommentsApart, NEW a \in input.nodes, NEW b \in input.nodes,
           a.from < b.from
    PROVE  a.from < HitOf(b).range.from
<1> DEFINE before == Trimmed(Between(0, b.from))
           end == IF before.from = before.to THEN 0 ELSE before.to
           block == {l \in LineStarts(end) :
                        \A m \in LineStarts(end) : m >= l => LooksLikeComment(m, end)}
           doc == AttachedDoc(b)
<1>1. /\ a.from \in Nat /\ b.from \in Nat /\ Size \in Nat /\ b.from < Size /\ ~Blank(a.from)
      /\ (b.comment # None => a.from < b.comment)
  BY InputFacts
<1>2. doc = IF block # {} THEN Min(block) ELSE b.comment
  BY DEF AttachedDoc
<1>3. HitOf(b).range.from = IF doc = None THEN b.from ELSE doc
  BY DEF HitOf, Between
<1>4. /\ before.from \in Nat /\ before.to \in Nat /\ before.from <= before.to /\ before.to <= b.from
      /\ \A o \in Span(Between(0, b.from)) : ~Blank(o) => o \in Span(before)
  <2> DEFINE zero == 0
             to == b.from
  <2>1. zero \in Nat /\ to \in Nat /\ zero <= to /\ before = Trimmed(Between(zero, to))
    BY <1>1
  <2> HIDE DEF zero, to, before
  <2>2. /\ before.from \in Nat /\ before.to \in Nat /\ before.from <= before.to /\ before.to <= to
        /\ \A o \in Span(Between(zero, to)) : ~Blank(o) => o \in Span(before)
    BY <2>1, TrimmedFacts
  <2> QED
    BY <2>2 DEF zero, to
<1>5. a.from \in Span(before)
  <2>1. Span(Between(0, b.from)) = 0 .. (b.from - 1)
    BY DEF Span, Between
  <2>2. a.from \in 0 .. (b.from - 1)
    BY <1>1
  <2> QED
    BY <1>1, <1>4, <2>1, <2>2
<1>6. end = before.to /\ end \in Nat /\ end <= Size /\ a.from \in 0 .. (end - 1)
  <2>1. Span(before) = before.from .. (before.to - 1)
    BY DEF Span
  <2> HIDE DEF before
  <2>2. before.from # before.to /\ a.from \in 0 .. (before.to - 1)
    BY <1>1, <1>4, <1>5, <2>1
  <2> QED
    BY <1>1, <1>4, <2>2
<1> HIDE DEF doc, end, before
<1>7. CASE block = {}
  BY <1>1, <1>2, <1>3, <1>7
<1>8. CASE block # {}
  <2>1. block \in SUBSET LineStarts(end)
    OBVIOUS
  <2>2. LineStarts(end) \in SUBSET (0 .. (end - 1))
    BY DEF LineStarts
  <2>3. block \in SUBSET Int /\ \A l \in block : 0 <= l
    <3> HIDE DEF block
    <3> QED
      BY <1>6, <2>1, <2>2
  <2> DEFINE l == Min(block)
  <2>4. l \in block
    <3> HIDE DEF block
    <3> QED
      BY <1>8, <2>3, MinFacts, 0 \in Int
  <2>5. l \in Nat /\ l \in LineStarts(end)
    BY <2>3, <2>4
  <2>6. \A m \in LineStarts(end) : m >= l => LooksLikeComment(m, end)
    BY <2>4
  <2> HIDE DEF l
  <2>7. ASSUME ~(a.from < l)
        PROVE  FALSE
    <3> DEFINE f == a.from
    <3>1. f \in 0 .. (end - 1)
      BY <1>6
    <3> HIDE DEF f
    <3>2. PICK k \in LineStarts(end) : /\ k <= f /\ LineOf(k) = LineOf(f)
                                       /\ \A j \in LineStarts(end) : j <= f => j <= k
      BY <1>6, <3>1, LineHasStart
    <3>3. k \in Nat /\ k \in 0 .. (end - 1)
      BY <1>6, <2>2
    <3>4. l <= f
      BY <1>1, <2>5, <2>7 DEF f
    <3>5. k >= l
      BY <2>5, <3>2, <3>3, <3>4
    <3>6. LooksLikeComment(k, end)
      BY <2>6, <3>5
    <3>7. LooksLikeComment(k, Size)
      BY <1>1, <1>6, <3>3, <3>6, CommentStays
    <3>8. k \in LineStarts(Size)
      <4>1. k \in 0 .. (Size - 1)
        BY <1>1, <1>6, <3>3
      <4> QED
        BY <4>1 DEF LineStarts
    <3> QED
      BY <3>2, <3>7, <3>8 DEF CommentsApart, f
  <2>8. doc = l /\ l # None
    <3>1. None \notin Nat
      BY ChunkerAssumption
    <3> QED
      BY <1>2, <1>8, <2>5, <3>1 DEF l
  <2> QED
    BY <1>3, <2>7, <2>8
<1> QED
  BY <1>7, <1>8

\* The documentation of a symbol starts no earlier than that of a symbol
\* around it.
LEMMA DocNested ==
    ASSUME input \in Inputs, CommentsApart, NEW a \in input.nodes, NEW b \in input.nodes,
           a # b, a.from <= b.from, b.to <= a.to
    PROVE  /\ HitOf(a).range.from <= HitOf(b).range.from
           /\ a.from < b.from => HitOf(a).range.from < HitOf(b).range.from
<1> DEFINE da == HitOf(a).range.from
           db == HitOf(b).range.from
<1>1. /\ a.from \in Nat /\ b.from \in Nat /\ a.to \in Nat /\ b.to \in Nat
      /\ (a.from # b.from \/ a.to # b.to)
      /\ (a.from = b.from /\ b.to < a.to => b.comment = None)
  BY InputFacts
<1>2. da \in Nat /\ da <= a.from /\ db \in Nat /\ db <= b.from
  BY HitFacts
<1>3. CASE a.from < b.from
  <2>1. a.from < db
    BY <1>3, DocBehind
  <2> HIDE DEF da, db
  <2>2. da < db
    BY <1>1, <1>2, <2>1
  <2> QED
    BY <1>2, <2>2 DEF da, db
<1>4. CASE a.from = b.from
  <2>1. b.comment = None
    BY <1>1, <1>4
  <2>2. AttachedDoc(b) = AttachedDoc(a) \/ AttachedDoc(b) = None
    BY <1>4, <2>1 DEF AttachedDoc
  <2>3. db = da \/ db = b.from
    BY <1>4, <2>2 DEF HitOf, Between
  <2> HIDE DEF da, db
  <2>4. da <= db /\ ~(a.from < b.from)
    BY <1>1, <1>2, <1>4, <2>3
  <2> QED
    BY <2>4 DEF da, db
<1> QED
  BY <1>1, <1>3, <1>4

\* range_contains on the ranges with documentation is containment of nodes.
LEMMA EnclosesIs ==
    ASSUME input \in Inputs, CommentsApart, NEW m \in input.nodes, NEW n \in input.nodes, m # n
    PROVE  Encloses(HitOf(m).range, HitOf(n).range) <=> m.from <= n.from /\ n.to <= m.to
<1> DEFINE dm == HitOf(m).range.from
           dn == HitOf(n).range.from
           rm == HitOf(m).range
           rn == HitOf(n).range
<1>1. /\ m.from \in Nat /\ n.from \in Nat /\ m.to \in Nat /\ n.to \in Nat
      /\ (m.from # n.from \/ m.to # n.to)
      /\ m.from < m.to /\ n.from < n.to
  BY InputFacts
<1>2. /\ dm \in Nat /\ dm <= m.from /\ dn \in Nat /\ dn <= n.from
      /\ rm.to = m.to /\ rn.to = n.to
  BY HitFacts
<1>3. rm.from = dm /\ rn.from = dn
  OBVIOUS
<1> HIDE DEF dm, dn, rm, rn
<1>4. ASSUME m.from <= n.from, n.to <= m.to
      PROVE  Encloses(rm, rn)
  <2>1. dm <= dn /\ (m.from < n.from => dm < dn)
    BY <1>4, DocNested DEF dm, dn
  <2>2. rm # rn
    BY <1>1, <1>2, <1>3, <1>4, <2>1
  <2> QED
    BY <1>2, <1>3, <1>4, <2>1, <2>2 DEF Encloses
<1>5. ASSUME Encloses(rm, rn)
      PROVE  m.from <= n.from /\ n.to <= m.to
  <2>1. dm <= dn /\ n.to <= m.to
    BY <1>2, <1>3, <1>5 DEF Encloses
  <2>2. ASSUME n.from < m.from
        PROVE  FALSE
    <3>1. n.from < dm
      BY <2>2, DocBehind DEF dm
    <3> QED
      BY <1>1, <1>2, <2>1, <3>1
  <2> QED
    BY <1>1, <2>1, <2>2
<1> QED
  BY <1>4, <1>5 DEF rm, rn

\* A function that carries one order to another.
Carries(f, S, R, T, Q) ==
    /\ f \in [S -> T]
    /\ \A y \in T : \E x \in S : f[x] = y
    /\ \A x, y \in S : f[x] = f[y] => x = y
    /\ \A x, y \in S : <<x, y>> \in R <=> <<f[x], f[y]>> \in Q

\* Two sets with one order between them are sorted alike.
LEMMA SortedAlike ==
    ASSUME NEW S, NEW R, NEW T, NEW Q, NEW f,
           IsFiniteSet(S), StrictOrder(S, R), Carries(f, S, R, T, Q)
    PROVE  /\ DOMAIN Ordered(T, Q) = DOMAIN Ordered(S, R)
           /\ \A i \in DOMAIN Ordered(S, R) :
                 Ordered(S, R)[i] \in S /\ Ordered(T, Q)[i] = f[Ordered(S, R)[i]]
           /\ Len(Ordered(S, R)) \in Nat /\ DOMAIN Ordered(S, R) = 1 .. Len(Ordered(S, R))
           /\ Ordered(T, Q) = <<>> <=> S = {}
<1> DEFINE s == Ordered(S, R)
           t == Ordered(T, Q)
           n == Cardinality(S)
<1> USE DEF Carries
<1>1. IsFiniteSet(T) /\ Cardinality(T) = n
  <2>1. f \in Surjection(S, T) /\ f \in Injection(S, T)
    BY DEF Surjection, Injection, IsInjective
  <2> QED
    BY <2>1, FS_Surjection
<1>2. StrictOrder(T, Q)
  <2>1. \A y \in T : <<y, y>> \notin Q
    BY DEF StrictOrder
  <2>2. ASSUME NEW u \in T, NEW v \in T, NEW w \in T, <<u, v>> \in Q, <<v, w>> \in Q
        PROVE  <<u, w>> \in Q
    <3>1. PICK a \in S : f[a] = u
      OBVIOUS
    <3>2. PICK b \in S : f[b] = v
      OBVIOUS
    <3>3. PICK c \in S : f[c] = w
      OBVIOUS
    <3>4. <<a, b>> \in R /\ <<b, c>> \in R
      BY <2>2, <3>1, <3>2, <3>3
    <3>5. <<a, c>> \in R
      BY <3>4 DEF StrictOrder
    <3> QED
      BY <3>1, <3>3, <3>5
  <2>3. ASSUME NEW u \in T, NEW v \in T, u # v
        PROVE  <<u, v>> \in Q \/ <<v, u>> \in Q
    <3>1. PICK a \in S : f[a] = u
      OBVIOUS
    <3>2. PICK b \in S : f[b] = v
      OBVIOUS
    <3>3. <<a, b>> \in R \/ <<b, a>> \in R
      BY <2>3, <3>1, <3>2 DEF StrictOrder
    <3> QED
      BY <3>1, <3>2, <3>3
  <2> QED
    BY <2>1, <2>2, <2>3 DEF StrictOrder
<1>3. ASSUME NEW x \in S
      PROVE  Place(T, Q, f[x]) = Place(S, R, x)
  <2> DEFINE A == Ahead(S, R, x)
             B == Ahead(T, Q, f[x])
             g == [y \in A |-> f[y]]
  <2>1. IsFiniteSet(A)
    BY PlaceType
  <2>2. A \subseteq S /\ \A y \in A : f[y] \in B
    BY DEF Ahead
  <2>3. \A z \in B : \E y \in A : f[y] = z
    BY DEF Ahead
  <2> HIDE DEF A, B
  <2>4. g \in [A -> B] /\ (\A z \in B : \E y \in A : g[y] = z)
        /\ \A y, z \in A : g[y] = g[z] => y = z
    BY <2>2, <2>3
  <2>5. g \in Surjection(A, B) /\ g \in Injection(A, B)
    BY <2>4 DEF Surjection, Injection, IsInjective
  <2> HIDE DEF g
  <2>6. Cardinality(B) = Cardinality(A)
    BY <2>1, <2>5, FS_Surjection
  <2> QED
    BY <2>6 DEF Place, A, B
<1>4. /\ n \in Nat /\ Len(s) = n /\ DOMAIN s = 1 .. n
      /\ \A i \in 1 .. n : s[i] \in S /\ Place(S, R, s[i]) = i - 1
  BY OrderedFacts
<1>5. /\ DOMAIN t = 1 .. n /\ t \in Seq(T)
      /\ \A y \in T : t[Place(T, Q, y) + 1] = y
  BY <1>1, <1>2, OrderedFacts
<1> HIDE DEF s, t, n
<1>6. ASSUME NEW i \in 1 .. n
      PROVE  t[i] = f[s[i]]
  <2>1. s[i] \in S /\ Place(S, R, s[i]) = i - 1
    BY <1>4
  <2>2. f[s[i]] \in T /\ Place(T, Q, f[s[i]]) = i - 1
    BY <1>3, <2>1
  <2>3. (i - 1) + 1 = i
    BY <1>4
  <2> QED
    BY <1>5, <2>2, <2>3
<1>7. t = <<>> <=> S = {}
  <2>1. S = {} <=> n = 0
    BY FS_EmptySet DEF n
  <2>2. t = <<>> <=> n = 0
    BY <1>4, <1>5
  <2> QED
    BY <2>1, <2>2
<1> QED
  BY <1>4, <1>5, <1>6, <1>7 DEF s, t

\* The containers of qualify_names are the containers around the node, and in
\* the order of their sizes.
LEMMA NameIs ==
    ASSUME input \in Inputs, CommentsApart, NEW s, IsSymbol(s),
           NEW around, around = {n \in input.nodes : n.container /\ n # s.node
                                                     /\ n.from <= s.node.from
                                                     /\ s.node.to <= n.to},
           NEW outer, outer = Ordered(around, {p \in around \X around :
                                                  p[1].to - p[1].from > p[2].to - p[2].from})
    PROVE  s.name = IF around = {} THEN s.node.name
                    ELSE Append([k \in DOMAIN outer |-> Last(outer[k].name)], Last(s.node.name))
<1> DEFINE n == s.node
           h == HitOf(n)
           S == around
           R == {p \in around \X around : p[1].to - p[1].from > p[2].to - p[2].from}
           T == {g \in Matched : g.node.container /\ Encloses(g.range, h.range)}
           Q == OuterFirst(Matched)
           f == [m \in S |-> HitOf(m)]
           parents == Ordered(T, Q)
           above == [i \in DOMAIN parents |-> Last(parents[i].name)]
<1>1. n \in input.nodes /\ s = Qualify(h, Matched)
  BY DEF IsSymbol
<1>2. s = IF parents = <<>> THEN h ELSE [h EXCEPT !.name = Append(above, Last(h.name))]
  BY <1>1 DEF Qualify
<1>3. h.name = n.name /\ DOMAIN h = {"node", "range", "name", "lines"}
  BY <1>1, HitFacts
<1>4. S \subseteq input.nodes /\ \A m \in S : m.container /\ m # n /\ m.from <= n.from /\ n.to <= m.to
  OBVIOUS
<1>5. IsFiniteSet(S)
  <2>1. IsFiniteSet(input.nodes)
    BY InputFacts
  <2> QED
    BY <1>4, <2>1, FS_Subset
<1>6. \A m \in input.nodes : /\ HitOf(m).node = m /\ HitOf(m).name = m.name
                             /\ HitOf(m).range.from \in Nat
                             /\ m.from \in Nat /\ m.to \in Nat /\ m.from < m.to
  BY HitFacts, InputFacts
<1>7. ASSUME NEW a \in S, NEW b \in S
      PROVE  <<a, b>> \in R <=> a.to - a.from > b.to - b.from
  OBVIOUS
<1>8. ASSUME NEW a \in S, NEW b \in S, a # b
      PROVE  \/ a.from <= b.from /\ b.to <= a.to /\ a.to - a.from > b.to - b.from
             \/ b.from <= a.from /\ a.to <= b.to /\ b.to - b.from > a.to - a.from
  <2>1. Laminar(a, b) /\ (a.from # b.from \/ a.to # b.to)
    BY <1>4, <1>8, InputFacts
  <2>2. /\ a.from <= n.from /\ n.to <= a.to /\ b.from <= n.from /\ n.to <= b.to
        /\ n.from \in Nat /\ n.to \in Nat /\ n.from < n.to
        /\ a.from \in Nat /\ a.to \in Nat /\ b.from \in Nat /\ b.to \in Nat
    BY <1>1, <1>4, <1>6
  <2> HIDE DEF n, S
  <2>3. \/ a.from <= b.from /\ b.to <= a.to
        \/ b.from <= a.from /\ a.to <= b.to
    BY <2>1, <2>2 DEF Laminar
  <2> QED
    BY <2>1, <2>2, <2>3
<1>9. StrictOrder(S, R)
  <2>1. \A a \in S : a.to - a.from \in Int
    BY <1>4, <1>6
  <2>2. ASSUME NEW a \in S PROVE <<a, a>> \notin R
    BY <1>7, <2>1
  <2>3. ASSUME NEW a \in S, NEW b \in S, NEW c \in S, <<a, b>> \in R, <<b, c>> \in R
        PROVE  <<a, c>> \in R
    <3>1. a.to - a.from > b.to - b.from /\ b.to - b.from > c.to - c.from
      BY <1>7, <2>3
    <3>2. a.to - a.from > c.to - c.from
      BY <2>1, <3>1
    <3> QED
      BY <1>7, <3>2
  <2>4. ASSUME NEW a \in S, NEW b \in S, a # b PROVE <<a, b>> \in R \/ <<b, a>> \in R
    BY <1>7, <1>8, <2>4
  <2> HIDE DEF R, S
  <2> QED
    BY <2>2, <2>3, <2>4 DEF StrictOrder
<1>10. \A m \in S : HitOf(m) \in T
  <2> SUFFICES ASSUME NEW m \in S PROVE HitOf(m) \in T
    OBVIOUS
  <2>1. m \in input.nodes /\ m # n /\ m.container /\ m.from <= n.from /\ n.to <= m.to
    BY <1>4
  <2>2. HitOf(m) \in Matched /\ HitOf(m).node = m
    BY <1>6, <2>1 DEF Matched
  <2>3. Encloses(HitOf(m).range, HitOf(n).range)
    BY <1>1, <2>1, EnclosesIs
  <2> QED
    BY <2>1, <2>2, <2>3
<1>11. ASSUME NEW g \in T
       PROVE  \E m \in S : HitOf(m) = g
  <2>1. PICK m \in input.nodes : g = HitOf(m)
    BY DEF Matched
  <2>2. g.node = m /\ m.container /\ Encloses(HitOf(m).range, HitOf(n).range)
    BY <1>6, <2>1
  <2>3. m # n
    BY <2>2 DEF Encloses
  <2>4. m.from <= n.from /\ n.to <= m.to
    BY <1>1, <2>2, <2>3, EnclosesIs
  <2> QED
    BY <2>1, <2>2, <2>3, <2>4
<1>12. ASSUME NEW a \in S, NEW b \in S, a # b, a.from <= b.from, b.to <= a.to
       PROVE  <<HitOf(a), HitOf(b)>> \in Q /\ <<HitOf(b), HitOf(a)>> \notin Q
  <2> DEFINE ha == HitOf(a)
             hb == HitOf(b)
  <2>1. a \in input.nodes /\ b \in input.nodes
    BY <1>4
  <2>2. /\ ha \in Matched /\ hb \in Matched /\ ha.node = a /\ hb.node = b
        /\ ha.range.from \in Nat /\ hb.range.from \in Nat
        /\ a.from \in Nat /\ a.to \in Nat /\ b.from \in Nat /\ b.to \in Nat
    BY <1>6, <2>1 DEF Matched
  <2>3. /\ ha.range.from <= hb.range.from
        /\ a.from < b.from => ha.range.from < hb.range.from
    BY <1>12, <2>1, DocNested
  <2>4. a.from # b.from \/ a.to # b.to
    BY <1>12, <2>1, InputFacts
  <2> HIDE DEF ha, hb, n, S
  <2>5. /\ <<ha, hb>> \in Q <=> \/ ha.range.from < hb.range.from
                                \/ ha.range.from = hb.range.from /\ Found(a, b)
        /\ <<hb, ha>> \in Q <=> \/ hb.range.from < ha.range.from
                                \/ hb.range.from = ha.range.from /\ Found(b, a)
    BY <2>2 DEF OuterFirst
  <2>6. ~Found(b, a) /\ (ha.range.from = hb.range.from => Found(a, b))
    BY <1>12, <2>2, <2>3, <2>4 DEF Found
  <2>7. ha.range.from < hb.range.from \/ ha.range.from = hb.range.from
    BY <2>2, <2>3
  <2>8. ~(hb.range.from < ha.range.from)
    BY <2>2, <2>3
  <2> HIDE DEF Q
  <2> QED
    BY <2>5, <2>6, <2>7, <2>8 DEF ha, hb
<1>13. ASSUME NEW a \in S, NEW b \in S
       PROVE  <<a, b>> \in R <=> <<HitOf(a), HitOf(b)>> \in Q
  <2>1. CASE a = b
    <3>1. a.from \in Nat /\ HitOf(a).range.from \in Nat /\ a.to \in Nat /\ HitOf(a).node = a
      BY <1>4, <1>6
    <3>2. ~Found(a, a)
      BY <3>1 DEF Found
    <3>3. <<HitOf(a), HitOf(a)>> \notin Q
      <4> DEFINE ha == HitOf(a)
      <4>1. ha.range.from \in Nat /\ ha.node = a
        BY <3>1
      <4> HIDE DEF ha
      <4>2. <<ha, ha>> \notin Q
        BY <3>2, <4>1 DEF OuterFirst
      <4> QED
        BY <4>2 DEF ha
    <3>4. <<a, a>> \notin R
      BY <1>9 DEF StrictOrder
    <3> HIDE DEF R, Q, S
    <3> QED
      BY <2>1, <3>3, <3>4
  <2>2. CASE a # b
    <3>1. a.to - a.from \in Int /\ b.to - b.from \in Int
      BY <1>4, <1>6
    <3>2. CASE a.from <= b.from /\ b.to <= a.to /\ a.to - a.from > b.to - b.from
      <4>1. <<a, b>> \in R
        BY <1>7, <3>2
      <4>2. <<HitOf(a), HitOf(b)>> \in Q
        BY <1>12, <2>2, <3>2
      <4> HIDE DEF R, Q
      <4> QED
        BY <4>1, <4>2
    <3>3. CASE b.from <= a.from /\ a.to <= b.to /\ b.to - b.from > a.to - a.from
      <4>1. <<a, b>> \notin R
        BY <1>7, <3>1, <3>3
      <4>2. <<HitOf(a), HitOf(b)>> \notin Q
        BY <1>12, <2>2, <3>3
      <4> HIDE DEF R, Q
      <4> QED
        BY <4>1, <4>2
    <3> QED
      BY <1>8, <2>2, <3>2, <3>3
  <2> QED
    BY <2>1, <2>2
<1>14. /\ f \in [S -> T]
       /\ \A g \in T : \E m \in S : f[m] = g
       /\ \A a, b \in S : f[a] = f[b] => a = b
       /\ \A a, b \in S : <<a, b>> \in R <=> <<f[a], f[b]>> \in Q
  <2>1. \A m \in S : f[m] = HitOf(m) /\ HitOf(m).node = m
    BY <1>4, <1>6
  <2>2. f \in [S -> T]
    <3> HIDE DEF S, T
    <3> QED
      BY <1>10
  <2> HIDE DEF S, T, f, R, Q
  <2>3. \A a, b \in S : f[a] = f[b] => a = b
    BY <2>1
  <2> QED
    BY <1>11, <1>13, <2>1, <2>2, <2>3
<1>15. outer = Ordered(S, R)
  OBVIOUS
<1> HIDE DEF S, R, T, Q, f, parents, h, n
<1>16. /\ DOMAIN parents = DOMAIN outer
       /\ \A i \in DOMAIN outer : outer[i] \in S /\ parents[i] = f[outer[i]]
       /\ parents = <<>> <=> S = {}
  <2>1. /\ DOMAIN Ordered(T, Q) = DOMAIN Ordered(S, R)
        /\ \A i \in DOMAIN Ordered(S, R) :
              Ordered(S, R)[i] \in S /\ Ordered(T, Q)[i] = f[Ordered(S, R)[i]]
        /\ Ordered(T, Q) = <<>> <=> S = {}
    <3>1. Carries(f, S, R, T, Q)
      BY <1>14 DEF Carries
    <3> QED
      BY <1>5, <1>9, <3>1, SortedAlike
  <2> QED
    BY <1>15, <2>1 DEF parents
<1>17. above = [k \in DOMAIN outer |-> Last(outer[k].name)]
  <2>1. \A i \in DOMAIN outer : parents[i].name = outer[i].name
    <3> SUFFICES ASSUME NEW i \in DOMAIN outer PROVE parents[i].name = outer[i].name
      OBVIOUS
    <3>1. outer[i] \in S /\ parents[i] = f[outer[i]]
      BY <1>16
    <3>2. f[outer[i]] = HitOf(outer[i])
      BY <3>1 DEF f
    <3> QED
      BY <1>4, <1>6, <3>1, <3>2
  <2> QED
    BY <1>16, <2>1
<1> HIDE DEF above
<1>18. CASE S = {}
  <2>1. s = h
    BY <1>2, <1>16, <1>18
  <2> QED
    BY <1>3, <1>18, <2>1 DEF S, n
<1>19. CASE S # {}
  <2>1. s = [h EXCEPT !.name = Append(above, Last(h.name))]
    BY <1>2, <1>16, <1>19
  <2>2. s.name = Append(above, Last(h.name))
    BY <1>3, <2>1
  <2> QED
    BY <1>3, <1>17, <1>19, <2>2 DEF S, n
<1> QED
  BY <1>18, <1>19

\* A record describes its text, and a name gives the containers around its
\* symbol, whatever file is chunked.
THEOREM RecordsAlwaysDescribe == Spec => []RecordsDescribe
<1>1. ChunkInv => RecordsDescribe
  <2> SUFFICES ASSUME ChunkInv, Chunked, CommentsApart PROVE RecordsDescribe
    BY DEF RecordsDescribe
  <2>1. input \in Inputs /\ hits = Symbols /\ Described
    BY DEF ChunkInv, Chunked
  <2>2. \A i \in DOMAIN hits : IsSymbol(hits[i])
    BY <2>1, SymbolFacts
  <2>3. \A i \in DOMAIN hits :
           LET around == {n \in input.nodes :
                             n.container /\ n # hits[i].node
                             /\ n.from <= hits[i].node.from
                             /\ hits[i].node.to <= n.to}
               outer  == Ordered(around, {p \in around \X around :
                                             p[1].to - p[1].from > p[2].to - p[2].from})
           IN  hits[i].name =
                   IF around = {} THEN hits[i].node.name
                   ELSE Append([k \in DOMAIN outer |-> Last(outer[k].name)],
                               Last(hits[i].node.name))
    <3> TAKE i \in DOMAIN hits
    <3> DEFINE s == hits[i]
               around == {n \in input.nodes : n.container /\ n # s.node
                                              /\ n.from <= s.node.from
                                              /\ s.node.to <= n.to}
               outer  == Ordered(around, {p \in around \X around :
                                             p[1].to - p[1].from > p[2].to - p[2].from})
    <3>1. IsSymbol(s)
      BY <2>2
    <3>2. /\ around = {n \in input.nodes : n.container /\ n # s.node
                                           /\ n.from <= s.node.from
                                           /\ s.node.to <= n.to}
          /\ outer = Ordered(around, {p \in around \X around :
                                         p[1].to - p[1].from > p[2].to - p[2].from})
      OBVIOUS
    <3> HIDE DEF s, around, outer
    <3>3. s.name = IF around = {} THEN s.node.name
                   ELSE Append([k \in DOMAIN outer |-> Last(outer[k].name)],
                               Last(s.node.name))
      BY <2>1, <3>1, <3>2, NameIs
    <3> QED
      BY <3>3 DEF s, around, outer
  <2> QED
    BY <2>1, <2>3 DEF RecordsDescribe, Described
<1> QED
  BY <1>1, ChunkInvariance, PTL

=============================================================================
