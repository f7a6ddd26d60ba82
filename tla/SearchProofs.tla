----------------------------- MODULE SearchProofs -----------------------------
(***************************************************************************)
(* Proofs about module Search, for every store, query and configuration.   *)
(* First a small theory of sorting a finite set by a strict order, then    *)
(* the retrievers, fusion and assembly as operators, then the invariant    *)
(* that ties the parts of an answer to one copy of the index.              *)
(***************************************************************************)
EXTENDS Search, FiniteSetTheorems, SequenceTheorems, WellFoundedInduction, TLAPS
-----------------------------------------------------------------------------
(***************************************************************************)
(* Sorting.                                                                *)
(***************************************************************************)

\* R orders S strictly and totally.
StrictOrder(S, R) ==
    /\ \A x \in S : <<x, x>> \notin R
    /\ \A x, y, z \in S : <<x, y>> \in R /\ <<y, z>> \in R => <<x, z>> \in R
    /\ \A x, y \in S : x # y => <<x, y>> \in R \/ <<y, x>> \in R

\* The members of S that come before x, and how many they are.
Ahead(S, R, x) == {y \in S : <<y, x>> \in R}
Place(S, R, x) == Cardinality(Ahead(S, R, x))

\* A set of numbers that is not empty has a least one.
LEMMA LeastNumber ==
    ASSUME NEW T \in SUBSET Nat, T # {}
    PROVE  \E x \in T : \A y \in T : x <= y
<1>1. PICK x \in T : \A y \in T : ~(<<y, x>> \in OpToRel(<, Nat))
  BY NatLessThanWellFounded, WFMin
<1>2. \A y \in T : ~(y < x)
  BY <1>1 DEF OpToRel
<1> QED
  BY <1>2

\* The place of a member is below the size of the set.
LEMMA PlaceType ==
    ASSUME NEW S, NEW R, IsFiniteSet(S), StrictOrder(S, R), NEW x \in S
    PROVE  /\ Place(S, R, x) \in 0 .. (Cardinality(S) - 1)
           /\ IsFiniteSet(Ahead(S, R, x))
<1>1. Ahead(S, R, x) \in SUBSET (S \ {x})
  BY DEF Ahead, StrictOrder
<1>2. IsFiniteSet(S \ {x}) /\ Cardinality(S \ {x}) = Cardinality(S) - 1
  BY FS_RemoveElement
<1>3. IsFiniteSet(Ahead(S, R, x)) /\ Cardinality(Ahead(S, R, x)) <= Cardinality(S) - 1
  BY <1>1, <1>2, FS_Subset
<1>4. Cardinality(S) \in Nat /\ Cardinality(Ahead(S, R, x)) \in Nat
  BY <1>3, FS_CardinalityType
<1> QED
  BY <1>3, <1>4 DEF Place

\* Of two members the one that comes before the other has the lower place.
LEMMA PlaceMono ==
    ASSUME NEW S, NEW R, IsFiniteSet(S), StrictOrder(S, R),
           NEW x \in S, NEW y \in S, <<x, y>> \in R
    PROVE  Place(S, R, x) < Place(S, R, y)
<1>1. Ahead(S, R, x) \in SUBSET (Ahead(S, R, y) \ {x})
  BY DEF Ahead, StrictOrder
<1>2. x \in Ahead(S, R, y)
  BY DEF Ahead
<1>3. IsFiniteSet(Ahead(S, R, y)) /\ Place(S, R, y) \in Nat /\ Place(S, R, x) \in Nat
  BY PlaceType, FS_CardinalityType DEF Place
<1>4. IsFiniteSet(Ahead(S, R, y) \ {x})
      /\ Cardinality(Ahead(S, R, y) \ {x}) = Place(S, R, y) - 1
  BY <1>2, <1>3, FS_RemoveElement DEF Place
<1>5. Place(S, R, x) <= Place(S, R, y) - 1
  BY <1>1, <1>4, FS_Subset DEF Place
<1> QED
  BY <1>3, <1>5

\* Places and the order are the same thing.
LEMMA PlaceOrder ==
    ASSUME NEW S, NEW R, IsFiniteSet(S), StrictOrder(S, R), NEW x \in S, NEW y \in S
    PROVE  /\ Place(S, R, x) = Place(S, R, y) => x = y
           /\ Place(S, R, x) < Place(S, R, y) <=> <<x, y>> \in R
<1>1. Place(S, R, x) \in Int /\ Place(S, R, y) \in Int
  BY PlaceType, FS_CardinalityType
<1>2. CASE <<x, y>> \in R
  <2>1. Place(S, R, x) < Place(S, R, y)
    BY <1>2, PlaceMono
  <2> QED
    BY <1>1, <1>2, <2>1
<1>3. CASE <<y, x>> \in R
  <2>1. Place(S, R, y) < Place(S, R, x)
    BY <1>3, PlaceMono
  <2>2. <<x, y>> \notin R
    BY <1>3 DEF StrictOrder
  <2> QED
    BY <1>1, <2>1, <2>2
<1>4. CASE x = y
  BY <1>1, <1>4 DEF StrictOrder
<1> QED
  BY <1>2, <1>3, <1>4 DEF StrictOrder

\* Every place is taken.
LEMMA PlaceOnto ==
    ASSUME NEW S, NEW R, IsFiniteSet(S), StrictOrder(S, R),
           NEW k \in 0 .. (Cardinality(S) - 1)
    PROVE  \E x \in S : Place(S, R, x) = k
<1> DEFINE n == Cardinality(S)
           T == 0 .. (n - 1)
           f == [x \in S |-> Place(S, R, x)]
<1>1. n \in Nat
  BY FS_CardinalityType
<1>2. IsFiniteSet(T) /\ Cardinality(T) = n
  BY <1>1, FS_Interval
<1>3. f \in [S -> T]
  BY PlaceType
<1>4. \A x, y \in S : f[x] = f[y] => x = y
  BY PlaceOrder
<1>5. f \in Injection(S, T)
  BY <1>3, <1>4 DEF Injection, IsInjective
<1>6. f \in Surjection(S, T)
  BY <1>2, <1>5, FS_Injection
<1>7. \A t \in T : \E x \in S : f[x] = t
  BY <1>6 DEF Surjection
<1> QED
  BY <1>7


\* A part of an ordered set is ordered.
LEMMA OrderedPart ==
    ASSUME NEW S, NEW R, StrictOrder(S, R), NEW U \in SUBSET S
    PROVE  StrictOrder(U, R)
  BY DEF StrictOrder

\* What a sort returns: every member once, each at its place.
LEMMA OrderedFacts ==
    ASSUME NEW S, NEW R, IsFiniteSet(S), StrictOrder(S, R)
    PROVE  /\ Ordered(S, R) \in Seq(S)
           /\ Cardinality(S) \in Nat
           /\ Len(Ordered(S, R)) = Cardinality(S)
           /\ DOMAIN Ordered(S, R) = 1 .. Cardinality(S)
           /\ \A i \in 1 .. Cardinality(S) :
                 Ordered(S, R)[i] \in S /\ Place(S, R, Ordered(S, R)[i]) = i - 1
           /\ \A x \in S : /\ Place(S, R, x) + 1 \in 1 .. Cardinality(S)
                           /\ Ordered(S, R)[Place(S, R, x) + 1] = x
           /\ \A i, j \in 1 .. Cardinality(S) :
                 i < j <=> <<Ordered(S, R)[i], Ordered(S, R)[j]>> \in R
<1> DEFINE n == Cardinality(S)
           s == Ordered(S, R)
<1>1. n \in Nat
  BY FS_CardinalityType
<1>2. s = [k \in 1 .. n |-> CHOOSE x \in S : Place(S, R, x) = k - 1]
  BY DEF Ordered, Place, Ahead
<1>3. ASSUME NEW i \in 1 .. n
      PROVE  s[i] \in S /\ Place(S, R, s[i]) = i - 1
  <2>1. i - 1 \in 0 .. (n - 1)
    BY <1>1
  <2>2. \E x \in S : Place(S, R, x) = i - 1
    BY <2>1, PlaceOnto
  <2>3. s[i] = CHOOSE x \in S : Place(S, R, x) = i - 1
    BY <1>2
  <2> QED
    BY <2>2, <2>3
<1>4. s \in Seq(S) /\ Len(s) = n /\ DOMAIN s = 1 .. n
  <2> HIDE DEF s
  <2>1. s = [k \in 1 .. n |-> s[k]]
    BY <1>2
  <2>2. \A k \in 1 .. n : s[k] \in S
    BY <1>3
  <2> QED
    BY <1>1, <2>1, <2>2
<1>5. ASSUME NEW x \in S
      PROVE  Place(S, R, x) + 1 \in 1 .. n /\ s[Place(S, R, x) + 1] = x
  <2> DEFINE k == Place(S, R, x) + 1
  <2>1. k \in 1 .. n /\ k - 1 = Place(S, R, x)
    BY <1>1, PlaceType
  <2>2. s[k] \in S /\ Place(S, R, s[k]) = Place(S, R, x)
    BY <1>3, <2>1
  <2> QED
    BY <2>1, <2>2, PlaceOrder
<1>6. ASSUME NEW i \in 1 .. n, NEW j \in 1 .. n
      PROVE  i < j <=> <<s[i], s[j]>> \in R
  <2>1. s[i] \in S /\ s[j] \in S /\ Place(S, R, s[i]) = i - 1 /\ Place(S, R, s[j]) = j - 1
    BY <1>3
  <2> HIDE DEF s
  <2>2. Place(S, R, s[i]) < Place(S, R, s[j]) <=> <<s[i], s[j]>> \in R
    BY <2>1, PlaceOrder
  <2> QED
    BY <1>1, <2>1, <2>2
<1> QED
  BY <1>1, <1>3, <1>4, <1>5, <1>6

\* The first n members.
Best(S, R, n) == {x \in S : Place(S, R, x) < n}

\* There are n of them, or all.
LEMMA BestSize ==
    ASSUME NEW S, NEW R, IsFiniteSet(S), StrictOrder(S, R), NEW n \in Nat
    PROVE  /\ IsFiniteSet(Best(S, R, n))
           /\ Cardinality(Best(S, R, n)) \in Nat
           /\ Cardinality(Best(S, R, n)) <= n
           /\ Cardinality(Best(S, R, n)) < n => Best(S, R, n) = S
<1> DEFINE B == Best(S, R, n)
<1>1. B \in SUBSET S
  BY DEF Best
<1>2. IsFiniteSet(B) /\ Cardinality(B) \in Nat /\ Cardinality(S) \in Nat
  BY <1>1, FS_Subset, FS_CardinalityType
<1>3. StrictOrder(B, R)
  BY <1>1, OrderedPart
<1> DEFINE f == [x \in B |-> Place(S, R, x)]
           T == 0 .. (n - 1)
<1>4. IsFiniteSet(T) /\ Cardinality(T) = n
  BY FS_Interval
<1>5. f \in [B -> T]
  <2>1. \A x \in B : Place(S, R, x) \in T
    <3> TAKE x \in B
    <3>1. Place(S, R, x) \in 0 .. (Cardinality(S) - 1)
      BY <1>1, PlaceType
    <3>2. Place(S, R, x) < n
      BY DEF Best
    <3> QED
      BY <1>2, <3>1, <3>2
  <2> QED
    BY <2>1
<1>6. \A x, y \in B : f[x] = f[y] => x = y
  BY <1>1, PlaceOrder
<1>7. f \in Injection(B, T)
  BY <1>5, <1>6 DEF Injection, IsInjective
<1>8. Cardinality(B) <= n /\ (Cardinality(B) = n <=> f \in Surjection(B, T))
  BY <1>4, <1>7, FS_Injection
<1>9. ASSUME B # S
      PROVE  Cardinality(B) = n
  <2>1. PICK z \in S : z \notin B
    BY <1>1, <1>9
  <2>2. Place(S, R, z) >= n /\ Place(S, R, z) \in 0 .. (Cardinality(S) - 1)
    BY <1>2, <2>1, PlaceType DEF Best
  <2>3. ASSUME NEW t \in T
        PROVE  \E x \in B : f[x] = t
    <3>1. t \in 0 .. (Cardinality(S) - 1)
      BY <1>2, <2>2
    <3>2. PICK x \in S : Place(S, R, x) = t
      BY <3>1, PlaceOnto
    <3>3. x \in B
      BY <3>2 DEF Best
    <3> QED
      BY <3>2, <3>3
  <2>4. f \in Surjection(B, T)
    BY <1>5, <2>3 DEF Surjection
  <2> QED
    BY <1>8, <2>4
<1> QED
  BY <1>2, <1>8, <1>9

\* The length and the members of the first n of a sequence.
LEMMA TakeFacts ==
    ASSUME NEW S, NEW s \in Seq(S), NEW n \in Nat
    PROVE  /\ Take(n, s) \in Seq(S)
           /\ Len(Take(n, s)) = IF n < Len(s) THEN n ELSE Len(s)
           /\ DOMAIN Take(n, s) = 1 .. (IF n < Len(s) THEN n ELSE Len(s))
           /\ \A i \in DOMAIN Take(n, s) : i \in DOMAIN s /\ Take(n, s)[i] = s[i]
           /\ Len(s) <= n => Take(n, s) = s
<1>1. PICK m \in 0 .. Len(s) : m = IF n < Len(s) THEN n ELSE Len(s)
  OBVIOUS
<1>2. Take(n, s) = SubSeq(s, 1, m)
  BY <1>1 DEF Take
<1>3. /\ SubSeq(s, 1, m) \in Seq(S)
      /\ Len(SubSeq(s, 1, m)) = m
      /\ DOMAIN SubSeq(s, 1, m) = 1 .. m
      /\ \A i \in 1 .. m : SubSeq(s, 1, m)[i] = s[i]
  OBVIOUS
<1>4. m = Len(s) => SubSeq(s, 1, m) = s
  OBVIOUS
<1>5. \A i \in 1 .. m : i \in DOMAIN s
  OBVIOUS
<1>6. /\ Take(n, s) \in Seq(S) /\ Len(Take(n, s)) = m /\ DOMAIN Take(n, s) = 1 .. m
      /\ \A i \in DOMAIN Take(n, s) : i \in DOMAIN s /\ Take(n, s)[i] = s[i]
  BY <1>2, <1>3, <1>5
<1>7. Len(s) <= n => Take(n, s) = s
  BY <1>1, <1>2, <1>4
<1> QED
  BY <1>1, <1>6, <1>7

\* Sorting a part that contains the first n gives the same first n.
LEMMA TopOfPart ==
    ASSUME NEW S, NEW R, IsFiniteSet(S), StrictOrder(S, R),
           NEW U \in SUBSET S, NEW Q, NEW n \in Nat,
           \A x, y \in U : <<x, y>> \in Q <=> <<x, y>> \in R,
           Best(S, R, n) \subseteq U
    PROVE  Take(n, Ordered(U, Q)) = Take(n, Ordered(S, R))
<1> DEFINE s == Ordered(S, R)
           u == Ordered(U, Q)
<1>1. IsFiniteSet(U) /\ Cardinality(U) <= Cardinality(S)
  BY FS_Subset
<1>2. StrictOrder(U, Q)
  BY OrderedPart DEF StrictOrder
<1>3. /\ s \in Seq(S) /\ Len(s) = Cardinality(S) /\ Cardinality(S) \in Nat
      /\ \A i \in 1 .. Cardinality(S) : s[i] \in S /\ Place(S, R, s[i]) = i - 1
  BY OrderedFacts
<1>4. /\ u \in Seq(U) /\ Len(u) = Cardinality(U) /\ Cardinality(U) \in Nat
      /\ \A x \in U : /\ Place(U, Q, x) + 1 \in 1 .. Cardinality(U)
                      /\ u[Place(U, Q, x) + 1] = x
  BY <1>1, <1>2, OrderedFacts
<1>5. ASSUME NEW x \in S, Place(S, R, x) < n
      PROVE  x \in U /\ Place(U, Q, x) = Place(S, R, x)
  <2>1. x \in U
    BY <1>5 DEF Best
  <2>2. ASSUME NEW y \in Ahead(S, R, x)
        PROVE  y \in Ahead(U, Q, x)
    <3>1. y \in S /\ <<y, x>> \in R
      BY DEF Ahead
    <3>2. Place(S, R, y) < Place(S, R, x)
      BY <3>1, PlaceOrder
    <3>3. Place(S, R, y) \in Int /\ Place(S, R, x) \in Int
      BY <3>1, PlaceType
    <3>4. y \in U
      BY <1>5, <3>1, <3>2, <3>3 DEF Best
    <3> QED
      BY <2>1, <3>1, <3>4 DEF Ahead
  <2>3. Ahead(U, Q, x) \subseteq Ahead(S, R, x)
    BY <2>1 DEF Ahead
  <2>4. Ahead(U, Q, x) = Ahead(S, R, x)
    BY <2>2, <2>3
  <2> QED
    BY <2>1, <2>4 DEF Place
<1> HIDE DEF s, u
<1>6. ASSUME NEW i \in 1 .. Len(s), i <= n
      PROVE  i \in 1 .. Len(u) /\ u[i] = s[i]
  <2>1. s[i] \in S /\ Place(S, R, s[i]) = i - 1
    BY <1>3
  <2>2. Place(S, R, s[i]) < n
    BY <1>3, <1>6, <2>1
  <2>3. s[i] \in U /\ Place(U, Q, s[i]) = i - 1
    BY <1>5, <2>1, <2>2
  <2>4. (i - 1) + 1 \in 1 .. Cardinality(U) /\ u[(i - 1) + 1] = s[i]
    BY <1>4, <2>3
  <2> QED
    BY <1>4, <2>4
<1> DEFINE m == IF n < Len(s) THEN n ELSE Len(s)
<1>7. m = (IF n < Len(u) THEN n ELSE Len(u)) /\ m \in Nat
  <2>1. Len(u) <= Len(s) /\ Len(u) \in Nat /\ Len(s) \in Nat
    BY <1>1, <1>3, <1>4
  <2>2. CASE n < Len(s)
    <3>1. n = 0 \/ n \in 1 .. Len(u)
      BY <1>6, <2>1, <2>2
    <3> QED
      BY <2>1, <2>2, <3>1
  <2>3. CASE ~(n < Len(s))
    <3>1. Len(s) = 0 \/ Len(s) \in 1 .. Len(u)
      BY <1>6, <2>1, <2>3
    <3> QED
      BY <2>1, <2>3, <3>1
  <2> QED
    BY <2>2, <2>3
<1>8. /\ Take(n, s) \in Seq(S) /\ DOMAIN Take(n, s) = 1 .. m /\ Len(Take(n, s)) = m
      /\ \A i \in 1 .. m : Take(n, s)[i] = s[i]
  BY <1>3, TakeFacts
<1>9. /\ Take(n, u) \in Seq(S) /\ DOMAIN Take(n, u) = 1 .. m /\ Len(Take(n, u)) = m
      /\ \A i \in 1 .. m : Take(n, u)[i] = u[i]
  <2>1. u \in Seq(S)
    BY <1>4
  <2>2. Take(n, u) \in Seq(S) /\ DOMAIN Take(n, u) = 1 .. m
    BY <1>7, <2>1, TakeFacts
  <2> QED
    BY <1>7, <2>1, <2>2, TakeFacts
<1>10. \A i \in 1 .. m : u[i] = s[i]
  BY <1>3, <1>6
<1> HIDE DEF m
<1>11. Take(n, u) = Take(n, s)
  BY <1>8, <1>9, <1>10
<1> QED
  BY <1>11 DEF s, u

\* One more member: it moves those it comes before by one.
LEMMA PlaceAdd ==
    ASSUME NEW P, NEW R, NEW c, IsFiniteSet(P), c \notin P, StrictOrder(P \union {c}, R),
           NEW x \in P
    PROVE  Place(P \union {c}, R, x) =
              IF <<c, x>> \in R THEN Place(P, R, x) + 1 ELSE Place(P, R, x)
<1>1. IsFiniteSet(Ahead(P, R, x))
  <2>1. StrictOrder(P, R)
    BY OrderedPart
  <2> QED
    BY <2>1, PlaceType
<1>2. c \notin Ahead(P, R, x)
  BY DEF Ahead
<1>3. CASE <<c, x>> \in R
  <2>1. Ahead(P \union {c}, R, x) = Ahead(P, R, x) \union {c}
    BY <1>3 DEF Ahead
  <2> QED
    BY <1>1, <1>2, <1>3, <2>1, FS_AddElement DEF Place
<1>4. CASE <<c, x>> \notin R
  <2>1. Ahead(P \union {c}, R, x) = Ahead(P, R, x)
    BY <1>4 DEF Ahead
  <2> QED
    BY <1>4, <2>1 DEF Place
<1> QED
  BY <1>3, <1>4

-----------------------------------------------------------------------------
(***************************************************************************)
(* The dense retriever.                                                    *)
(***************************************************************************)

\* The heap of select_scores keeps the best: a candidate pushed on the best
\* `n` of what came before gives the best `n` of both.
LEMMA PushKeepsBest ==
    ASSUME NEW P, NEW R, NEW c, NEW n \in Nat, n > 0, IsFiniteSet(P), c \notin P,
           StrictOrder(P \union {c}, R),
           \A x, y \in P \union {c} : <<x, y>> \in R <=> Before(x, y)
    PROVE  Push(Best(P, R, n), n, c) = Best(P \union {c}, R, n)
<1> DEFINE D == P \union {c}
           B == Best(P, R, n)
<1>1. StrictOrder(P, R)
  BY OrderedPart
<1>2. IsFiniteSet(D) /\ Cardinality(D) = Cardinality(P) + 1 /\ Cardinality(P) \in Nat
  BY FS_AddElement, FS_CardinalityType
<1>3. /\ Cardinality(B) \in Nat /\ Cardinality(B) <= n /\ IsFiniteSet(B)
      /\ Cardinality(B) < n => B = P
  BY <1>1, BestSize
<1>4. B \subseteq P
  BY DEF Best
<1>5. CASE Cardinality(B) < n
  <2>1. Push(B, n, c) = D
    BY <1>3, <1>5 DEF Push
  <2>2. ASSUME NEW x \in D
        PROVE  Place(D, R, x) < n
    <3>1. Place(D, R, x) \in 0 .. (Cardinality(D) - 1)
      BY <1>2, PlaceType
    <3> QED
      BY <1>2, <1>3, <1>5, <3>1
  <2> QED
    BY <2>1, <2>2 DEF Best
<1>6. CASE Cardinality(B) = n
  <2>1. Cardinality(B) <= Cardinality(P) /\ B # {}
    BY <1>3, <1>4, <1>6, FS_Subset, FS_EmptySet
  <2>2. n - 1 \in 0 .. (Cardinality(P) - 1)
    BY <1>2, <1>6, <2>1
  <2>3. PICK w \in P : Place(P, R, w) = n - 1
    BY <1>1, <2>2, PlaceOnto
  <2>4. w \in B
    BY <2>3 DEF Best
  <2>5. ASSUME NEW x \in P
        PROVE  /\ Place(P, R, x) \in Nat
               /\ x = w \/ <<x, w>> \in R \/ <<w, x>> \in R
               /\ <<x, w>> \in R <=> Place(P, R, x) < n - 1
               /\ x \in B <=> Place(P, R, x) < n
               /\ x # w => Place(P, R, x) # n - 1
    <3>1. Place(P, R, x) \in Nat
      BY <1>1, <1>2, PlaceType
    <3>2. x = w \/ <<x, w>> \in R \/ <<w, x>> \in R
      BY <1>1 DEF StrictOrder
    <3>3. <<x, w>> \in R <=> Place(P, R, x) < n - 1
      BY <1>1, <2>3, PlaceOrder
    <3>4. x # w => Place(P, R, x) # n - 1
      BY <1>1, <2>3, PlaceOrder
    <3> QED
      BY <3>1, <3>2, <3>3, <3>4 DEF Best
  <2>6. \A x \in B \ {w} : Before(x, w)
    <3> SUFFICES ASSUME NEW x \in B \ {w}
                 PROVE  Before(x, w)
      OBVIOUS
    <3>1. x \in P /\ x # w /\ Place(P, R, x) < n
      BY <1>4, <2>5
    <3>2. Place(P, R, x) < n - 1
      <4>1. Place(P, R, x) \in Nat /\ Place(P, R, x) # n - 1
        BY <2>5, <3>1
      <4> QED
        BY <3>1, <4>1
    <3>3. <<x, w>> \in R
      BY <2>5, <3>1, <3>2
    <3> QED
      BY <3>1, <3>3
  <2>7. ASSUME NEW v \in B, \A x \in B \ {v} : Before(x, v)
        PROVE  v = w
    <3>1. SUFFICES ASSUME v # w
                   PROVE  FALSE
      OBVIOUS
    <3>2. Before(w, v) /\ Before(v, w) /\ v \in P
      BY <1>4, <2>4, <2>6, <2>7, <3>1
    <3>3. <<w, v>> \in R /\ <<v, w>> \in R
      BY <3>2
    <3> QED
      BY <1>1, <3>2, <3>3 DEF StrictOrder
  <2>8. (CHOOSE v \in B : \A x \in B \ {v} : Before(x, v)) = w
    BY <2>4, <2>6, <2>7
  <2>9. /\ Before(c, w) => Push(B, n, c) = (B \ {w}) \union {c}
        /\ ~Before(c, w) => Push(B, n, c) = B
    <3> HIDE DEF B
    <3>1. ~(Cardinality(B) < n)
      BY <1>6
    <3> QED
      BY <2>1, <2>8, <3>1, Zenon DEF Push
  <2>10. ASSUME NEW x \in P
         PROVE  Place(D, R, x) = IF <<c, x>> \in R THEN Place(P, R, x) + 1
                                 ELSE Place(P, R, x)
    BY PlaceAdd
  <2>11. Place(D, R, c) \in Nat
    BY <1>2, PlaceType
  <2>12. \A x \in P : x \in Best(D, R, n) <=> Place(D, R, x) < n
    BY DEF Best
  <2>13. c \in Best(D, R, n) <=> Place(D, R, c) < n
    BY DEF Best
  <2>14. CASE Before(c, w)
    <3>1. <<c, w>> \in R
      BY <2>14
    <3>2. Place(D, R, c) < n
      <4>1. Place(D, R, c) < Place(D, R, w)
        BY <1>2, <3>1, PlaceOrder
      <4>2. Place(D, R, w) = n
        BY <2>3, <2>10, <3>1
      <4> QED
        BY <4>1, <4>2
    <3>3. ASSUME NEW x \in P
          PROVE  x \in Best(D, R, n) <=> x \in B /\ x # w
      <4>1. CASE <<c, x>> \in R
        <5>1. Place(D, R, x) = Place(P, R, x) + 1
          BY <2>10, <4>1
        <5>2. Place(P, R, x) \in Nat /\ (x = w => Place(P, R, x) = n - 1)
          BY <2>3, <2>5
        <5>3. (x # w => Place(P, R, x) # n - 1) /\ (x \in B <=> Place(P, R, x) < n)
          BY <2>5
        <5>4. x \in Best(D, R, n) <=> Place(P, R, x) + 1 < n
          BY <2>12, <5>1
        <5> HIDE DEF D, B
        <5> QED
          BY <5>2, <5>3, <5>4
      <4>2. CASE <<c, x>> \notin R
        <5>1. <<x, c>> \in R
          BY <4>2 DEF StrictOrder
        <5>2. <<x, w>> \in R
          BY <3>1, <5>1 DEF StrictOrder
        <5>3. Place(D, R, x) = Place(P, R, x) /\ x # w
          BY <1>1, <2>10, <4>2, <5>2 DEF StrictOrder
        <5> HIDE DEF D, B
        <5> QED
          BY <2>5, <2>12, <5>2, <5>3
      <4> QED
        BY <4>1, <4>2
    <3>4. Push(B, n, c) = (B \ {w}) \union {c}
      BY <2>9, <2>14
    <3>5. Best(D, R, n) \subseteq D
      BY DEF Best
    <3>6. Best(D, R, n) = (B \ {w}) \union {c}
      <4> DEFINE C == Best(D, R, n)
      <4>1. c \in C
        BY <2>13, <3>2
      <4>2. \A x \in P : x \in C <=> x \in B /\ x # w
        BY <3>3
      <4>3. C \subseteq P \union {c}
        BY <3>5
      <4> HIDE DEF C, B, D
      <4>4. C = (B \ {w}) \union {c}
        BY <1>4, <4>1, <4>2, <4>3
      <4> QED
        BY <4>4 DEF C
    <3> QED
      BY <3>4, <3>6
  <2>15. CASE ~Before(c, w)
    <3>1. <<c, w>> \notin R /\ <<w, c>> \in R
      BY <2>15 DEF StrictOrder
    <3>2. ~(Place(D, R, c) < n)
      <4>1. Place(D, R, w) < Place(D, R, c)
        BY <1>2, <3>1, PlaceOrder
      <4>2. Place(D, R, w) = n - 1
        BY <2>3, <2>10, <3>1
      <4> QED
        BY <2>11, <4>1, <4>2
    <3>3. ASSUME NEW x \in P
          PROVE  x \in Best(D, R, n) <=> x \in B
      <4>1. CASE <<c, x>> \in R
        <5>1. Place(D, R, x) = Place(P, R, x) + 1
          BY <2>10, <4>1
        <5>2. <<w, x>> \in R
          BY <3>1, <4>1 DEF StrictOrder
        <5>3. n - 1 < Place(P, R, x)
          BY <1>1, <2>3, <5>2, PlaceOrder
        <5>4. x \in Best(D, R, n) <=> Place(P, R, x) + 1 < n
          BY <2>12, <5>1
        <5>5. Place(P, R, x) \in Nat /\ (x \in B <=> Place(P, R, x) < n)
          BY <2>5
        <5> HIDE DEF D, B
        <5> QED
          BY <5>3, <5>4, <5>5
      <4>2. CASE <<c, x>> \notin R
        <5>1. Place(D, R, x) = Place(P, R, x)
          BY <2>10, <4>2
        <5> HIDE DEF D, B
        <5> QED
          BY <2>5, <2>12, <5>1
      <4> QED
        BY <4>1, <4>2
    <3>4. Push(B, n, c) = B
      BY <2>9, <2>15
    <3>5. Best(D, R, n) \subseteq D
      BY DEF Best
    <3>6. Best(D, R, n) = B
      <4> DEFINE C == Best(D, R, n)
      <4>1. c \notin C
        BY <2>13, <3>2
      <4>2. \A x \in P : x \in C <=> x \in B
        BY <3>3
      <4>3. C \subseteq P \union {c}
        BY <3>5
      <4> HIDE DEF C, B, D
      <4>4. C = B
        BY <1>4, <4>1, <4>2, <4>3
      <4> QED
        BY <4>4 DEF C
    <3> QED
      BY <3>4, <3>6
  <2> QED
    BY <2>14, <2>15
<1> QED
  BY <1>3, <1>5, <1>6

\* The order of scored rows, as a relation on a set of them.
Earlier(S) == {p \in S \X S : Before(p[1], p[2])}

\* Scored rows: numbers, and one score of each row.
ScoredSet(S) ==
    /\ S \subseteq [row : Nat, score : Int]
    /\ \A x, y \in S : x.row = y.row => x = y

\* Scored rows are ordered: of equal scores the lower row is first.
LEMMA ScoreOrder ==
    ASSUME NEW S, ScoredSet(S)
    PROVE  /\ StrictOrder(S, Earlier(S))
           /\ \A x, y \in S : <<x, y>> \in Earlier(S) <=> Before(x, y)
<1>1. \A x, y \in S : <<x, y>> \in Earlier(S) <=> Before(x, y)
  BY DEF Earlier
<1>2. \A x \in S : ~Before(x, x)
  BY DEF Before, ScoredSet
<1>3. ASSUME NEW x \in S, NEW y \in S, NEW z \in S, Before(x, y), Before(y, z)
      PROVE  Before(x, z)
  <2>1. /\ x.row \in Nat /\ x.score \in Int /\ y.row \in Nat /\ y.score \in Int
        /\ z.row \in Nat /\ z.score \in Int
    BY DEF ScoredSet
  <2> QED
    BY <1>3, <2>1 DEF Before
<1>4. ASSUME NEW x \in S, NEW y \in S, x # y
      PROVE  Before(x, y) \/ Before(y, x)
  <2>1. x.row \in Nat /\ x.score \in Int /\ y.row \in Nat /\ y.score \in Int /\ x.row # y.row
    BY <1>4 DEF ScoredSet
  <2> QED
    BY <2>1 DEF Before
<1> QED
  BY <1>1, <1>2, <1>3, <1>4 DEF StrictOrder

\* An index: the chunk of every row, and live rows it has.
IndexOK(ix) ==
    /\ ix.rows \in Seq(Chunks)
    /\ ix.live \subseteq 0 .. (Len(ix.rows) - 1)

QueryOK(query) ==
    query \in [lexical : [Chunks -> Int], dense : [Chunks -> Int \union {NaN}]]

\* The live rows below row n, with their scores; no score is left out.
ScoredBelow(ix, query, n) == {Scored(ix, query, row) : row \in {r \in ix.live : r < n}}
ScoredLive(ix, query) == {Scored(ix, query, row) : row \in ix.live}
AllFinite(ix, query) == \A row \in ix.live : Scored(ix, query, row).score # NaN

\* The scores of the live rows of an index.
LEMMA ScoredLiveFacts ==
    ASSUME NEW ix, NEW query, IndexOK(ix), QueryOK(query), AllFinite(ix, query)
    PROVE  /\ IsFiniteSet(ScoredLive(ix, query))
           /\ ScoredSet(ScoredLive(ix, query))
           /\ \A row \in ix.live : /\ row \in Nat
                                   /\ Scored(ix, query, row).row = row
                                   /\ ix.rows[row + 1] \in Chunks
                                   /\ Scored(ix, query, row).score =
                                         query.dense[ix.rows[row + 1]]
<1> DEFINE L == ix.live
<1>1. Len(ix.rows) \in Nat /\ \A i \in 1 .. Len(ix.rows) : ix.rows[i] \in Chunks
  BY DEF IndexOK
<1>2. IsFiniteSet(L)
  <2>1. L \in SUBSET (0 .. (Len(ix.rows) - 1)) /\ Len(ix.rows) - 1 \in Int
    BY <1>1 DEF IndexOK
  <2>2. IsFiniteSet(0 .. (Len(ix.rows) - 1))
    BY <2>1, FS_Interval
  <2> QED
    BY <2>1, <2>2, FS_Subset
<1>3. ASSUME NEW row \in L
      PROVE  /\ row \in Nat
             /\ ix.rows[row + 1] \in Chunks
             /\ Scored(ix, query, row).row = row
             /\ Scored(ix, query, row).score = query.dense[ix.rows[row + 1]]
             /\ Scored(ix, query, row).score \in Int
  <2>1. row \in 0 .. (Len(ix.rows) - 1)
    BY DEF IndexOK
  <2>2. row \in Nat /\ ix.rows[row + 1] \in Chunks
    BY <1>1, <2>1
  <2>3. /\ Scored(ix, query, row).row = row
        /\ Scored(ix, query, row).score = query.dense[ix.rows[row + 1]]
    BY DEF Scored
  <2>4. query.dense[ix.rows[row + 1]] \in Int \union {NaN}
    BY <2>2 DEF QueryOK
  <2>5. Scored(ix, query, row).score # NaN
    BY DEF AllFinite
  <2> QED
    BY <2>2, <2>3, <2>4, <2>5
<1> DEFINE f == [row \in L |-> Scored(ix, query, row)]
<1>4. f \in Surjection(L, ScoredLive(ix, query))
  BY DEF Surjection, ScoredLive
<1>5. IsFiniteSet(ScoredLive(ix, query))
  BY <1>2, <1>4, FS_Surjection
<1>6. ScoredSet(ScoredLive(ix, query))
  <2>1. ASSUME NEW x \in ScoredLive(ix, query)
        PROVE  /\ x.row \in L /\ x.row \in Nat /\ x.score \in Int
               /\ x = Scored(ix, query, x.row)
               /\ x \in [row : Nat, score : Int]
    <3>1. PICK row \in L : x = Scored(ix, query, row)
      BY DEF ScoredLive
    <3>2. /\ x.row \in L /\ x.row \in Nat /\ x.score \in Int
          /\ x = Scored(ix, query, x.row)
      BY <1>3, <3>1
    <3>3. x = [row |-> row, score |-> query.dense[ix.rows[row + 1]]]
      BY <3>1 DEF Scored
    <3> QED
      BY <3>2, <3>3
  <2> QED
    BY <2>1 DEF ScoredSet
<1> QED
  BY <1>3, <1>5, <1>6

\* select_scores keeps the best `limit` of the live rows, in one pass: after n
\* rows the heap holds the best of those.
LEMMA SelectedIsBest ==
    ASSUME NEW ix, NEW query, NEW limit \in Nat, limit > 0,
           IndexOK(ix), QueryOK(query), AllFinite(ix, query)
    PROVE  Selected(ix, query, limit) =
              Best(ScoredLive(ix, query), Earlier(ScoredLive(ix, query)), limit)
<1> DEFINE S == ScoredLive(ix, query)
           R == Earlier(S)
           N == Len(ix.rows)
           Below(n) == ScoredBelow(ix, query, n)
           Step(t, n) == IF n = 0 THEN {}
                         ELSE IF n - 1 \notin ix.live THEN t[n - 1]
                         ELSE Push(t[n - 1], limit, Scored(ix, query, n - 1))
           g == [n \in 0 .. N |-> Best(Below(n), R, limit)]
<1>1. /\ IsFiniteSet(S) /\ StrictOrder(S, R)
      /\ \A x, y \in S : <<x, y>> \in R <=> Before(x, y)
  BY ScoredLiveFacts, ScoreOrder
<1>2. N \in Nat /\ \A r \in ix.live : r \in 0 .. (N - 1)
  BY DEF IndexOK
<1>3. \A n \in 0 .. N : Below(n) \in SUBSET S
  BY DEF ScoredBelow, ScoredLive
<1>4. ASSUME NEW n \in 0 .. N
      PROVE  g[n] = Step(g, n)
  <2>1. CASE n = 0
    <3>1. Below(0) = {}
      BY <1>2 DEF ScoredBelow
    <3> QED
      BY <2>1, <3>1 DEF Best
  <2>2. CASE n # 0 /\ n - 1 \notin ix.live
    <3>1. {r \in ix.live : r < n} = {r \in ix.live : r < n - 1}
      BY <1>2, <2>2
    <3>2. Below(n) = Below(n - 1)
      BY <3>1 DEF ScoredBelow
    <3>3. n - 1 \in 0 .. N
      BY <1>2, <2>2
    <3> QED
      BY <2>2, <3>2, <3>3
  <2>3. CASE n # 0 /\ n - 1 \in ix.live
    <3> DEFINE c == Scored(ix, query, n - 1)
    <3>1. n - 1 \in 0 .. N
      BY <1>2, <2>3
    <3>2. Below(n) = Below(n - 1) \union {c}
      <4>1. ASSUME NEW r \in ix.live
            PROVE  r < n <=> r < n - 1 \/ r = n - 1
        BY <1>2
      <4> QED
        BY <2>3, <4>1 DEF ScoredBelow
    <3>3. c \notin Below(n - 1)
      <4>1. SUFFICES ASSUME c \in Below(n - 1)
                     PROVE  FALSE
        OBVIOUS
      <4>2. PICK r \in ix.live : r < n - 1 /\ c = Scored(ix, query, r)
        BY <4>1 DEF ScoredBelow
      <4>3. c.row = r /\ c.row = n - 1
        BY <4>2 DEF Scored
      <4> QED
        BY <1>2, <4>2, <4>3
    <3>4. IsFiniteSet(Below(n - 1))
      BY <1>1, <1>3, <3>1, FS_Subset
    <3>5. Below(n - 1) \union {c} \in SUBSET S
      BY <1>3, <3>2
    <3>6. StrictOrder(Below(n - 1) \union {c}, R)
      BY <1>1, <3>5, OrderedPart
    <3>7. \A x, y \in Below(n - 1) \union {c} : <<x, y>> \in R <=> Before(x, y)
      BY <1>1, <3>5
    <3> HIDE DEF Below, R, S, c
    <3>8. Push(Best(Below(n - 1), R, limit), limit, c)
             = Best(Below(n - 1) \union {c}, R, limit)
      BY <3>3, <3>4, <3>6, <3>7, PushKeepsBest
    <3>9. g[n] = Best(Below(n - 1) \union {c}, R, limit)
          /\ g[n - 1] = Best(Below(n - 1), R, limit)
      BY <3>1, <3>2
    <3> HIDE DEF g
    <3>10. Step(g, n) = Push(g[n - 1], limit, c)
      BY <2>3 DEF c
    <3> QED
      BY <3>8, <3>9, <3>10
  <2> QED
    BY <2>1, <2>2, <2>3
<1>5. g = [n \in 0 .. N |-> Step(g, n)]
  <2>1. g = [n \in 0 .. N |-> g[n]]
    OBVIOUS
  <2> HIDE DEF g, Step
  <2> QED
    BY <1>4, <2>1
<1>6. ASSUME NEW t, t = [n \in 0 .. N |-> Step(t, n)]
      PROVE  t = g
  <2> DEFINE T == {n \in 0 .. N : t[n] # g[n]}
  <2>1. CASE T = {}
    <3>1. \A n \in 0 .. N : t[n] = g[n]
      BY <2>1
    <3>2. t = [n \in 0 .. N |-> t[n]] /\ g = [n \in 0 .. N |-> g[n]]
      <4> HIDE DEF Step
      <4> QED
        BY <1>6
    <3> HIDE DEF g
    <3> QED
      BY <3>1, <3>2
  <2>2. CASE T # {}
    <3>1. T \in SUBSET Nat
      BY <1>2
    <3>2. PICK n \in T : \A y \in T : n <= y
      BY <2>2, <3>1, LeastNumber
    <3>3. n \in 0 .. N /\ t[n] # g[n]
      BY <3>2
    <3>4. t[n] = Step(t, n) /\ g[n] = Step(g, n)
      <4> HIDE DEF Step, g
      <4> QED
        BY <1>4, <1>6, <3>3
    <3>5. n # 0 => t[n - 1] = g[n - 1]
      <4>1. n # 0 => n - 1 \in 0 .. N /\ ~(n <= n - 1)
        BY <1>2, <3>3
      <4> HIDE DEF g
      <4> QED
        BY <3>2, <4>1
    <3> HIDE DEF g
    <3>6. Step(t, n) = Step(g, n)
      BY <3>5
    <3> QED
      BY <3>3, <3>4, <3>6
  <2> QED
    BY <2>1, <2>2
<1>7. (CHOOSE t : t = [n \in 0 .. N |-> Step(t, n)]) = g
  <2> HIDE DEF Step, g
  <2> QED
    BY <1>5, <1>6
<1>8. Selected(ix, query, limit) = (CHOOSE t : t = [n \in 0 .. N |-> Step(t, n)])[N]
  BY Zenon DEF Selected
<1>9. g[N] = Best(Below(N), R, limit)
  BY <1>2
<1>10. Below(N) = S
  <2>1. {r \in ix.live : r < N} = ix.live
    BY <1>2
  <2> QED
    BY <2>1 DEF ScoredBelow, ScoredLive
<1> HIDE DEF g, Step
<1> QED
  BY <1>7, <1>8, <1>9, <1>10

\* The best n of a set of scored rows, as the retrievers return them: rows of
\* the set, at most n, no row twice.
RankingOf(list, S, n) ==
    /\ list \in Seq(S)
    /\ Len(list) <= n
    /\ \A i, j \in 1 .. Len(list) : list[i].row = list[j].row => i = j

\* The first n of a ranking.
LEMMA TakeRanked ==
    ASSUME NEW S, NEW n \in Nat, IsFiniteSet(S), ScoredSet(S)
    PROVE  /\ RankingOf(Take(n, Ranked(S)), S, n)
           /\ Ranked(S) = Ordered(S, Earlier(S))
           /\ \A x \in S : Place(S, Earlier(S), x) < n =>
                 \E i \in 1 .. Len(Take(n, Ranked(S))) : Take(n, Ranked(S))[i] = x
<1> DEFINE R == Earlier(S)
           s == Ordered(S, R)
           t == Take(n, s)
<1>1. StrictOrder(S, R)
  BY ScoreOrder
<1>2. Ranked(S) = s
  BY DEF Ranked, Earlier
<1>3. /\ s \in Seq(S) /\ Cardinality(S) \in Nat /\ Len(s) = Cardinality(S)
      /\ \A i \in 1 .. Cardinality(S) : s[i] \in S
      /\ \A x \in S : /\ Place(S, R, x) + 1 \in 1 .. Cardinality(S)
                      /\ s[Place(S, R, x) + 1] = x
      /\ \A i, j \in 1 .. Cardinality(S) : i < j <=> <<s[i], s[j]>> \in R
  BY <1>1, OrderedFacts
<1> HIDE DEF s
<1>4. /\ t \in Seq(S) /\ Len(t) = (IF n < Len(s) THEN n ELSE Len(s))
      /\ \A i \in 1 .. Len(t) : i \in 1 .. Len(s) /\ t[i] = s[i]
  <2>1. t \in Seq(S) /\ Len(t) = (IF n < Len(s) THEN n ELSE Len(s))
    BY <1>3, TakeFacts
  <2>2. \A i \in DOMAIN t : i \in DOMAIN s /\ t[i] = s[i]
    BY <1>3, TakeFacts
  <2>3. DOMAIN t = 1 .. Len(t) /\ DOMAIN s = 1 .. Len(s)
    BY <1>3, <2>1
  <2> QED
    BY <2>1, <2>2, <2>3
<1> HIDE DEF t
<1>5. Len(t) <= n /\ Len(t) \in Nat
  BY <1>3, <1>4
<1>6. ASSUME NEW i \in 1 .. Len(t), NEW j \in 1 .. Len(t), t[i].row = t[j].row
      PROVE  i = j
  <2>1. /\ i \in 1 .. Cardinality(S) /\ j \in 1 .. Cardinality(S)
        /\ t[i] = s[i] /\ t[j] = s[j] /\ s[i] \in S /\ s[j] \in S
    BY <1>3, <1>4
  <2>2. s[i] = s[j]
    BY <1>6, <2>1 DEF ScoredSet
  <2>3. ~(i < j) /\ ~(j < i)
    BY <1>1, <1>3, <2>1, <2>2 DEF StrictOrder
  <2> QED
    BY <2>1, <2>3
<1>7. ASSUME NEW x \in S, Place(S, R, x) < n
      PROVE  \E i \in 1 .. Len(t) : t[i] = x
  <2> DEFINE k == Place(S, R, x) + 1
  <2>1. k \in 1 .. Len(s) /\ s[k] = x
    BY <1>3
  <2>2. Place(S, R, x) \in Int
    BY <1>1, PlaceType
  <2>3. k <= n
    BY <1>7, <2>2
  <2> HIDE DEF k
  <2>4. k \in 1 .. Len(t)
    BY <1>3, <1>4, <2>1, <2>3
  <2> QED
    BY <1>4, <2>1, <2>4
<1> QED
  BY <1>2, <1>4, <1>5, <1>6, <1>7 DEF RankingOf, t, s

\* DenseIndex::search returns what reference_search does, or fails because a
\* live row has no finite score.
LEMMA DenseExact ==
    ASSUME NEW ix, NEW query, NEW limit \in Nat, IndexOK(ix), QueryOK(query)
    PROVE  /\ limit = 0 => DenseSearch(ix, query, limit) = Ok(<<>>)
           /\ limit > 0 /\ AllFinite(ix, query) =>
                 DenseSearch(ix, query, limit) = Ok(ReferenceSearch(ix, query, limit))
           /\ limit > 0 /\ ~AllFinite(ix, query) =>
                 DenseSearch(ix, query, limit) = Failed
<1>1. CASE limit = 0
  BY <1>1 DEF DenseSearch
<1>2. CASE limit > 0 /\ ~AllFinite(ix, query)
  BY <1>2 DEF DenseSearch, AllFinite
<1>3. CASE limit > 0 /\ AllFinite(ix, query)
  <2> DEFINE S == ScoredLive(ix, query)
             R == Earlier(S)
             U == Best(S, R, limit)
  <2>1. IsFiniteSet(S) /\ ScoredSet(S)
    BY <1>3, ScoredLiveFacts
  <2>2. StrictOrder(S, R)
    BY <2>1, ScoreOrder
  <2>3. U \in SUBSET S
    BY DEF Best
  <2>4. IsFiniteSet(U) /\ Cardinality(U) \in Nat /\ Cardinality(U) <= limit
    BY <2>1, <2>2, BestSize
  <2>5. ScoredSet(U)
    BY <2>1, <2>3 DEF ScoredSet
  <2>6. StrictOrder(U, Earlier(U))
    BY <2>5, ScoreOrder
  <2>7. \A x, y \in U : <<x, y>> \in Earlier(U) <=> <<x, y>> \in R
    BY <2>3 DEF Earlier
  <2> HIDE DEF U, R, S
  <2>8. Take(limit, Ordered(U, Earlier(U))) = Take(limit, Ordered(S, R))
    BY <2>1, <2>2, <2>3, <2>7, TopOfPart DEF U
  <2>9. Ordered(U, Earlier(U)) \in Seq(U) /\ Len(Ordered(U, Earlier(U))) <= limit
    BY <2>4, <2>6, OrderedFacts
  <2>10. Take(limit, Ordered(U, Earlier(U))) = Ordered(U, Earlier(U))
    BY <2>9, TakeFacts
  <2>11. Ranked(U) = Ordered(U, Earlier(U)) /\ Ranked(S) = Ordered(S, R)
    BY DEF Ranked, Earlier, R
  <2>12. Selected(ix, query, limit) = U
    BY <1>3, SelectedIsBest DEF U, R, S
  <2>13. DenseSearch(ix, query, limit) = Ok(Ranked(U))
    BY <1>3, <2>12 DEF DenseSearch, AllFinite
  <2>14. ReferenceSearch(ix, query, limit) = Take(limit, Ranked(S))
    BY DEF ReferenceSearch, S, ScoredLive
  <2>15. DenseSearch(ix, query, limit) = Ok(ReferenceSearch(ix, query, limit))
    BY <2>8, <2>10, <2>11, <2>13, <2>14
  <2>16. limit # 0
    BY <1>3
  <2> QED
    BY <1>3, <2>15, <2>16
<1> QED
  BY <1>1, <1>2, <1>3
-----------------------------------------------------------------------------
(***************************************************************************)
(* The lexical retriever.                                                  *)
(***************************************************************************)

\* Documents: one for each row.
DocsOK(docs) ==
    /\ IsFiniteSet(docs)
    /\ \A d \in docs : d.row \in Nat /\ d.chunk \in Chunks
    /\ \A d, e \in docs : d.row = e.row => d = e

\* The documents a query hits are scored rows.
LEMMA HitsFacts ==
    ASSUME NEW docs, NEW query, DocsOK(docs), QueryOK(query)
    PROVE  /\ IsFiniteSet(Hits(docs, query))
           /\ ScoredSet(Hits(docs, query))
           /\ \A x \in Hits(docs, query) : \E d \in docs :
                 /\ x.row = d.row
                 /\ x.score = query.lexical[d.chunk]
                 /\ x = [row |-> d.row, score |-> query.lexical[d.chunk]]
                 /\ query.lexical[d.chunk] > 0
<1> DEFINE H == Hits(docs, query)
           D == {e \in docs : query.lexical[e.chunk] > 0}
           f == [d \in D |-> [row |-> d.row, score |-> query.lexical[d.chunk]]]
<1>1. IsFiniteSet(D)
  <2>1. D \in SUBSET docs
    OBVIOUS
  <2> QED
    BY <2>1, FS_Subset DEF DocsOK
<1>2. f \in Surjection(D, H)
  BY DEF Surjection, Hits
<1>3. IsFiniteSet(H)
  BY <1>1, <1>2, FS_Surjection
<1>4. ASSUME NEW x \in H
      PROVE  \E d \in docs : /\ x.row = d.row
                             /\ x.score = query.lexical[d.chunk]
                             /\ x = [row |-> d.row, score |-> query.lexical[d.chunk]]
                             /\ query.lexical[d.chunk] > 0
  BY DEF Hits
<1>5. ScoredSet(H)
  <2>1. ASSUME NEW x \in H
        PROVE  x \in [row : Nat, score : Int]
    <3>1. PICK d \in docs : x = [row |-> d.row, score |-> query.lexical[d.chunk]]
      BY <1>4
    <3> QED
      BY <3>1 DEF DocsOK, QueryOK
  <2>2. ASSUME NEW x \in H, NEW y \in H, x.row = y.row
        PROVE  x = y
    <3>1. PICK d \in docs : /\ x.row = d.row
                            /\ x = [row |-> d.row, score |-> query.lexical[d.chunk]]
      BY <1>4
    <3>2. PICK e \in docs : /\ y.row = e.row
                            /\ y = [row |-> e.row, score |-> query.lexical[e.chunk]]
      BY <1>4
    <3>3. d = e
      BY <2>2, <3>1, <3>2 DEF DocsOK
    <3> QED
      BY <3>1, <3>2, <3>3
  <2> QED
    BY <2>1, <2>2 DEF ScoredSet
<1> QED
  BY <1>3, <1>4, <1>5

\* LexicalSearchHandle::search returns what sorting every hit would, however
\* the documents are spread over segments.
LEMMA LexicalExact ==
    ASSUME NEW docs, NEW query, NEW limit \in Nat, DocsOK(docs), QueryOK(query)
    PROVE  LexicalSearch(docs, query, limit)
              = Ok(Take(limit, Ranked(Hits(docs, query))))
<1> DEFINE S == Hits(docs, query)
           R == Earlier(S)
           Seg(d) == {e \in docs : e.segment = d.segment}
           SegHits(d) == Hits(Seg(d), query)
           U == UNION {ToSet(Take(limit, Ranked(SegHits(d)))) : d \in docs}
<1>1. IsFiniteSet(S) /\ ScoredSet(S)
  BY HitsFacts
<1>2. StrictOrder(S, R)
  BY <1>1, ScoreOrder
<1>3. CASE limit = 0
  <2>1. LexicalSearch(docs, query, limit) = Ok(<<>>)
    BY <1>3 DEF LexicalSearch
  <2>2. Take(limit, Ranked(S)) \in Seq(S) /\ Len(Take(limit, Ranked(S))) <= limit
    BY <1>1, TakeRanked DEF RankingOf
  <2>3. Take(limit, Ranked(S)) = <<>>
    BY <1>3, <2>2
  <2> QED
    BY <2>1, <2>3
<1>4. CASE limit # 0
  <2>1. LexicalSearch(docs, query, limit) = Ok(Take(limit, Ranked(U)))
    BY <1>4 DEF LexicalSearch, Harvest
  <2>2. ASSUME NEW d \in docs
        PROVE  /\ SegHits(d) \in SUBSET S
               /\ IsFiniteSet(SegHits(d)) /\ ScoredSet(SegHits(d))
    <3>1. SegHits(d) \in SUBSET S
      BY DEF Hits
    <3> HIDE DEF S
    <3> QED
      BY <1>1, <3>1, FS_Subset DEF ScoredSet
  <2>3. U \in SUBSET S
    <3> SUFFICES ASSUME NEW d \in docs, NEW x \in ToSet(Take(limit, Ranked(SegHits(d))))
                 PROVE  x \in S
      OBVIOUS
    <3>1. Take(limit, Ranked(SegHits(d))) \in Seq(SegHits(d))
      BY <2>2, TakeRanked DEF RankingOf
    <3>2. x \in SegHits(d)
      BY <3>1 DEF ToSet
    <3> QED
      BY <2>2, <3>2
  <2>4. Best(S, R, limit) \subseteq U
    <3> SUFFICES ASSUME NEW x \in S, Place(S, R, x) < limit
                 PROVE  x \in U
      BY DEF Best
    <3>1. PICK d \in docs : /\ x = [row |-> d.row, score |-> query.lexical[d.chunk]]
                            /\ query.lexical[d.chunk] > 0
      BY HitsFacts
    <3> DEFINE V == SegHits(d)
               Q == Earlier(V)
    <3>2. x \in V
      BY <3>1 DEF Hits
    <3>3. V \in SUBSET S /\ IsFiniteSet(V) /\ ScoredSet(V)
      BY <2>2
    <3>4. Ahead(V, Q, x) \in SUBSET Ahead(S, R, x)
      BY <3>2, <3>3 DEF Ahead, Earlier
    <3>5. IsFiniteSet(Ahead(S, R, x)) /\ Place(S, R, x) \in Int
      BY <1>1, <1>2, PlaceType
    <3>6. StrictOrder(V, Q)
      BY <3>3, ScoreOrder
    <3>7. Place(V, Q, x) \in Int
      BY <3>2, <3>3, <3>6, PlaceType
    <3>8. Place(V, Q, x) <= Place(S, R, x)
      BY <3>4, <3>5, FS_Subset DEF Place
    <3>9. Place(V, Q, x) < limit
      BY <3>5, <3>7, <3>8
    <3> DEFINE t == Take(limit, Ranked(V))
    <3>10. \E i \in 1 .. Len(t) : t[i] = x
      BY <3>2, <3>3, <3>9, TakeRanked
    <3>11. t \in Seq(V)
      BY <3>3, TakeRanked DEF RankingOf
    <3>12. x \in ToSet(t)
      <4> HIDE DEF t
      <4> QED
        BY <3>10, <3>11 DEF ToSet
    <3> QED
      BY <3>12
  <2>5. \A x, y \in U : <<x, y>> \in Earlier(U) <=> <<x, y>> \in R
    BY <2>3 DEF Earlier
  <2> HIDE DEF U, S, R
  <2>6. Take(limit, Ordered(U, Earlier(U))) = Take(limit, Ordered(S, R))
    BY <1>1, <1>2, <2>3, <2>4, <2>5, TopOfPart
  <2>7. Ranked(U) = Ordered(U, Earlier(U)) /\ Ranked(S) = Ordered(S, R)
    BY DEF Ranked, Earlier, R
  <2>8. LexicalSearch(docs, query, limit) = Ok(Take(limit, Ranked(S)))
    BY <2>1, <2>6, <2>7
  <2> QED
    BY <2>8 DEF S
<1> QED
  BY <1>3, <1>4

-----------------------------------------------------------------------------
(***************************************************************************)
(* Fusion.                                                                 *)
(***************************************************************************)

\* Comparing fractions with positive denominators is transitive.
LEMMA FractionsTransitive ==
    ASSUME NEW a1 \in Nat, NEW a2 \in Nat, NEW b1 \in Nat, NEW b2 \in Nat,
           NEW c1 \in Nat, NEW c2 \in Nat, a2 > 0, b2 > 0, c2 > 0,
           a1 * b2 >= b1 * a2, b1 * c2 >= c1 * b2
    PROVE  /\ a1 * c2 >= c1 * a2
           /\ a1 * b2 > b1 * a2 \/ b1 * c2 > c1 * b2 => a1 * c2 > c1 * a2
           /\ a1 * b2 = b1 * a2 /\ b1 * c2 = c1 * b2 => a1 * c2 = c1 * a2
<1> DEFINE x == a1 * b2
           y == b1 * a2
           u == b1 * c2
           v == c1 * b2
           p == a1 * c2
           q == c1 * a2
<1>1. x \in Int /\ y \in Int /\ u \in Int /\ v \in Int /\ p \in Int /\ q \in Int
  OBVIOUS
<1>2. x * c2 = p * b2 /\ y * c2 = u * a2 /\ v * a2 = q * b2
  OBVIOUS
<1>3. x >= y /\ u >= v
  OBVIOUS
<1> HIDE DEF x, y, u, v, p, q
<1>4. x * c2 >= y * c2 /\ u * a2 >= v * a2
  BY <1>1, <1>3
<1>5. x * c2 \in Int /\ y * c2 \in Int /\ u * a2 \in Int /\ v * a2 \in Int
      /\ p * b2 \in Int /\ q * b2 \in Int
  BY <1>1
<1>6. p * b2 >= q * b2
  BY <1>2, <1>4, <1>5
<1>7. p >= q
  BY <1>1, <1>6
<1>8. ASSUME x > y \/ u > v
      PROVE  p > q
  <2>1. x * c2 > y * c2 \/ u * a2 > v * a2
    BY <1>1, <1>8
  <2>2. p * b2 > q * b2
    BY <1>2, <1>4, <1>5, <2>1
  <2> QED
    BY <1>1, <1>7, <2>2
<1>9. ASSUME x = y, u = v
      PROVE  p = q
  <2>1. p * b2 = q * b2
    BY <1>2, <1>9
  <2> QED
    BY <1>1, <2>1
<1> QED
  BY <1>7, <1>8, <1>9 DEF x, y, u, v, p, q

\* Fused rows: a fraction of each row.
FusedSet(S) ==
    /\ \A x \in S : /\ x.row \in Nat
                    /\ x.fused[1] \in Nat /\ x.fused[2] \in Nat /\ x.fused[2] > 0
    /\ \A x, y \in S : x.row = y.row => x = y

FusedEarlier(S) == {p \in S \X S : FusedBefore(p[1], p[2])}

\* The order of fused rows is total, so the sort has one outcome whatever the
\* order in which the HashMap hands the rows over.
LEMMA FusedOrder ==
    ASSUME NEW S, FusedSet(S)
    PROVE  /\ StrictOrder(S, FusedEarlier(S))
           /\ \A x, y \in S : <<x, y>> \in FusedEarlier(S) <=> FusedBefore(x, y)
<1>1. \A x, y \in S : <<x, y>> \in FusedEarlier(S) <=> FusedBefore(x, y)
  BY DEF FusedEarlier
<1>2. \A x \in S : ~FusedBefore(x, x)
  <2> TAKE x \in S
  <2>1. x.fused[1] * x.fused[2] \in Int /\ x.row \in Nat
    BY DEF FusedSet
  <2> QED
    BY <2>1 DEF FusedBefore
<1>3. ASSUME NEW x \in S, NEW y \in S, NEW z \in S, FusedBefore(x, y), FusedBefore(y, z)
      PROVE  FusedBefore(x, z)
  <2>1. /\ x.row \in Nat /\ x.fused[1] \in Nat /\ x.fused[2] \in Nat /\ x.fused[2] > 0
        /\ y.row \in Nat /\ y.fused[1] \in Nat /\ y.fused[2] \in Nat /\ y.fused[2] > 0
        /\ z.row \in Nat /\ z.fused[1] \in Nat /\ z.fused[2] \in Nat /\ z.fused[2] > 0
    BY DEF FusedSet
  <2> DEFINE xy == x.fused[1] * y.fused[2]
             yx == y.fused[1] * x.fused[2]
             yz == y.fused[1] * z.fused[2]
             zy == z.fused[1] * y.fused[2]
             xz == x.fused[1] * z.fused[2]
             zx == z.fused[1] * x.fused[2]
  <2>2. xy \in Int /\ yx \in Int /\ yz \in Int /\ zy \in Int /\ xz \in Int /\ zx \in Int
    BY <2>1
  <2>3. xy > yx \/ (xy = yx /\ x.row < y.row)
    BY <1>3 DEF FusedBefore
  <2>4. yz > zy \/ (yz = zy /\ y.row < z.row)
    BY <1>3 DEF FusedBefore
  <2>5. xy >= yx /\ yz >= zy
    BY <2>2, <2>3, <2>4
  <2>6. (xy > yx \/ yz > zy => xz > zx) /\ (xy = yx /\ yz = zy => xz = zx)
    <3>1. PICK a1 \in Nat, a2 \in Nat, b1 \in Nat, b2 \in Nat, c1 \in Nat, c2 \in Nat :
             /\ a1 = x.fused[1] /\ a2 = x.fused[2] /\ b1 = y.fused[1] /\ b2 = y.fused[2]
             /\ c1 = z.fused[1] /\ c2 = z.fused[2]
      BY <2>1
    <3>2. a2 > 0 /\ b2 > 0 /\ c2 > 0 /\ a1 * b2 >= b1 * a2 /\ b1 * c2 >= c1 * b2
      BY <2>1, <2>5, <3>1
    <3>3. /\ a1 * b2 > b1 * a2 \/ b1 * c2 > c1 * b2 => a1 * c2 > c1 * a2
          /\ a1 * b2 = b1 * a2 /\ b1 * c2 = c1 * b2 => a1 * c2 = c1 * a2
      BY <3>2, FractionsTransitive
    <3> QED
      BY <3>1, <3>3
  <2> HIDE DEF xy, yx, yz, zy, xz, zx
  <2>7. xz > zx \/ (xz = zx /\ x.row < z.row)
    BY <2>1, <2>3, <2>4, <2>6
  <2> QED
    BY <2>7 DEF FusedBefore, xz, zx
<1>4. ASSUME NEW x \in S, NEW y \in S, x # y
      PROVE  FusedBefore(x, y) \/ FusedBefore(y, x)
  <2>1. /\ x.row \in Nat /\ y.row \in Nat /\ x.row # y.row
        /\ x.fused[1] * y.fused[2] \in Int /\ y.fused[1] * x.fused[2] \in Int
    BY <1>4 DEF FusedSet
  <2> QED
    BY <2>1 DEF FusedBefore
<1> QED
  BY <1>1, <1>2, <1>3, <1>4 DEF StrictOrder

\* A list a retriever returned.
ListOK(list) ==
    /\ list \in Seq([row : Nat, score : Int])
    /\ \A i, j \in 1 .. Len(list) : list[i].row = list[j].row => i = j

\* Its entries.
LEMMA ListElements ==
    ASSUME NEW list, ListOK(list)
    PROVE  /\ Len(list) \in Nat /\ DOMAIN list = 1 .. Len(list)
           /\ \A i \in 1 .. Len(list) : list[i] \in [row : Nat, score : Int]
<1> DEFINE E == [row : Nat, score : Int]
<1>1. list \in Seq(E)
  BY DEF ListOK
<1> HIDE DEF E
<1>2. /\ Len(list) \in Nat /\ DOMAIN list = 1 .. Len(list)
      /\ \A i \in 1 .. Len(list) : list[i] \in E
  BY <1>1
<1> QED
  BY <1>2 DEF E

Ranks == {None} \union (Nat \ {0})

\* What fusion records of a row: the place and the score it has in the list,
\* or that it is not there.
LEMMA ContributionFacts ==
    ASSUME NEW list, NEW row, ListOK(list)
    PROVE  LET c == ContributionOf(list, row)
           IN  /\ row \in RowsOf(list) =>
                     /\ c.rank \in 1 .. Len(list) /\ c.rank \in Nat \ {0}
                     /\ list[c.rank].row = row
                     /\ c.score = list[c.rank].score
                     /\ c.rank # None /\ c.score # None
               /\ row \notin RowsOf(list) => c.rank = None /\ c.score = None
               /\ c.rank \in Ranks
<1> DEFINE c == ContributionOf(list, row)
<1>1. DOMAIN list = 1 .. Len(list) /\ Len(list) \in Nat
  BY DEF ListOK
<1>2. CASE row \in RowsOf(list)
  <2>1. \E i \in DOMAIN list : list[i].row = row
    BY <1>2 DEF RowsOf
  <2>2. PICK r \in DOMAIN list : /\ r = CHOOSE i \in DOMAIN list : list[i].row = row
                                 /\ list[r].row = row
    BY <2>1
  <2>3. c = [rank |-> r, score |-> list[r].score]
    BY <2>1, <2>2 DEF ContributionOf
  <2>4. r \in 1 .. Len(list) /\ r \in Nat \ {0} /\ list[r].score \in Int
    <3>1. r \in 1 .. Len(list) /\ r \in Nat \ {0}
      BY <1>1, <2>2
    <3>2. \A i \in 1 .. Len(list) : list[i] \in [row : Nat, score : Int]
      BY ListElements
    <3> QED
      BY <3>1, <3>2
  <2>5. r # None /\ list[r].score # None
    BY <2>4, SearchAssumption
  <2> QED
    BY <1>2, <2>2, <2>3, <2>4, <2>5 DEF Ranks
<1>3. CASE row \notin RowsOf(list)
  <2>1. c = NoContribution
    BY <1>3 DEF ContributionOf, RowsOf
  <2> QED
    BY <1>3, <2>1 DEF NoContribution, Ranks
<1> QED
  BY <1>2, <1>3

\* The sum, as a fraction.
LEMMA FusedScoreIs ==
    ASSUME NEW lex, NEW den, lex.rank \in Ranks, den.rank \in Ranks
    PROVE  /\ lex.rank = None /\ den.rank = None => FusedScore(lex, den) = <<0, 1>>
           /\ lex.rank # None /\ den.rank = None =>
                 FusedScore(lex, den) = <<1, RrfK + lex.rank>>
           /\ lex.rank = None /\ den.rank # None =>
                 FusedScore(lex, den) = <<1, RrfK + den.rank>>
           /\ lex.rank # None /\ den.rank # None =>
                 FusedScore(lex, den) = <<(RrfK + den.rank) + (RrfK + lex.rank),
                                          (RrfK + lex.rank) * (RrfK + den.rank)>>
           /\ FusedScore(lex, den)[1] \in Nat
           /\ FusedScore(lex, den)[2] \in Nat
           /\ FusedScore(lex, den)[2] > 0
<1>1. RrfK \in Nat
  BY SearchAssumption
<1>2. CASE lex.rank = None /\ den.rank = None
  BY <1>2 DEF FusedScore, AddReciprocal
<1>3. CASE lex.rank # None /\ den.rank = None
  <2>1. lex.rank \in Nat /\ lex.rank > 0
    BY <1>3 DEF Ranks
  <2> QED
    BY <1>1, <1>3, <2>1 DEF FusedScore, AddReciprocal
<1>4. CASE lex.rank = None /\ den.rank # None
  <2>1. den.rank \in Nat /\ den.rank > 0
    BY <1>4 DEF Ranks
  <2> QED
    BY <1>1, <1>4, <2>1 DEF FusedScore, AddReciprocal
<1>5. CASE lex.rank # None /\ den.rank # None
  <2>1. PICK p \in Nat, q \in Nat : p = RrfK + lex.rank /\ q = RrfK + den.rank
                                    /\ p > 0 /\ q > 0
    <3>1. lex.rank \in Nat /\ lex.rank > 0 /\ den.rank \in Nat /\ den.rank > 0
      BY <1>5 DEF Ranks
    <3> QED
      BY <1>1, <3>1
  <2>2. AddReciprocal(<<0, 1>>, lex.rank) = <<1, p>>
    BY <1>5, <2>1 DEF AddReciprocal
  <2>3. FusedScore(lex, den) = <<q + p, p * q>>
    BY <1>5, <2>1, <2>2 DEF FusedScore, AddReciprocal
  <2>4. q + p \in Nat /\ p * q \in Nat /\ p * q > 0
    BY <2>1
  <2> QED
    BY <1>5, <2>1, <2>3, <2>4
<1> QED
  BY <1>2, <1>3, <1>4, <1>5

\* Reciprocals: what stands better with one retriever, and no worse with the
\* other, has the larger sum.
LEMMA Reciprocals ==
    ASSUME NEW x \in Nat, NEW y \in Nat, NEW u \in Nat, NEW v \in Nat,
           0 < x, x < u, 0 < y
    PROVE  /\ 1 * u > 1 * x
           /\ (y + x) * u > 1 * (x * y) /\ (x + y) * u > 1 * (y * x)
           /\ y < v => (y + x) * (u * v) > (v + u) * (x * y)
<1>1. y * u > y * x /\ x * u \in Int /\ x * u > 0
  OBVIOUS
<1>2. (y + x) * u = x * u + y * u /\ 1 * (x * y) = y * x
  OBVIOUS
<1>3. (y + x) * u > 1 * (x * y)
  BY <1>1, <1>2
<1>4. (x + y) * u > 1 * (y * x)
  BY <1>3
<1>5. ASSUME y < v
      PROVE  (y + x) * (u * v) > (v + u) * (x * y)
  <2>1. (x * u) * v > (x * u) * y
    BY <1>5
  <2>2. (y * v) * u > (y * v) * x
    BY <1>5
  <2>3. (y + x) * (u * v) = (x * u) * v + (y * v) * u
    OBVIOUS
  <2>4. (v + u) * (x * y) = (x * u) * y + (y * v) * x
    OBVIOUS
  <2>5. (x * u) * v \in Int /\ (x * u) * y \in Int /\ (y * v) * u \in Int /\ (y * v) * x \in Int
    OBVIOUS
  <2> QED
    BY <2>1, <2>2, <2>3, <2>4, <2>5
<1> QED
  BY <1>3, <1>4, <1>5

\* A row that stands at least as well as another with both retrievers, and is
\* not the same row, has the larger fused score.
LEMMA BetterSum ==
    ASSUME NEW la, NEW da, NEW lb, NEW db,
           la.rank \in Ranks, da.rank \in Ranks, lb.rank \in Ranks, db.rank \in Ranks,
           AtLeastAs(la, lb), AtLeastAs(da, db),
           lb.rank # None => la.rank # lb.rank,
           db.rank # None => da.rank # db.rank,
           lb.rank # None \/ db.rank # None
    PROVE  FusedScore(la, da)[1] * FusedScore(lb, db)[2]
              > FusedScore(lb, db)[1] * FusedScore(la, da)[2]
<1>1. RrfK \in Nat
  BY SearchAssumption
<1>2. \A r \in Ranks : r # None => r \in Nat /\ r > 0
  BY DEF Ranks
<1>3. lb.rank # None => la.rank # None /\ la.rank < lb.rank
  BY <1>2 DEF AtLeastAs
<1>4. db.rank # None => da.rank # None /\ da.rank < db.rank
  BY <1>2 DEF AtLeastAs
<1>5. CASE lb.rank # None /\ db.rank # None
  <2>1. PICK x \in Nat, y \in Nat, u \in Nat, v \in Nat :
           /\ x = RrfK + la.rank /\ y = RrfK + da.rank /\ 0 < x /\ 0 < y
           /\ u = RrfK + lb.rank /\ v = RrfK + db.rank /\ x < u /\ y < v
    BY <1>1, <1>2, <1>3, <1>4, <1>5
  <2>2. FusedScore(la, da) = <<y + x, x * y>> /\ FusedScore(lb, db) = <<v + u, u * v>>
    BY <1>3, <1>4, <1>5, <2>1, FusedScoreIs
  <2>3. (y + x) * (u * v) > (v + u) * (x * y)
    BY <2>1, Reciprocals
  <2> QED
    BY <2>2, <2>3
<1>6. CASE lb.rank # None /\ db.rank = None
  <2>1. PICK x \in Nat, u \in Nat :
           x = RrfK + la.rank /\ 0 < x /\ u = RrfK + lb.rank /\ x < u
    BY <1>1, <1>2, <1>3, <1>6
  <2>2. FusedScore(lb, db) = <<1, u>>
    BY <1>6, <2>1, FusedScoreIs
  <2>3. CASE da.rank = None
    <3>1. FusedScore(la, da) = <<1, x>>
      BY <1>3, <1>6, <2>1, <2>3, FusedScoreIs
    <3> QED
      BY <2>1, <2>2, <3>1
  <2>4. CASE da.rank # None
    <3>1. PICK y \in Nat : y = RrfK + da.rank /\ 0 < y
      BY <1>1, <1>2, <2>4
    <3>2. FusedScore(la, da) = <<y + x, x * y>>
      BY <1>3, <1>6, <2>1, <2>4, <3>1, FusedScoreIs
    <3>3. (y + x) * u > 1 * (x * y)
      BY <2>1, <3>1, Reciprocals
    <3> QED
      BY <2>2, <3>2, <3>3
  <2> QED
    BY <2>3, <2>4
<1>7. CASE lb.rank = None /\ db.rank # None
  <2>1. PICK y \in Nat, v \in Nat :
           y = RrfK + da.rank /\ 0 < y /\ v = RrfK + db.rank /\ y < v
    BY <1>1, <1>2, <1>4, <1>7
  <2>2. FusedScore(lb, db) = <<1, v>>
    BY <1>7, <2>1, FusedScoreIs
  <2>3. CASE la.rank = None
    <3>1. FusedScore(la, da) = <<1, y>>
      BY <1>4, <1>7, <2>1, <2>3, FusedScoreIs
    <3> QED
      BY <2>1, <2>2, <3>1
  <2>4. CASE la.rank # None
    <3>1. PICK x \in Nat : x = RrfK + la.rank /\ 0 < x
      BY <1>1, <1>2, <2>4
    <3>2. FusedScore(la, da) = <<y + x, x * y>>
      BY <1>4, <1>7, <2>1, <2>4, <3>1, FusedScoreIs
    <3>3. (y + x) * v > 1 * (x * y)
      BY <2>1, <3>1, Reciprocals
    <3> QED
      BY <2>2, <3>2, <3>3
  <2> QED
    BY <2>3, <2>4
<1> QED
  BY <1>5, <1>6, <1>7

\* What fuse returns: every row that either list holds once, with what each
\* list says of it, in the order of the sums.
FusionOf(fused, lex, den) ==
    /\ Len(fused) \in Nat /\ DOMAIN fused = 1 .. Len(fused)
    /\ Len(fused) = Cardinality(RowsOf(lex) \union RowsOf(den))
    /\ \A i \in 1 .. Len(fused) :
          /\ fused[i].row \in RowsOf(lex) \union RowsOf(den)
          /\ fused[i] = FusedRow(fused[i].row, lex, den)
    /\ \A i, j \in 1 .. Len(fused) : i < j <=> FusedBefore(fused[i], fused[j])
    /\ \A i, j \in 1 .. Len(fused) : fused[i].row = fused[j].row => i = j
    /\ \E F : fused \in Seq(F)

\* The fields of a fused row.
LEMMA FusedRowFacts ==
    ASSUME NEW lex, NEW den, ListOK(lex), ListOK(den), NEW row
    PROVE  LET f == FusedRow(row, lex, den)
           IN  /\ f.row = row
               /\ f.lexical = ContributionOf(lex, row)
               /\ f.dense = ContributionOf(den, row)
               /\ f.fused = FusedScore(f.lexical, f.dense)
               /\ f.fused[1] \in Nat /\ f.fused[2] \in Nat /\ f.fused[2] > 0
               /\ f.lexical.rank \in Ranks /\ f.dense.rank \in Ranks
<1> DEFINE l == ContributionOf(lex, row)
           d == ContributionOf(den, row)
<1>1. l.rank \in Ranks /\ d.rank \in Ranks
  BY ContributionFacts
<1>2. FusedRow(row, lex, den)
         = [row |-> row, lexical |-> l, dense |-> d, fused |-> FusedScore(l, d)]
  BY DEF FusedRow
<1> HIDE DEF l, d
<1>3. /\ FusedScore(l, d)[1] \in Nat /\ FusedScore(l, d)[2] \in Nat
      /\ FusedScore(l, d)[2] > 0
  BY <1>1, FusedScoreIs
<1> QED
  BY <1>1, <1>2, <1>3 DEF l, d

\* The rows of a list are finitely many numbers.
LEMMA RowsOfFacts ==
    ASSUME NEW list, ListOK(list)
    PROVE  IsFiniteSet(RowsOf(list)) /\ RowsOf(list) \subseteq Nat
<1> DEFINE T == 1 .. Len(list)
           f == [i \in T |-> list[i].row]
<1>1. Len(list) \in Nat /\ DOMAIN list = T /\ \A i \in T : list[i] \in [row : Nat, score : Int]
  BY ListElements
<1>2. RowsOf(list) = {list[i].row : i \in T}
  BY <1>1 DEF RowsOf
<1>3. f \in Surjection(T, RowsOf(list))
  BY <1>2 DEF Surjection
<1>4. IsFiniteSet(T)
  BY <1>1, FS_Interval
<1> QED
  BY <1>1, <1>2, <1>3, <1>4, FS_Surjection

\* fuse, of lists within their depth.
LEMMA FuseFacts ==
    ASSUME NEW lex, NEW den, ListOK(lex), ListOK(den), NEW config,
           config.lexical_depth \in Nat, config.dense_depth \in Nat,
           Len(lex) <= config.lexical_depth, Len(den) <= config.dense_depth
    PROVE  FusionOf(Fuse(lex, den, config), lex, den)
<1> DEFINE found == RowsOf(lex) \union RowsOf(den)
           S == {FusedRow(row, lex, den) : row \in found}
           R == FusedEarlier(S)
           s == Ordered(S, R)
<1>1. Take(config.lexical_depth, lex) = lex /\ Take(config.dense_depth, den) = den
  BY TakeFacts DEF ListOK
<1>2. Fuse(lex, den, config) = s
  BY <1>1 DEF Fuse, FusedEarlier
<1>3. IsFiniteSet(found) /\ found \subseteq Nat
  BY RowsOfFacts, FS_Union
<1> HIDE DEF found
<1>4. \A x \in S : x.row \in found /\ x = FusedRow(x.row, lex, den)
  BY FusedRowFacts
<1>5. FusedSet(S)
  BY <1>3, <1>4, FusedRowFacts DEF FusedSet
<1> DEFINE f == [row \in found |-> FusedRow(row, lex, den)]
<1>6. f \in Surjection(found, S)
  BY DEF Surjection
<1>7. f \in Injection(found, S)
  <2>1. \A r, t \in found : f[r] = f[t] => r = t
    BY FusedRowFacts
  <2> QED
    BY <1>6, <2>1 DEF Injection, IsInjective, Surjection
<1> HIDE DEF S
<1>8. IsFiniteSet(S) /\ Cardinality(S) = Cardinality(found)
  BY <1>3, <1>6, <1>7, FS_Surjection
<1>9. /\ StrictOrder(S, R)
      /\ \A x, y \in S : <<x, y>> \in R <=> FusedBefore(x, y)
  BY <1>5, FusedOrder
<1>10. /\ s \in Seq(S) /\ Cardinality(S) \in Nat /\ Len(s) = Cardinality(S)
       /\ DOMAIN s = 1 .. Cardinality(S)
       /\ \A i \in 1 .. Cardinality(S) : s[i] \in S
       /\ \A i, j \in 1 .. Cardinality(S) : i < j <=> <<s[i], s[j]>> \in R
  BY <1>8, <1>9, OrderedFacts
<1> HIDE DEF s, R
<1>11. \A i, j \in 1 .. Len(s) : i < j <=> FusedBefore(s[i], s[j])
  BY <1>9, <1>10
<1>12. ASSUME NEW i \in 1 .. Len(s), NEW j \in 1 .. Len(s), s[i].row = s[j].row
       PROVE  i = j
  <2>1. s[i] = s[j]
    BY <1>5, <1>10, <1>12 DEF FusedSet
  <2>2. ~(i < j) /\ ~(j < i)
    BY <1>9, <1>10, <2>1 DEF StrictOrder
  <2> QED
    BY <1>10, <2>2
<1>13. FusionOf(s, lex, den)
  BY <1>4, <1>8, <1>10, <1>11, <1>12 DEF FusionOf, found
<1> QED
  BY <1>2, <1>13

-----------------------------------------------------------------------------
(***************************************************************************)
(* Results.                                                                *)
(***************************************************************************)

\* preview_from_body: stepping back from the limit ends at the last character
\* boundary that fits.
LEMMA PreviewFacts ==
    ASSUME NEW c \in Chunks
    PROVE  /\ PreviewOf(CharsOf[c]) \in CharsOf[c].boundaries
           /\ \A b \in CharsOf[c].boundaries : b <= PreviewMax => b <= PreviewOf(CharsOf[c])
<1> DEFINE body == CharsOf[c]
           B == body.boundaries
           M == PreviewMax
           Step(t, end) == IF end > 0 /\ end \notin B THEN t[end - 1] ELSE end
           LastSeen(end, b) == b \in B /\ b <= end /\ \A d \in B : d <= end => d <= b
           g == [end \in 0 .. M |-> CHOOSE b : LastSeen(end, b)]
<1>1. /\ body.bytes \in Nat /\ B \subseteq 0 .. body.bytes
      /\ 0 \in B /\ body.bytes \in B /\ M \in Nat
  BY SearchAssumption
<1> HIDE DEF body, B, M
<1>2. B \subseteq Nat
  BY <1>1
<1>3. ASSUME NEW end \in 0 .. M
      PROVE  \E b : LastSeen(end, b)
  <2> DEFINE T == {end - b : b \in {d \in B : d <= end}}
  <2>1. T \in SUBSET Nat /\ T # {}
    BY <1>1, <1>2
  <2>2. PICK x \in T : \A y \in T : x <= y
    BY <2>1, LeastNumber
  <2>3. PICK b \in B : b <= end /\ x = end - b
    BY <2>2
  <2>4. ASSUME NEW d \in B, d <= end
        PROVE  d <= b
    <3>1. end - d \in T
      BY <2>4
    <3>2. end - b <= end - d
      BY <2>2, <2>3, <3>1
    <3> QED
      BY <1>1, <1>2, <3>2
  <2> QED
    BY <2>3, <2>4
<1>4. ASSUME NEW end \in 0 .. M, NEW a, NEW b, LastSeen(end, a), LastSeen(end, b)
      PROVE  a = b
  BY <1>2, <1>4
<1>5. \A end \in 0 .. M : LastSeen(end, g[end])
  <2> HIDE DEF LastSeen
  <2> QED
    BY <1>3
<1>6. ASSUME NEW end \in 0 .. M
      PROVE  g[end] = Step(g, end)
  <2>1. LastSeen(end, g[end])
    BY <1>5
  <2>2. CASE end > 0 /\ end \notin B
    <3>1. end - 1 \in 0 .. M
      BY <1>1, <2>2
    <3>2. LastSeen(end - 1, g[end - 1])
      BY <1>5, <3>1
    <3> HIDE DEF g
    <3>3. \A d \in B : d <= end <=> d <= end - 1
      BY <1>2, <2>2
    <3>4. LastSeen(end, g[end - 1])
      BY <3>2, <3>3
    <3>5. g[end] = g[end - 1]
      <4> HIDE DEF LastSeen
      <4> QED
        BY <1>4, <2>1, <3>4
    <3> QED
      BY <2>2, <3>5
  <2>3. CASE ~(end > 0 /\ end \notin B)
    <3>1. end \in B
      BY <1>1, <2>3
    <3>2. LastSeen(end, end)
      BY <1>2, <3>1
    <3>3. g[end] = end
      <4> HIDE DEF LastSeen, g
      <4> QED
        BY <1>4, <2>1, <3>2
    <3> HIDE DEF g
    <3> QED
      BY <2>3, <3>3
  <2> QED
    BY <2>2, <2>3
<1>7. g = [end \in 0 .. M |-> Step(g, end)]
  <2>1. g = [end \in 0 .. M |-> g[end]]
    OBVIOUS
  <2> HIDE DEF g, Step
  <2> QED
    BY <1>6, <2>1
<1>8. ASSUME NEW t, t = [end \in 0 .. M |-> Step(t, end)]
      PROVE  t = g
  <2> DEFINE T == {end \in 0 .. M : t[end] # g[end]}
  <2>1. CASE T = {}
    <3>1. \A end \in 0 .. M : t[end] = g[end]
      BY <2>1
    <3>2. t = [end \in 0 .. M |-> t[end]] /\ g = [end \in 0 .. M |-> g[end]]
      <4> HIDE DEF Step
      <4> QED
        BY <1>8
    <3> HIDE DEF g
    <3> QED
      BY <3>1, <3>2
  <2>2. CASE T # {}
    <3>1. T \in SUBSET Nat
      BY <1>1
    <3>2. PICK n \in T : \A y \in T : n <= y
      BY <2>2, <3>1, LeastNumber
    <3>3. n \in 0 .. M /\ t[n] # g[n]
      BY <3>2
    <3>4. t[n] = Step(t, n) /\ g[n] = Step(g, n)
      <4> HIDE DEF Step, g
      <4> QED
        BY <1>6, <1>8, <3>3
    <3>5. n > 0 => t[n - 1] = g[n - 1]
      <4>1. n > 0 => n - 1 \in 0 .. M /\ ~(n <= n - 1)
        BY <1>1, <3>3
      <4> HIDE DEF g
      <4> QED
        BY <3>2, <4>1
    <3> HIDE DEF g
    <3>6. Step(t, n) = Step(g, n)
      BY <3>5
    <3> QED
      BY <3>3, <3>4, <3>6
  <2> QED
    BY <2>1, <2>2
<1>9. (CHOOSE t : t = [end \in 0 .. M |-> Step(t, end)]) = g
  <2> HIDE DEF Step, g
  <2> QED
    BY <1>7, <1>8
<1>10. PreviewOf(body) = IF body.bytes <= M THEN body.bytes
                         ELSE (CHOOSE t : t = [end \in 0 .. M |-> Step(t, end)])[M]
  BY Zenon DEF PreviewOf, M, B
<1>11. CASE body.bytes <= M
  <2>1. PreviewOf(body) = body.bytes
    BY <1>10, <1>11
  <2> QED
    BY <1>1, <2>1 DEF B, M, body
<1>12. CASE ~(body.bytes <= M)
  <2>1. PreviewOf(body) = g[M]
    <3> HIDE DEF g, Step
    <3> QED
      BY <1>9, <1>10, <1>12
  <2>2. LastSeen(M, g[M])
    BY <1>1, <1>5
  <2> HIDE DEF g
  <2>3. PreviewOf(body) \in B /\ \A b \in B : b <= M => b <= PreviewOf(body)
    BY <2>1, <2>2
  <2> QED
    BY <2>3 DEF B, M, body
<1> QED
  BY <1>11, <1>12

\* Numbers in ascending order.
LEMMA AscendingFacts ==
    ASSUME NEW S \in SUBSET Nat, IsFiniteSet(S)
    PROVE  /\ Cardinality(S) \in Nat
           /\ DOMAIN Ascending(S) = 1 .. Cardinality(S)
           /\ Len(Ascending(S)) = Cardinality(S)
           /\ Ascending(S) \in Seq(S)
           /\ \A i \in 1 .. Cardinality(S) : Ascending(S)[i] \in S
           /\ \A i, j \in 1 .. Cardinality(S) : i < j <=> Ascending(S)[i] < Ascending(S)[j]
           /\ \A x \in S : \E i \in 1 .. Cardinality(S) : Ascending(S)[i] = x
<1> DEFINE R == {p \in S \X S : p[1] < p[2]}
           s == Ordered(S, R)
<1>1. \A x, y \in S : <<x, y>> \in R <=> x < y
  OBVIOUS
<1> HIDE DEF R
<1>2. StrictOrder(S, R)
  BY <1>1 DEF StrictOrder
<1>3. /\ s \in Seq(S) /\ Cardinality(S) \in Nat /\ Len(s) = Cardinality(S)
      /\ DOMAIN s = 1 .. Cardinality(S)
      /\ \A i \in 1 .. Cardinality(S) : s[i] \in S
      /\ \A x \in S : /\ Place(S, R, x) + 1 \in 1 .. Cardinality(S)
                      /\ s[Place(S, R, x) + 1] = x
      /\ \A i, j \in 1 .. Cardinality(S) : i < j <=> <<s[i], s[j]>> \in R
  BY <1>2, OrderedFacts
<1>4. Ascending(S) = s
  BY DEF Ascending, R
<1> HIDE DEF s
<1>5. \A i, j \in 1 .. Cardinality(S) : i < j <=> s[i] < s[j]
  BY <1>1, <1>3
<1> QED
  BY <1>3, <1>4, <1>5

\* The positions, among the first topK, of fused rows that have a record.
KeptOf(records, fused, topK) ==
    {i \in 1 .. Len(Take(topK, fused)) : fused[i].row \in DOMAIN records}

BodyAt(bodies, row) == IF row \in DOMAIN bodies THEN bodies[row] ELSE None

\* What assemble returns, result by result.
AssemblyOf(results, records, bodies, fused, topK) ==
    LET K  == KeptOf(records, fused, topK)
        at == Ascending(K)
    IN  /\ Cardinality(K) \in Nat
        /\ DOMAIN results = 1 .. Cardinality(K)
        /\ Len(results) = Cardinality(K)
        /\ \A i \in 1 .. Cardinality(K) :
              /\ at[i] \in K
              /\ results[i].from = fused[at[i]]
              /\ results[i].chunk = records[fused[at[i]].row]
              /\ results[i].body = BodyAt(bodies, fused[at[i]].row)
              /\ results[i].body # None => results[i].preview = PreviewOf(CharsOf[results[i].body])
        /\ \A i, j \in 1 .. Cardinality(K) : i < j <=> at[i] < at[j]
        /\ \A k \in K : \E i \in 1 .. Cardinality(K) : at[i] = k

\* assemble keeps the order of the fused rows and skips those without a record.
LEMMA AssembleFacts ==
    ASSUME NEW records, NEW bodies, NEW F, NEW fused \in Seq(F), NEW topK \in Nat
    PROVE  AssemblyOf(Assemble(records, bodies, fused, topK), records, bodies, fused, topK)
<1> DEFINE first == Take(topK, fused)
           K == KeptOf(records, fused, topK)
           at == Ascending(K)
           A == Assemble(records, bodies, fused, topK)
           Body(row) == BodyAt(bodies, row)
<1>1. /\ first \in Seq(F) /\ DOMAIN first = 1 .. Len(first) /\ Len(first) \in Nat
      /\ \A i \in 1 .. Len(first) : first[i] = fused[i]
  <2>1. first \in Seq(F)
    BY TakeFacts
  <2>2. DOMAIN first = 1 .. Len(first) /\ Len(first) \in Nat
    <3> HIDE DEF first
    <3> QED
      BY <2>1
  <2>3. \A i \in DOMAIN first : first[i] = fused[i]
    BY TakeFacts
  <2> QED
    BY <2>1, <2>2, <2>3
<1>2. K = {i \in DOMAIN first : first[i].row \in DOMAIN records}
  <2> HIDE DEF first
  <2>1. K = {i \in 1 .. Len(first) : fused[i].row \in DOMAIN records}
    BY DEF KeptOf, first
  <2> QED
    BY <1>1, <2>1
<1>3. K \in SUBSET Nat /\ IsFiniteSet(K)
  <2>1. K \in SUBSET (1 .. Len(first)) /\ IsFiniteSet(1 .. Len(first))
    <3> HIDE DEF first
    <3> QED
      BY <1>1, <1>2, FS_Interval
  <2> HIDE DEF K, first
  <2>2. K \in SUBSET Nat
    BY <2>1
  <2>3. IsFiniteSet(K)
    BY <2>1, FS_Subset
  <2> QED
    BY <2>2, <2>3
<1> HIDE DEF K
<1>4. /\ Cardinality(K) \in Nat /\ DOMAIN at = 1 .. Cardinality(K)
      /\ \A i \in 1 .. Cardinality(K) : at[i] \in K
      /\ \A i, j \in 1 .. Cardinality(K) : i < j <=> at[i] < at[j]
      /\ \A x \in K : \E i \in 1 .. Cardinality(K) : at[i] = x
  BY <1>3, AscendingFacts
<1> DEFINE found == [k \in DOMAIN at |-> first[at[k]]]
           Entry(i) == [chunk   |-> records[found[i].row],
                        body    |-> Body(found[i].row),
                        preview |-> IF Body(found[i].row) = None THEN 0
                                    ELSE PreviewOf(CharsOf[Body(found[i].row)]),
                        from    |-> found[i]]
<1>5. A = [i \in DOMAIN found |-> Entry(i)]
  BY <1>2 DEF Assemble, BodyAt
<1> HIDE DEF first, at
<1>6. DOMAIN found = 1 .. Cardinality(K)
  BY <1>4
<1>7. \A i \in 1 .. Cardinality(K) : found[i] = fused[at[i]]
  <2> TAKE i \in 1 .. Cardinality(K)
  <2>1. at[i] \in 1 .. Len(first)
    BY <1>1, <1>2, <1>4
  <2> QED
    BY <1>1, <1>4, <2>1
<1> HIDE DEF found, A, Body
<1>8. DOMAIN A = 1 .. Cardinality(K) /\ Len(A) = Cardinality(K)
  BY <1>4, <1>5, <1>6
<1>9. ASSUME NEW i \in 1 .. Cardinality(K)
      PROVE  /\ A[i].from = fused[at[i]]
             /\ A[i].chunk = records[fused[at[i]].row]
             /\ A[i].body = Body(fused[at[i]].row)
             /\ A[i].body # None => A[i].preview = PreviewOf(CharsOf[A[i].body])
  <2>1. A[i] = Entry(i) /\ found[i] = fused[at[i]]
    BY <1>5, <1>6, <1>7
  <2> QED
    BY <2>1
<1> QED
  BY <1>4, <1>8, <1>9 DEF AssemblyOf, A, K, at, Body

\* The results of fused rows respect both rankings.
LEMMA FusionRespected ==
    ASSUME NEW lex, NEW den, NEW fused, NEW results, NEW records, NEW bodies,
           NEW topK \in Nat, ListOK(lex), ListOK(den), FusionOf(fused, lex, den),
           AssemblyOf(results, records, bodies, fused, topK),
           NEW i \in DOMAIN results, NEW j \in DOMAIN results,
           AtLeastAs(results[i].from.lexical, results[j].from.lexical),
           AtLeastAs(results[i].from.dense, results[j].from.dense)
    PROVE  i <= j
<1> DEFINE K == KeptOf(records, fused, topK)
           at == Ascending(K)
           m == at[i]
           n == at[j]
           a == fused[m]
           b == fused[n]
<1>1. /\ Cardinality(K) \in Nat /\ DOMAIN results = 1 .. Cardinality(K)
      /\ m \in K /\ n \in K /\ results[i].from = a /\ results[j].from = b
      /\ j < i <=> n < m
  BY DEF AssemblyOf
<1>2. m \in 1 .. Len(fused) /\ n \in 1 .. Len(fused)
  <2>1. PICK F : fused \in Seq(F)
    BY DEF FusionOf
  <2>2. \A k \in DOMAIN Take(topK, fused) : k \in DOMAIN fused
    BY <2>1, TakeFacts
  <2>3. Take(topK, fused) \in Seq(F)
    BY <2>1, TakeFacts
  <2>4. DOMAIN Take(topK, fused) = 1 .. Len(Take(topK, fused)) /\ DOMAIN fused = 1 .. Len(fused)
    BY <2>1, <2>3
  <2> QED
    BY <1>1, <2>2, <2>4 DEF KeptOf
<1> SUFFICES ASSUME j < i
             PROVE  FALSE
  BY <1>1
<1> HIDE DEF at, m, n
<1>3. n < m
  BY <1>1
<1>4. /\ a = FusedRow(a.row, lex, den) /\ b = FusedRow(b.row, lex, den)
      /\ b.row \in RowsOf(lex) \union RowsOf(den)
      /\ a.row = b.row => m = n
      /\ FusedBefore(b, a)
  BY <1>2, <1>3 DEF FusionOf
<1>5. a.row # b.row
  <2>1. m \in Int /\ n \in Int
    BY <1>2
  <2> QED
    BY <1>3, <1>4, <2>1
<1> HIDE DEF a, b
<1>6. /\ a.lexical = ContributionOf(lex, a.row) /\ a.dense = ContributionOf(den, a.row)
      /\ a.fused = FusedScore(a.lexical, a.dense)
      /\ a.fused[1] \in Nat /\ a.fused[2] \in Nat
      /\ a.lexical.rank \in Ranks /\ a.dense.rank \in Ranks
  BY <1>4, FusedRowFacts
<1>7. /\ b.lexical = ContributionOf(lex, b.row) /\ b.dense = ContributionOf(den, b.row)
      /\ b.fused = FusedScore(b.lexical, b.dense)
      /\ b.fused[1] \in Nat /\ b.fused[2] \in Nat
      /\ b.lexical.rank \in Ranks /\ b.dense.rank \in Ranks
  BY <1>4, FusedRowFacts
<1>8. ASSUME NEW list, ListOK(list), ContributionOf(list, b.row).rank # None,
             ContributionOf(list, a.row).rank = ContributionOf(list, b.row).rank
      PROVE  FALSE
  <2>1. b.row \in RowsOf(list) /\ a.row \in RowsOf(list)
    BY <1>8, ContributionFacts
  <2>2. /\ list[ContributionOf(list, b.row).rank].row = b.row
        /\ list[ContributionOf(list, a.row).rank].row = a.row
    BY <1>8, <2>1, ContributionFacts
  <2> QED
    BY <1>5, <1>8, <2>2
<1>9. /\ b.lexical.rank # None => a.lexical.rank # b.lexical.rank
      /\ b.dense.rank # None => a.dense.rank # b.dense.rank
  BY <1>6, <1>7, <1>8
<1>10. b.lexical.rank # None \/ b.dense.rank # None
  BY <1>4, <1>7, ContributionFacts
<1>11. AtLeastAs(a.lexical, b.lexical) /\ AtLeastAs(a.dense, b.dense)
  BY <1>1
<1>12. a.fused[1] * b.fused[2] > b.fused[1] * a.fused[2]
  BY <1>6, <1>7, <1>9, <1>10, <1>11, BetterSum
<1>13. a.fused[1] * b.fused[2] \in Int /\ b.fused[1] * a.fused[2] \in Int
  BY <1>6, <1>7
<1> QED
  BY <1>4, <1>12, <1>13 DEF FusedBefore

-----------------------------------------------------------------------------
(***************************************************************************)
(* The invariant.                                                          *)
(***************************************************************************)

\* A document for every live row of an index, with the chunk of that row.
DocsFor(docs, ix) ==
    /\ DocsOK(docs)
    /\ \A d \in docs : d.row \in ix.live /\ d.chunk = ix.rows[d.row + 1]
    /\ \A r \in ix.live : \E d \in docs : d.row = r

\* The store and the lexical index agree; while the resident serves, its dense
\* index is the store's; the frozen copy is of one index.
CopiesAgree ==
    /\ store = [rows |-> store.rows, live |-> store.live] /\ IndexOK(store)
    /\ DocsFor(lexical, store)
    /\ DocsOK(reader)
    /\ serving \in {"ready", "indexing"}
    /\ serving = "ready" => dense = FromStore(store)
    /\ IndexOK(frozen.dense)
    /\ frozen.records = Records(frozen.dense)
    /\ frozen.bodies = Records(frozen.dense)

Outcomes == [status : {"ok", "failed", "pending"}, rows : Seq([row : Nat, score : Int])]

Requests ==
    [pc : {"retrieve"}, kind : {"search", "similar"}, view : {"ready", "indexing"},
     query : Queries \union LateQueries, config : Configs,
     lexical : Outcomes, dense : Outcomes]

\* A request of the resident is answered while the resident serves.
Held == req.view \in {"ready", "indexing"} /\ (req.view = "ready" => serving = "ready")

\* What a retriever has returned so far, if anything: rows of the view the
\* request holds, with the scores of their chunks.
Lists ==
    /\ req.query \in Queries \union LateQueries /\ req.config \in Configs
    /\ req.kind \in {"search", "similar"}
    /\ ListOK(req.lexical.rows) /\ Len(req.lexical.rows) <= req.config.lexical_depth
    /\ ListOK(req.dense.rows) /\ Len(req.dense.rows) <= req.config.dense_depth
    /\ \A i \in 1 .. Len(req.dense.rows) :
          /\ req.dense.rows[i].row \in SearchedRows.live
          /\ req.dense.rows[i].score =
                req.query.dense[SearchedRows.rows[req.dense.rows[i].row + 1]]
    /\ req.view = "ready" =>
          /\ \A i \in 1 .. Len(req.lexical.rows) :
                /\ req.lexical.rows[i].row \in store.live
                /\ req.lexical.rows[i].score =
                      req.query.lexical[store.rows[req.lexical.rows[i].row + 1]]
          /\ req.dense.status = "ok" /\ req.config.dense_depth > 0 =>
                req.dense.rows = ReferenceSearch(dense, req.query, req.config.dense_depth)
          /\ req.lexical.status = "ok" /\ req.kind = "search" =>
                req.lexical.rows = Take(req.config.lexical_depth,
                                        Ranked(Hits(lexical, req.query)))

\* How an answer was made of the lists.
Made ==
    /\ req.view = "ready" =>
          /\ req.lexical.status \in {"ok", "failed"} /\ req.dense.status \in {"ok", "failed"}
          /\ req.lexical_ok = (req.lexical.status = "ok")
          /\ req.dense_ok = (req.dense.status = "ok")
          /\ req.status = "both failed" <=>
                req.lexical.status = "failed" /\ req.dense.status = "failed"
          /\ req.status = "ok" =>
                req.results = Assemble(Records(store), Bodies(lexical), FusedRows,
                                       req.config.top_k)
    /\ req.view = "indexing" =>
          req.results = Assemble(frozen.records, frozen.bodies, FusedRows, req.config.top_k)

\* A symbol is looked up in one copy of the index.
SymbolFound ==
    LET copy == Records(SearchedRows)
    IN  req.answer = Resolve(copy, copy, req.name)

SearchInv ==
    /\ CopiesAgree
    /\ req.pc \in {"idle", "retrieve", "answered"}
    /\ req.pc = "retrieve" => req \in Requests /\ Held /\ Lists
    /\ HasResults => Held /\ Lists /\ Made
    /\ req.pc = "answered" /\ req.kind = "symbol" => Held /\ SymbolFound

\* The bodies of the documents of an index are its chunks.
LEMMA BodiesAreRecords ==
    ASSUME NEW docs, NEW ix, DocsFor(docs, ix)
    PROVE  Bodies(docs) = Records(ix)
<1>1. {d.row : d \in docs} = ix.live
  BY DEF DocsFor
<1>2. ASSUME NEW r \in ix.live
      PROVE  (CHOOSE d \in docs : d.row = r).chunk = ix.rows[r + 1]
  <2>1. \E d \in docs : d.row = r
    BY DEF DocsFor
  <2>2. PICK e \in docs : e = (CHOOSE d \in docs : d.row = r) /\ e.row = r
    BY <2>1
  <2> QED
    BY <2>2 DEF DocsFor
<1> QED
  BY <1>1, <1>2 DEF Bodies, Records

\* A ranking of scored rows is a list fusion can take.
LEMMA RankingIsList ==
    ASSUME NEW S, ScoredSet(S), NEW n \in Nat, NEW list, RankingOf(list, S, n)
    PROVE  /\ ListOK(list) /\ Len(list) <= n
           /\ \A i \in 1 .. Len(list) : list[i] \in S
<1> DEFINE E == [row : Nat, score : Int]
<1>1. list \in Seq(S) /\ S \subseteq E
  BY DEF RankingOf, ScoredSet
<1> HIDE DEF E
<1>2. list \in Seq(E)
  BY <1>1
<1>3. \A i \in 1 .. Len(list) : list[i] \in S
  BY <1>1
<1> QED
  BY <1>2, <1>3 DEF ListOK, RankingOf, E

\* An empty list.
LEMMA EmptyList ==
    ListOK(<<>>) /\ Len(<<>>) = 0 /\ \A i \in 1 .. Len(<<>>) : FALSE
<1> DEFINE E == [row : Nat, score : Int]
<1>1. Len(<<>>) = 0 /\ \A i \in 1 .. Len(<<>>) : FALSE
  OBVIOUS
<1> HIDE DEF E
<1>2. <<>> \in Seq(E)
  OBVIOUS
<1> QED
  BY <1>1, <1>2 DEF ListOK, E

\* What the lexical retriever returns.
LEMMA LexicalList ==
    ASSUME NEW docs, NEW query, NEW n \in Nat, DocsOK(docs), QueryOK(query),
           NEW list, list = Take(n, Ranked(Hits(docs, query)))
    PROVE  /\ ListOK(list) /\ Len(list) <= n
           /\ \A i \in 1 .. Len(list) : list[i] \in Hits(docs, query)
<1> DEFINE S == Hits(docs, query)
<1>1. IsFiniteSet(S) /\ ScoredSet(S)
  BY HitsFacts
<1>2. RankingOf(list, S, n)
  BY <1>1, TakeRanked
<1> QED
  BY <1>1, <1>2, RankingIsList

\* What it returns of the documents of an index.
LEMMA LexicalListOf ==
    ASSUME NEW docs, NEW query, NEW n \in Nat, QueryOK(query), NEW ix, DocsFor(docs, ix),
           NEW list, list = Take(n, Ranked(Hits(docs, query))), NEW i \in 1 .. Len(list)
    PROVE  /\ list[i].row \in ix.live
           /\ list[i].score = query.lexical[ix.rows[list[i].row + 1]]
<1>1. DocsOK(docs)
  BY DEF DocsFor
<1>2. list[i] \in Hits(docs, query)
  BY <1>1, LexicalList
<1>3. PICK d \in docs : list[i].row = d.row /\ list[i].score = query.lexical[d.chunk]
  BY <1>1, <1>2, HitsFacts
<1> QED
  BY <1>3 DEF DocsFor

\* What the dense retriever returns.
LEMMA DenseList ==
    ASSUME NEW ix, NEW query, NEW n \in Nat, IndexOK(ix), QueryOK(query),
           AllFinite(ix, query), NEW list, list = ReferenceSearch(ix, query, n)
    PROVE  /\ ListOK(list) /\ Len(list) <= n
           /\ \A i \in 1 .. Len(list) :
                 /\ list[i].row \in ix.live
                 /\ list[i].score = query.dense[ix.rows[list[i].row + 1]]
<1> DEFINE S == ScoredLive(ix, query)
<1>1. IsFiniteSet(S) /\ ScoredSet(S)
  BY ScoredLiveFacts
<1>2. list = Take(n, Ranked(S))
  BY DEF ReferenceSearch, ScoredLive
<1>3. RankingOf(list, S, n)
  BY <1>1, <1>2, TakeRanked
<1>4. /\ ListOK(list) /\ Len(list) <= n
      /\ \A i \in 1 .. Len(list) : list[i] \in S
  BY <1>1, <1>3, RankingIsList
<1>5. ASSUME NEW i \in 1 .. Len(list)
      PROVE  /\ list[i].row \in ix.live
             /\ list[i].score = query.dense[ix.rows[list[i].row + 1]]
  <2>1. PICK row \in ix.live : list[i] = Scored(ix, query, row)
    BY <1>4 DEF ScoredLive
  <2> QED
    BY <2>1 DEF Scored
<1> QED
  BY <1>4, <1>5

\* What DenseIndex::search returns, finite scores or not.
LEMMA DenseOutcome ==
    ASSUME NEW ix, NEW query, NEW n \in Nat, IndexOK(ix), QueryOK(query),
           NEW out, out = DenseSearch(ix, query, n)
    PROVE  /\ out.status \in {"ok", "failed"}
           /\ out = [status |-> out.status, rows |-> out.rows]
           /\ ListOK(out.rows) /\ Len(out.rows) <= n
           /\ \A i \in 1 .. Len(out.rows) :
                 /\ out.rows[i].row \in ix.live
                 /\ out.rows[i].score = query.dense[ix.rows[out.rows[i].row + 1]]
           /\ out.status = "ok" /\ n > 0 => out.rows = ReferenceSearch(ix, query, n)
<1>1. CASE n = 0
  <2>1. out = [status |-> "ok", rows |-> <<>>]
    BY <1>1, DenseExact DEF Ok
  <2> QED
    BY <1>1, <2>1, EmptyList
<1>2. CASE n > 0 /\ AllFinite(ix, query)
  <2>1. out = [status |-> "ok", rows |-> ReferenceSearch(ix, query, n)]
    BY <1>2, DenseExact DEF Ok
  <2>2. out.status = "ok" /\ out.rows = ReferenceSearch(ix, query, n)
    BY <2>1
  <2>3. /\ ListOK(out.rows) /\ Len(out.rows) <= n
        /\ \A i \in 1 .. Len(out.rows) :
              /\ out.rows[i].row \in ix.live
              /\ out.rows[i].score = query.dense[ix.rows[out.rows[i].row + 1]]
    BY <1>2, <2>2, DenseList
  <2> QED
    BY <2>1, <2>2, <2>3
<1>3. CASE n > 0 /\ ~AllFinite(ix, query)
  <2>1. out = [status |-> "failed", rows |-> <<>>]
    BY <1>3, DenseExact DEF Failed
  <2> QED
    BY <2>1, EmptyList
<1> QED
  BY <1>1, <1>2, <1>3

\* Filling in what one retriever returned.
LEMMA Filled ==
    ASSUME NEW r \in Requests, NEW x \in Outcomes
    PROVE  /\ LET q == [r EXCEPT !.lexical = x]
              IN  /\ q \in Requests /\ q.lexical = x /\ q.dense = r.dense /\ q.pc = "retrieve"
                  /\ q.kind = r.kind /\ q.view = r.view /\ q.query = r.query /\ q.config = r.config
           /\ LET q == [r EXCEPT !.dense = x]
              IN  /\ q \in Requests /\ q.dense = x /\ q.lexical = r.lexical /\ q.pc = "retrieve"
                  /\ q.kind = r.kind /\ q.view = r.view /\ q.query = r.query /\ q.config = r.config
  BY DEF Requests

\* The part of the invariant that is about the request.
RequestInv ==
    /\ req.pc \in {"idle", "retrieve", "answered"}
    /\ req.pc = "retrieve" => req \in Requests /\ Held /\ Lists
    /\ HasResults => Held /\ Lists /\ Made
    /\ req.pc = "answered" /\ req.kind = "symbol" => Held /\ SymbolFound

\* A request that holds the frozen copy does not notice what happens to the
\* store, the lexical index or the resident.
LEMMA RequestHolds ==
    ASSUME SearchInv, serving = "indexing", serving' \in {"ready", "indexing"},
           req' = req, frozen' = frozen
    PROVE  RequestInv'
<1>1. CASE req.pc = "idle"
  BY <1>1 DEF RequestInv, HasResults
<1>2. ASSUME Held
      PROVE  req.view = "indexing" /\ Held' /\ SearchedRows' = SearchedRows
  BY <1>2 DEF Held, SearchedRows
<1>3. ASSUME Held, Lists
      PROVE  Lists'
  <2>1. req.view = "indexing" /\ SearchedRows' = SearchedRows
    BY <1>2, <1>3
  <2> QED
    BY <1>3, <2>1 DEF Lists
<1>4. ASSUME Held, Made
      PROVE  Made'
  <2>1. req.view = "indexing"
    BY <1>2, <1>4
  <2> QED
    BY <1>4, <2>1 DEF Made, FusedRows
<1>5. ASSUME Held, SymbolFound
      PROVE  SymbolFound'
  BY <1>2, <1>5 DEF SymbolFound
<1> QED
  BY <1>2, <1>3, <1>4, <1>5 DEF SearchInv, RequestInv, HasResults

\* What only touches the request leaves the copies alone.
LEMMA CopiesStay ==
    ASSUME CopiesAgree, UNCHANGED <<store, lexical, reader, dense, serving, frozen>>
    PROVE  CopiesAgree'
  BY DEF CopiesAgree

\* A fresh copy of an index has its rows, and so does one brought up to date.
LEMMA CopyFacts ==
    ASSUME NEW ix, IndexOK(ix)
    PROVE  /\ FromStore(ix).rows = ix.rows /\ FromStore(ix).live = ix.live
           /\ IndexOK(FromStore(ix)) /\ Records(FromStore(ix)) = Records(ix)
           /\ Refresh(FromStore(ix), ix) = FromStore(ix)
<1>1. FromStore(ix).rows = ix.rows /\ FromStore(ix).live = ix.live
  BY DEF FromStore
<1>2. IndexOK(FromStore(ix)) /\ Records(FromStore(ix)) = Records(ix)
  BY <1>1 DEF IndexOK, Records
<1>3. ix.rows \o SubSeq(ix.rows, Len(ix.rows) + 1, Len(ix.rows)) = ix.rows
  <2> DEFINE s == ix.rows
  <2>1. s \in Seq(Chunks)
    BY DEF IndexOK
  <2> HIDE DEF s
  <2>2. Len(s) \in Int /\ Len(s) + 1 \in Int /\ Len(s) < Len(s) + 1
    BY <2>1
  <2>3. SubSeq(s, Len(s) + 1, Len(s)) = <<>>
    BY <2>2, SubSeqEmpty
  <2>4. s \o <<>> = s
    BY <2>1, ConcatEmptySeq
  <2> QED
    BY <2>3, <2>4 DEF s
<1>4. Refresh(FromStore(ix), ix) = FromStore(ix)
  BY <1>1, <1>3 DEF Refresh, FromStore
<1> QED
  BY <1>1, <1>2, <1>4

\* A resident that has just loaded a store satisfies the invariant.
LEMMA InitInv ==
    Init => SearchInv
<1> SUFFICES ASSUME Init
             PROVE  SearchInv
  OBVIOUS
<1>1. PICK s \in Stores :
         /\ store = [rows |-> s.rows, live |-> s.live]
         /\ lexical = {[row |-> r, chunk |-> s.rows[r + 1], segment |-> s.segment[r]] :
                          r \in s.live}
  BY DEF Init
<1>2. s.rows \in Seq(Chunks) /\ s.live \subseteq 0 .. (Len(s.rows) - 1)
  BY SearchAssumption
<1>3. store.rows = s.rows /\ store.live = s.live
  BY <1>1
<1>4. IndexOK(store)
  BY <1>2, <1>3 DEF IndexOK
<1>5. Len(s.rows) \in Nat /\ \A i \in 1 .. Len(s.rows) : s.rows[i] \in Chunks
  BY <1>2
<1> DEFINE L == s.live
           doc(r) == [row |-> r, chunk |-> s.rows[r + 1], segment |-> s.segment[r]]
           f == [r \in L |-> doc(r)]
<1>6. IsFiniteSet(L)
  <2>1. Len(s.rows) - 1 \in Int
    BY <1>5
  <2>2. IsFiniteSet(0 .. (Len(s.rows) - 1))
    BY <2>1, FS_Interval
  <2> QED
    BY <1>2, <2>2, FS_Subset
<1>7. f \in Surjection(L, lexical)
  BY <1>1 DEF Surjection
<1>8. IsFiniteSet(lexical)
  BY <1>6, <1>7, FS_Surjection
<1>9. \A r \in L : r \in Nat /\ s.rows[r + 1] \in Chunks
  BY <1>2, <1>5
<1>10. \A d \in lexical : d.row \in L /\ d.chunk = s.rows[d.row + 1] /\ d = doc(d.row)
  BY <1>1
<1>11. \A r \in L : doc(r) \in lexical /\ doc(r).row = r
  BY <1>1
<1>12. DocsOK(lexical)
  BY <1>8, <1>9, <1>10 DEF DocsOK
<1>13. DocsFor(lexical, store)
  BY <1>3, <1>10, <1>11, <1>12 DEF DocsFor
<1>14. /\ reader = lexical /\ dense = FromStore(store) /\ serving = "ready"
       /\ frozen = NoFrozen /\ req = Idle
  BY DEF Init
<1>15. IndexOK(frozen.dense)
  <2>1. frozen.dense.rows = <<>> /\ frozen.dense.live = {}
    BY <1>14 DEF NoFrozen
  <2>2. <<>> \in Seq(Chunks)
    OBVIOUS
  <2> QED
    BY <2>1, <2>2 DEF IndexOK
<1>16. Records(frozen.dense) = <<>>
  BY <1>14 DEF NoFrozen, Records
<1>17. frozen.records = <<>> /\ frozen.bodies = <<>>
  BY <1>14 DEF NoFrozen
<1>18. CopiesAgree
  BY <1>1, <1>3, <1>4, <1>12, <1>13, <1>14, <1>15, <1>16, <1>17 DEF CopiesAgree
<1>19. req.pc = "idle"
  BY <1>14 DEF Idle
<1> QED
  BY <1>18, <1>19 DEF SearchInv, HasResults

\* A commit of the index run keeps the copies apart if its store and its
\* documents agree.
LEMMA CommitStep ==
    ASSUME SearchInv, NEW st, NEW docs, Committed(st, docs),
           st = [rows |-> st.rows, live |-> st.live], IndexOK(st), DocsFor(docs, st)
    PROVE  SearchInv'
<1>1. /\ serving = "indexing" /\ store' = st /\ lexical' = docs
      /\ reader' = reader /\ dense' = dense /\ serving' = serving
      /\ frozen' = frozen /\ req' = req
  BY DEF Committed
<1>2. CopiesAgree'
  BY <1>1 DEF SearchInv, CopiesAgree
<1>3. RequestInv'
  BY <1>1, RequestHolds
<1> QED
  BY <1>2, <1>3 DEF SearchInv, RequestInv

\* A new chunk: its row is the next, and no document has that row yet.
LEMMA InsertStep ==
    ASSUME SearchInv, NEW chunk \in Chunks, CommitInsert(chunk)
    PROVE  SearchInv'
<1> DEFINE n == Len(store.rows)
           doc == [row |-> n, chunk |-> chunk, segment |-> 2 + commits]
           st == [rows |-> Append(store.rows, chunk), live |-> store.live \union {n}]
           docs == lexical \union {doc}
<1>1. IndexOK(store) /\ DocsFor(lexical, store) /\ DocsOK(lexical)
  BY DEF SearchInv, CopiesAgree, DocsFor
<1>2. n \in Nat /\ store.rows \in Seq(Chunks) /\ \A r \in store.live : r \in 0 .. (n - 1)
  BY <1>1 DEF IndexOK
<1>3. /\ st.rows \in Seq(Chunks) /\ Len(st.rows) = n + 1
      /\ \A i \in 1 .. n : st.rows[i] = store.rows[i]
      /\ st.rows[n + 1] = chunk
      /\ st.live = store.live \union {n}
  BY <1>2
<1>4. IndexOK(st)
  BY <1>2, <1>3 DEF IndexOK
<1>5. doc.row = n /\ doc.chunk = chunk
  OBVIOUS
<1>6. \A d \in lexical : d.row \in 0 .. (n - 1)
  BY <1>1, <1>2 DEF DocsFor
<1>7. IsFiniteSet(docs)
  BY <1>1, FS_AddElement DEF DocsOK
<1> HIDE DEF n, doc, st
<1>8. DocsOK(docs)
  <2>1. \A d \in docs : d.row \in Nat /\ d.chunk \in Chunks
    BY <1>1, <1>2, <1>5 DEF DocsOK
  <2>2. \A d \in lexical : d.row # doc.row
    BY <1>2, <1>5, <1>6
  <2>3. \A d, e \in docs : d.row = e.row => d = e
    BY <1>1, <2>2 DEF DocsOK
  <2> QED
    BY <1>7, <2>1, <2>3 DEF DocsOK
<1>9. DocsFor(docs, st)
  <2>1. ASSUME NEW d \in lexical
        PROVE  d.row \in st.live /\ d.chunk = st.rows[d.row + 1]
    <3>1. d.row \in store.live /\ d.chunk = store.rows[d.row + 1]
      BY <1>1 DEF DocsFor
    <3>2. d.row + 1 \in 1 .. n
      BY <1>2, <1>6
    <3> QED
      BY <1>3, <3>1, <3>2
  <2>2. doc.row \in st.live /\ doc.chunk = st.rows[doc.row + 1]
    BY <1>3, <1>5
  <2>3. \A r \in st.live : \E d \in docs : d.row = r
    BY <1>1, <1>3, <1>5 DEF DocsFor
  <2> QED
    BY <1>8, <2>1, <2>2, <2>3 DEF DocsFor
<1>10. st = [rows |-> st.rows, live |-> st.live]
  BY DEF st
<1>11. Committed(st, docs)
  BY DEF CommitInsert, st, n, doc
<1> HIDE DEF docs
<1> QED
  BY <1>4, <1>9, <1>10, <1>11, CommitStep

\* A chunk that is gone: its row and its document go together.
LEMMA RemoveStep ==
    ASSUME SearchInv, NEW row \in store.live, CommitRemove(row)
    PROVE  SearchInv'
<1> DEFINE st == [rows |-> store.rows, live |-> store.live \ {row}]
           docs == {d \in lexical : d.row # row}
<1>1. IndexOK(store) /\ DocsFor(lexical, store) /\ DocsOK(lexical)
      /\ store = [rows |-> store.rows, live |-> store.live]
  BY DEF SearchInv, CopiesAgree, DocsFor
<1>2. [store EXCEPT !.live = store.live \ {row}] = st
  BY <1>1
<1>3. Committed(st, docs)
  BY <1>2 DEF CommitRemove
<1>4. st.rows = store.rows /\ st.live = store.live \ {row}
      /\ st = [rows |-> st.rows, live |-> st.live]
  OBVIOUS
<1> HIDE DEF st
<1>5. IndexOK(st)
  BY <1>1, <1>4 DEF IndexOK
<1>6. DocsOK(docs)
  <2>1. IsFiniteSet(docs)
    BY <1>1, FS_Subset DEF DocsOK
  <2> QED
    BY <1>1, <2>1 DEF DocsOK
<1>7. DocsFor(docs, st)
  BY <1>1, <1>4, <1>6 DEF DocsFor
<1> HIDE DEF docs
<1> QED
  BY <1>3, <1>4, <1>5, <1>7, CommitStep

\* Compaction: the live rows move down in order, and their documents with them.
LEMMA CompactStep ==
    ASSUME SearchInv, CommitCompact
    PROVE  SearchInv'
<1> DEFINE L == store.live
           kept == Ascending(L)
           n == Cardinality(L)
           moved(r) == CHOOSE i \in DOMAIN kept : kept[i] = r
           doc(d) == [row |-> moved(d.row) - 1, chunk |-> d.chunk, segment |-> d.segment]
           st == [rows |-> [i \in DOMAIN kept |-> store.rows[kept[i] + 1]],
                  live |-> 0 .. (Len(kept) - 1)]
           docs == {doc(d) : d \in lexical}
<1>1. IndexOK(store) /\ DocsFor(lexical, store) /\ DocsOK(lexical)
  BY DEF SearchInv, CopiesAgree, DocsFor
<1>2. Committed(st, docs)
  BY DEF CommitCompact
<1>3. Len(store.rows) \in Nat /\ \A i \in 1 .. Len(store.rows) : store.rows[i] \in Chunks
  BY <1>1 DEF IndexOK
<1>4. L \in SUBSET Nat /\ IsFiniteSet(L) /\ \A r \in L : store.rows[r + 1] \in Chunks
  <2>1. L \in SUBSET (0 .. (Len(store.rows) - 1)) /\ Len(store.rows) - 1 \in Int
    BY <1>1, <1>3 DEF IndexOK
  <2>2. IsFiniteSet(0 .. (Len(store.rows) - 1))
    BY <2>1, FS_Interval
  <2>3. IsFiniteSet(L)
    BY <2>1, <2>2, FS_Subset
  <2> QED
    BY <1>3, <2>1, <2>3
<1>5. /\ n \in Nat /\ DOMAIN kept = 1 .. n /\ Len(kept) = n
      /\ \A i \in 1 .. n : kept[i] \in L
      /\ \A i, j \in 1 .. n : i < j <=> kept[i] < kept[j]
      /\ \A x \in L : \E i \in 1 .. n : kept[i] = x
  BY <1>4, AscendingFacts
<1> HIDE DEF kept, n
<1>6. \A i, j \in 1 .. n : kept[i] = kept[j] => i = j
  <2> TAKE i, j \in 1 .. n
  <2>1. kept[i] \in Nat /\ kept[j] \in Nat
    BY <1>4, <1>5
  <2>2. kept[i] = kept[j] => ~(i < j) /\ ~(j < i)
    BY <1>5, <2>1
  <2> QED
    BY <1>5, <2>2
<1>7. ASSUME NEW r \in L
      PROVE  moved(r) \in 1 .. n /\ kept[moved(r)] = r
  BY <1>5
<1> HIDE DEF moved
<1>8. /\ st.rows = [i \in 1 .. n |-> store.rows[kept[i] + 1]] /\ st.live = 0 .. (n - 1)
      /\ st = [rows |-> st.rows, live |-> st.live]
  BY <1>5
<1> HIDE DEF st
<1>9. st.rows \in Seq(Chunks) /\ Len(st.rows) = n
      /\ \A i \in 1 .. n : st.rows[i] = store.rows[kept[i] + 1]
  <2>1. \A i \in 1 .. n : store.rows[kept[i] + 1] \in Chunks
    BY <1>4, <1>5
  <2> QED
    BY <1>5, <1>8, <2>1
<1>10. IndexOK(st)
  BY <1>5, <1>8, <1>9 DEF IndexOK
<1>11. ASSUME NEW d \in lexical
       PROVE  /\ d.row \in L /\ d.chunk \in Chunks
              /\ doc(d).row = moved(d.row) - 1 /\ doc(d).chunk = d.chunk
              /\ doc(d).row \in 0 .. (n - 1)
              /\ doc(d).chunk = st.rows[doc(d).row + 1]
  <2>1. d.row \in L /\ d.chunk \in Chunks /\ d.chunk = store.rows[d.row + 1]
    BY <1>1 DEF DocsFor, DocsOK
  <2>2. doc(d).row = moved(d.row) - 1 /\ doc(d).chunk = d.chunk
    OBVIOUS
  <2>3. moved(d.row) \in 1 .. n /\ kept[moved(d.row)] = d.row
    BY <1>7, <2>1
  <2>4. moved(d.row) - 1 \in 0 .. (n - 1) /\ (moved(d.row) - 1) + 1 = moved(d.row)
    BY <1>5, <2>3
  <2> HIDE DEF doc
  <2> QED
    BY <1>9, <2>1, <2>2, <2>3, <2>4
<1>12. ASSUME NEW d \in lexical, NEW e \in lexical, doc(d).row = doc(e).row
       PROVE  d = e
  <2>1. moved(d.row) - 1 = moved(e.row) - 1
    BY <1>12
  <2>2. /\ moved(d.row) \in 1 .. n /\ kept[moved(d.row)] = d.row
        /\ moved(e.row) \in 1 .. n /\ kept[moved(e.row)] = e.row
    BY <1>7, <1>11
  <2>3. d.row = e.row
    <3>1. moved(d.row) = moved(e.row)
      BY <1>5, <2>1, <2>2
    <3> QED
      BY <2>2, <3>1
  <2> QED
    BY <1>1, <2>3 DEF DocsOK
<1> DEFINE f == [d \in lexical |-> doc(d)]
<1>13. IsFiniteSet(docs)
  <2>1. f \in Surjection(lexical, docs)
    <3> HIDE DEF doc
    <3> QED
      BY DEF Surjection
  <2> QED
    BY <1>1, <2>1, FS_Surjection DEF DocsOK
<1>14. ASSUME NEW r \in st.live
       PROVE  \E d \in docs : d.row = r
  <2>1. r + 1 \in 1 .. n /\ r \in Nat
    BY <1>5, <1>8
  <2>2. kept[r + 1] \in L
    BY <1>5, <2>1
  <2>3. PICK d \in lexical : d.row = kept[r + 1]
    BY <1>1, <2>2 DEF DocsFor
  <2>4. moved(d.row) = r + 1
    BY <1>6, <1>7, <2>1, <2>2, <2>3
  <2>5. doc(d).row = r
    BY <1>11, <2>1, <2>4
  <2> HIDE DEF doc
  <2> QED
    BY <2>5
<1> HIDE DEF doc
<1>15. DocsOK(docs)
  <2>1. \A d \in docs : d.row \in Nat /\ d.chunk \in Chunks
    BY <1>5, <1>11
  <2>2. \A d, e \in docs : d.row = e.row => d = e
    BY <1>12
  <2> QED
    BY <1>13, <2>1, <2>2 DEF DocsOK
<1>16. DocsFor(docs, st)
  BY <1>8, <1>11, <1>14, <1>15 DEF DocsFor
<1> HIDE DEF docs
<1> QED
  BY <1>2, <1>8, <1>10, <1>16, CommitStep

\* split_for_index copies one index: records, bodies and vectors.
LEMMA SplitStep ==
    ASSUME SearchInv, Split
    PROVE  SearchInv'
<1>1. /\ serving = "ready" /\ req.pc = "idle" /\ serving' = "indexing"
      /\ reader' = lexical /\ store' = store /\ lexical' = lexical /\ dense' = dense
      /\ req' = req
  BY DEF Split
<1>2. /\ IndexOK(store) /\ DocsFor(lexical, store) /\ DocsOK(lexical)
      /\ dense = FromStore(store)
  BY <1>1 DEF SearchInv, CopiesAgree, DocsFor
<1>3. Bodies(lexical) = Records(store)
  BY <1>2, BodiesAreRecords
<1>4. DOMAIN Records(store) = store.live /\ Records(store) = [r \in store.live |-> Records(store)[r]]
  BY DEF Records
<1>5. [row \in store.live \intersect DOMAIN Bodies(lexical) |-> Bodies(lexical)[row]]
         = Records(store)
  BY <1>3, <1>4
<1>6. frozen' = [records |-> Records(store), bodies |-> Records(store), dense |-> dense]
  BY <1>5 DEF Split
<1>7. IndexOK(dense) /\ Records(dense) = Records(store)
  BY <1>2, CopyFacts
<1>8. /\ IndexOK(frozen'.dense) /\ frozen'.records = Records(frozen'.dense)
      /\ frozen'.bodies = Records(frozen'.dense)
  BY <1>6, <1>7
<1>9. CopiesAgree'
  BY <1>1, <1>2, <1>8 DEF SearchInv, CopiesAgree
<1> QED
  BY <1>1, <1>9 DEF SearchInv, HasResults

\* The reader of the frozen view moves on; nothing that is promised reads it.
LEMMA ReloadStep ==
    ASSUME SearchInv, ReaderReloads
    PROVE  SearchInv'
<1>1. /\ reader' = lexical /\ store' = store /\ lexical' = lexical /\ dense' = dense
      /\ serving' = serving /\ frozen' = frozen /\ req' = req
  BY DEF ReaderReloads
<1>2. CopiesAgree'
  BY <1>1 DEF SearchInv, CopiesAgree, DocsFor
<1>3. Held' = Held /\ SearchedRows' = SearchedRows /\ FusedRows' = FusedRows
  BY <1>1 DEF Held, SearchedRows, FusedRows
<1>4. Lists' = Lists /\ Made' = Made /\ SymbolFound' = SymbolFound
  BY <1>1, <1>3 DEF Lists, Made, SymbolFound
<1> QED
  BY <1>1, <1>2, <1>3, <1>4 DEF SearchInv, HasResults

\* rebuild_resident: the dense index is the store's again.
LEMMA RebuildStep ==
    ASSUME SearchInv, Rebuild
    PROVE  SearchInv'
<1>1. /\ serving = "indexing" /\ serving' = "ready" /\ dense' = Refresh(FromStore(store), store)
      /\ store' = store /\ lexical' = lexical /\ reader' = reader
      /\ frozen' = frozen /\ req' = req
  BY DEF Rebuild
<1>2. dense' = FromStore(store)
  BY <1>1, CopyFacts DEF SearchInv, CopiesAgree
<1>3. CopiesAgree'
  BY <1>1, <1>2 DEF SearchInv, CopiesAgree
<1>4. RequestInv'
  BY <1>1, RequestHolds
<1> QED
  BY <1>3, <1>4 DEF SearchInv, RequestInv

\* Queries and configurations a request may carry.
LEMMA AskedFacts ==
    /\ \A q \in Queries \union LateQueries : QueryOK(q)
    /\ \A c \in Configs : c.lexical_depth \in Nat /\ c.dense_depth \in Nat /\ c.top_k \in Nat
    /\ \A q \in Asked : q \in Queries \union LateQueries
  BY SearchAssumption DEF QueryOK, Asked

\* A new request has no rows yet.
LEMMA AskStep ==
    ASSUME SearchInv, NEW kind \in {"search", "similar"}, NEW query \in Asked,
           NEW config \in Configs, Ask(kind, query, config)
    PROVE  SearchInv'
<1> DEFINE lex == IF kind = "similar" /\ serving = "ready" THEN Ok(<<>>) ELSE Pending
<1>1. /\ UNCHANGED <<store, lexical, reader, dense, serving, frozen>>
      /\ req' = [pc |-> "retrieve", kind |-> kind, view |-> serving, query |-> query,
                 config |-> config, lexical |-> lex, dense |-> Pending]
  BY DEF Ask
<1>2. CopiesAgree /\ CopiesAgree'
  BY <1>1, CopiesStay DEF SearchInv
<1>3. /\ lex.rows = <<>> /\ lex \in Outcomes /\ (lex.status = "ok" => kind = "similar")
      /\ Pending.rows = <<>> /\ Pending \in Outcomes /\ Pending.status = "pending"
  <2> DEFINE E == [row : Nat, score : Int]
  <2> HIDE DEF E
  <2>1. <<>> \in Seq(E)
    OBVIOUS
  <2>2. Ok(<<>>) = [status |-> "ok", rows |-> <<>>] /\ Pending = [status |-> "pending", rows |-> <<>>]
    BY DEF Ok, Pending
  <2>3. Outcomes = [status : {"ok", "failed", "pending"}, rows : Seq(E)]
    BY DEF Outcomes, E
  <2>4. /\ Ok(<<>>) \in Outcomes /\ Ok(<<>>).rows = <<>>
        /\ Pending \in Outcomes /\ Pending.rows = <<>> /\ Pending.status = "pending"
    <3>1. Ok(<<>>) \in Outcomes
      BY <2>1, <2>3 DEF Ok
    <3>2. Pending \in Outcomes
      BY <2>1, <2>3 DEF Pending
    <3>3. Ok(<<>>).rows = <<>> /\ Pending.rows = <<>> /\ Pending.status = "pending"
      BY <2>2
    <3> QED
      BY <3>1, <3>2, <3>3
  <2>5. CASE kind = "similar" /\ serving = "ready"
    BY <2>4, <2>5
  <2>6. CASE ~(kind = "similar" /\ serving = "ready")
    BY <2>4, <2>6
  <2> QED
    BY <2>5, <2>6
<1> HIDE DEF lex
<1>4. /\ req'.pc = "retrieve" /\ req'.kind = kind /\ req'.view = serving
      /\ req'.query = query /\ req'.config = config
      /\ req'.lexical = lex /\ req'.dense = Pending
  BY <1>1
<1>5. serving \in {"ready", "indexing"}
  BY <1>2 DEF CopiesAgree
<1>6. req' \in Requests
  BY <1>1, <1>3, <1>5, AskedFacts DEF Requests
<1>7. Held'
  BY <1>1, <1>4, <1>5 DEF Held
<1>8. Lists'
  <2>1. /\ ListOK(<<>>) /\ Len(<<>>) <= config.lexical_depth
        /\ Len(<<>>) <= config.dense_depth /\ \A i \in 1 .. Len(<<>>) : FALSE
    BY AskedFacts, EmptyList
  <2>2. req'.lexical.rows = <<>> /\ req'.dense.rows = <<>> /\ req'.dense.status = "pending"
        /\ (req'.lexical.status = "ok" => kind = "similar")
    BY <1>3, <1>4
  <2> QED
    BY <1>4, <2>1, <2>2, AskedFacts DEF Lists
<1> QED
  BY <1>2, <1>4, <1>6, <1>7, <1>8 DEF SearchInv, HasResults

\* The embedder fails, or an answer has been sent.
LEMMA EndStep ==
    ASSUME SearchInv, EmbedFails \/ Sent
    PROVE  SearchInv'
<1>1. /\ UNCHANGED <<store, lexical, reader, dense, serving, frozen>>
      /\ \/ req' = [pc |-> "answered", kind |-> "embed", status |-> "error"]
         \/ req' = [pc |-> "idle"]
  BY DEF EmbedFails, Sent, Idle
<1>2. CopiesAgree'
  BY <1>1, CopiesStay DEF SearchInv
<1>3. CASE req' = [pc |-> "answered", kind |-> "embed", status |-> "error"]
  BY <1>2, <1>3 DEF SearchInv, HasResults
<1>4. CASE req' = [pc |-> "idle"]
  BY <1>2, <1>4 DEF SearchInv, HasResults
<1> QED
  BY <1>1, <1>3, <1>4

\* The index a request searches.
LEMMA SearchedFacts ==
    ASSUME CopiesAgree, Held
    PROVE  IndexOK(SearchedRows) /\ DocsOK(SearchedDocs)
<1>1. CASE req.view = "ready"
  BY <1>1, CopyFacts DEF CopiesAgree, Held, SearchedRows, SearchedDocs, DocsFor
<1>2. CASE req.view = "indexing"
  BY <1>2 DEF CopiesAgree, SearchedRows, SearchedDocs
<1> QED
  BY <1>1, <1>2 DEF Held

\* A retriever that fails returns no rows.
LEMMA FailedFacts ==
    /\ Failed \in Outcomes /\ Failed.status = "failed" /\ Failed.rows = <<>>
<1> DEFINE E == [row : Nat, score : Int]
<1>1. Failed = [status |-> "failed", rows |-> <<>>]
  BY DEF Failed
<1>2. Outcomes = [status : {"ok", "failed", "pending"}, rows : Seq(E)]
  BY DEF Outcomes
<1> HIDE DEF E
<1>3. <<>> \in Seq(E)
  OBVIOUS
<1> QED
  BY <1>1, <1>2, <1>3

\* The lexical retriever returns, or fails.
LEMMA LexicalStep ==
    ASSUME SearchInv, RetrieveLexical
    PROVE  SearchInv'
<1>1. /\ req.pc = "retrieve" /\ req \in Requests /\ Held /\ Lists /\ CopiesAgree
      /\ UNCHANGED <<store, lexical, reader, dense, serving, frozen>>
  BY DEF SearchInv, RetrieveLexical
<1>2. CopiesAgree'
  BY <1>1, CopiesStay
<1> DEFINE n == req.config.lexical_depth
<1>3. /\ n \in Nat /\ QueryOK(req.query) /\ DocsOK(SearchedDocs)
      /\ req.query \in Queries \union LateQueries /\ req.config \in Configs
  BY <1>1, AskedFacts, SearchedFacts DEF Lists
<1>4. PICK x \in Outcomes :
         /\ req' = [req EXCEPT !.lexical = x]
         /\ ListOK(x.rows) /\ Len(x.rows) <= n
         /\ req.view = "ready" =>
               /\ \A i \in 1 .. Len(x.rows) :
                     /\ x.rows[i].row \in store.live
                     /\ x.rows[i].score = req.query.lexical[store.rows[x.rows[i].row + 1]]
               /\ x.status = "ok" => x.rows = Take(n, Ranked(Hits(lexical, req.query)))
  <2>1. CASE req' = [req EXCEPT !.lexical = LexicalSearch(SearchedDocs, req.query, n)]
    <3> DEFINE list == Take(n, Ranked(Hits(SearchedDocs, req.query)))
               x == LexicalSearch(SearchedDocs, req.query, n)
    <3>1. x = [status |-> "ok", rows |-> list]
      BY <1>3, LexicalExact DEF Ok
    <3>2. ListOK(list) /\ Len(list) <= n
      BY <1>3, LexicalList
    <3>3. ASSUME NEW ix, DocsFor(SearchedDocs, ix), NEW i \in 1 .. Len(list)
          PROVE  /\ list[i].row \in ix.live
                 /\ list[i].score = req.query.lexical[ix.rows[list[i].row + 1]]
      <4>1. list = Take(n, Ranked(Hits(SearchedDocs, req.query)))
        OBVIOUS
      <4> HIDE DEF list, n
      <4> QED
        BY <1>3, <3>3, <4>1, LexicalListOf
    <3>4. req.view = "ready" => SearchedDocs = lexical /\ DocsFor(SearchedDocs, store)
      BY <1>1 DEF SearchedDocs, CopiesAgree
    <3>5. req.view = "ready" => list = Take(n, Ranked(Hits(lexical, req.query)))
      BY <3>4
    <3> HIDE DEF list, x, n
    <3>6. x.status = "ok" /\ x.rows = list /\ x \in Outcomes
      <4>1. list \in Seq([row : Nat, score : Int])
        BY <3>2 DEF ListOK
      <4> QED
        BY <3>1, <4>1 DEF Outcomes
    <3>7. req' = [req EXCEPT !.lexical = x]
      BY <2>1 DEF x, n
    <3>8. req.view = "ready" => \A i \in 1 .. Len(list) :
                /\ list[i].row \in store.live
                /\ list[i].score = req.query.lexical[store.rows[list[i].row + 1]]
      BY <3>3, <3>4
    <3> QED
      BY <3>2, <3>5, <3>6, <3>7, <3>8
  <2>2. CASE req' = [req EXCEPT !.lexical = Failed]
    <3>1. ListOK(<<>>) /\ Len(<<>>) <= n /\ \A i \in 1 .. Len(<<>>) : FALSE
      BY <1>3, EmptyList
    <3> QED
      BY <2>2, <3>1, FailedFacts
  <2> QED
    BY <2>1, <2>2 DEF RetrieveLexical
<1>5. /\ req' \in Requests /\ req'.lexical = x /\ req'.dense = req.dense /\ req'.pc = "retrieve"
      /\ req'.kind = req.kind /\ req'.view = req.view /\ req'.query = req.query
      /\ req'.config = req.config
  BY <1>1, <1>4, Filled
<1>6. Held' /\ SearchedRows' = SearchedRows
  BY <1>1, <1>5 DEF Held, SearchedRows
<1>7. Lists'
  <2>1. UNCHANGED <<store, lexical, dense>>
    BY <1>1
  <2>2. Lists
    BY <1>1
  <2> HIDE <1>1
  <2>3. /\ req.query \in Queries \union LateQueries /\ req.config \in Configs
        /\ req.kind \in {"search", "similar"}
        /\ ListOK(req.dense.rows) /\ Len(req.dense.rows) <= req.config.dense_depth
    BY <2>2 DEF Lists
  <2>4. \A i \in 1 .. Len(req'.dense.rows) :
           /\ req'.dense.rows[i].row \in SearchedRows'.live
           /\ req'.dense.rows[i].score =
                 req'.query.dense[SearchedRows'.rows[req'.dense.rows[i].row + 1]]
    BY <1>5, <1>6, <2>2 DEF Lists
  <2>5. ListOK(req'.lexical.rows) /\ Len(req'.lexical.rows) <= req'.config.lexical_depth
    BY <1>4, <1>5
  <2>6. ASSUME req'.view = "ready"
        PROVE  /\ \A i \in 1 .. Len(req'.lexical.rows) :
                     /\ req'.lexical.rows[i].row \in store'.live
                     /\ req'.lexical.rows[i].score =
                           req'.query.lexical[store'.rows[req'.lexical.rows[i].row + 1]]
               /\ req'.dense.status = "ok" /\ req'.config.dense_depth > 0 =>
                     req'.dense.rows = ReferenceSearch(dense', req'.query, req'.config.dense_depth)
               /\ req'.lexical.status = "ok" /\ req'.kind = "search" =>
                     req'.lexical.rows = Take(req'.config.lexical_depth,
                                              Ranked(Hits(lexical', req'.query)))
    <3>1. \A i \in 1 .. Len(req'.lexical.rows) :
             /\ req'.lexical.rows[i].row \in store'.live
             /\ req'.lexical.rows[i].score =
                   req'.query.lexical[store'.rows[req'.lexical.rows[i].row + 1]]
      BY <1>4, <1>5, <2>1, <2>6
    <3>2. req'.dense.status = "ok" /\ req'.config.dense_depth > 0 =>
             req'.dense.rows = ReferenceSearch(dense', req'.query, req'.config.dense_depth)
      BY <1>5, <2>1, <2>2, <2>6 DEF Lists
    <3>3. req'.lexical.status = "ok" =>
             req'.lexical.rows = Take(req'.config.lexical_depth,
                                      Ranked(Hits(lexical', req'.query)))
      BY <1>4, <1>5, <2>1, <2>6
    <3> QED
      BY <3>1, <3>2, <3>3
  <2> QED
    BY <1>5, <2>3, <2>4, <2>5, <2>6 DEF Lists
<1> QED
  BY <1>2, <1>5, <1>6, <1>7 DEF SearchInv, HasResults

\* The dense retriever returns, or fails.
LEMMA DenseStep ==
    ASSUME SearchInv, RetrieveDense
    PROVE  SearchInv'
<1>1. /\ req.pc = "retrieve" /\ req \in Requests /\ Held /\ Lists /\ CopiesAgree
      /\ UNCHANGED <<store, lexical, reader, dense, serving, frozen>>
  BY DEF SearchInv, RetrieveDense
<1>2. CopiesAgree'
  BY <1>1, CopiesStay
<1> DEFINE n == req.config.dense_depth
           ix == SearchedRows
<1>3. /\ n \in Nat /\ QueryOK(req.query) /\ IndexOK(ix)
      /\ req.query \in Queries \union LateQueries /\ req.config \in Configs
  BY <1>1, AskedFacts, SearchedFacts DEF Lists
<1>4. PICK x \in Outcomes :
         /\ req' = [req EXCEPT !.dense = x]
         /\ ListOK(x.rows) /\ Len(x.rows) <= n
         /\ \A i \in 1 .. Len(x.rows) :
               /\ x.rows[i].row \in ix.live
               /\ x.rows[i].score = req.query.dense[ix.rows[x.rows[i].row + 1]]
         /\ x.status = "ok" /\ n > 0 => x.rows = ReferenceSearch(ix, req.query, n)
  <2>1. CASE req' = [req EXCEPT !.dense = DenseSearch(SearchedRows, req.query, n)]
    <3> DEFINE x == DenseSearch(ix, req.query, n)
    <3> HIDE DEF ix, n
    <3>1. /\ x.status \in {"ok", "failed"} /\ x = [status |-> x.status, rows |-> x.rows]
          /\ ListOK(x.rows) /\ Len(x.rows) <= n
          /\ \A i \in 1 .. Len(x.rows) :
                /\ x.rows[i].row \in ix.live
                /\ x.rows[i].score = req.query.dense[ix.rows[x.rows[i].row + 1]]
          /\ x.status = "ok" /\ n > 0 => x.rows = ReferenceSearch(ix, req.query, n)
      BY <1>3, DenseOutcome
    <3>2. req' = [req EXCEPT !.dense = x]
      BY <2>1 DEF ix, n
    <3> HIDE DEF x
    <3>3. x \in Outcomes
      <4>1. x.rows \in Seq([row : Nat, score : Int])
        BY <3>1 DEF ListOK
      <4> QED
        BY <3>1, <4>1 DEF Outcomes
    <3> QED
      BY <3>1, <3>2, <3>3
  <2>2. CASE req' = [req EXCEPT !.dense = Failed]
    <3>1. ListOK(<<>>) /\ Len(<<>>) <= n /\ \A i \in 1 .. Len(<<>>) : FALSE
      BY <1>3, EmptyList
    <3> QED
      BY <2>2, <3>1, FailedFacts
  <2> QED
    BY <2>1, <2>2 DEF RetrieveDense
<1>5. /\ req' \in Requests /\ req'.dense = x /\ req'.lexical = req.lexical /\ req'.pc = "retrieve"
      /\ req'.kind = req.kind /\ req'.view = req.view /\ req'.query = req.query
      /\ req'.config = req.config
  BY <1>1, <1>4, Filled
<1>6. Held' /\ SearchedRows' = SearchedRows
  BY <1>1, <1>5 DEF Held, SearchedRows
<1>7. req.view = "ready" => SearchedRows = dense
  BY DEF SearchedRows
<1>8. Lists'
  BY <1>1, <1>4, <1>5, <1>6, <1>7 DEF Lists
<1> QED
  BY <1>2, <1>5, <1>6, <1>8 DEF SearchInv, HasResults

\* An answer keeps the lists it was made of.
LEMMA AnsweredKeeps ==
    ASSUME SearchInv, req.pc = "retrieve", NEW status, NEW results,
           req' = Answered(status, results),
           UNCHANGED <<store, lexical, reader, dense, serving, frozen>>
    PROVE  /\ req'.pc = "answered" /\ req'.kind \in {"search", "similar"}
           /\ req'.view = req.view /\ req'.status = status /\ req'.results = results
           /\ req'.lexical = req.lexical /\ req'.dense = req.dense
           /\ req'.config = req.config
           /\ req'.lexical_ok = (req.lexical.status = "ok")
           /\ req'.dense_ok = (req.dense.status = "ok")
           /\ FusedRows' = FusedRows
           /\ Held' /\ Lists' /\ CopiesAgree'
<1>1. /\ req'.pc = "answered" /\ req'.kind = req.kind
      /\ req'.view = req.view /\ req'.status = status /\ req'.results = results
      /\ req'.lexical = req.lexical /\ req'.dense = req.dense
      /\ req'.query = req.query /\ req'.config = req.config
      /\ req'.lexical_ok = (req.lexical.status = "ok")
      /\ req'.dense_ok = (req.dense.status = "ok")
  BY DEF Answered
<1>2. Held /\ Lists /\ CopiesAgree
  BY DEF SearchInv
<1>3. FusedRows' = FusedRows
  BY <1>1 DEF FusedRows
<1>4. Held' /\ SearchedRows' = SearchedRows
  BY <1>1, <1>2 DEF Held, SearchedRows
<1>5. Lists'
  BY <1>1, <1>2, <1>4 DEF Lists
<1>6. CopiesAgree'
  BY <1>2, CopiesStay
<1>7. req'.kind \in {"search", "similar"}
  BY <1>1, <1>2 DEF Lists
<1> QED
  BY <1>1, <1>3, <1>4, <1>5, <1>6, <1>7

\* The resident answers, from its own store and lexical index.
LEMMA AnswerStep ==
    ASSUME SearchInv, Answer
    PROVE  SearchInv'
<1> DEFINE made == Assemble(Records(store), Bodies(lexical), FusedRows, req.config.top_k)
           neither == req.lexical.status = "failed" /\ req.dense.status = "failed"
<1>1. /\ req.pc = "retrieve" /\ req.view = "ready"
      /\ req.lexical.status \in {"ok", "failed"} /\ req.dense.status \in {"ok", "failed"}
      /\ UNCHANGED <<store, lexical, reader, dense, serving, frozen>>
  <2>1. req.pc = "retrieve" /\ req.view = "ready"
        /\ req.lexical.status # "pending" /\ req.dense.status # "pending"
        /\ UNCHANGED <<store, lexical, reader, dense, serving, frozen>>
    BY DEF Answer, BothReturned
  <2>2. req \in Requests
    BY <2>1 DEF SearchInv
  <2>3. req.lexical \in Outcomes /\ req.dense \in Outcomes
    BY <2>2 DEF Requests
  <2>4. req.lexical.status \in {"ok", "failed", "pending"}
        /\ req.dense.status \in {"ok", "failed", "pending"}
    BY <2>3 DEF Outcomes
  <2> QED
    BY <2>1, <2>4
<1>2. PICK status, results :
         /\ req' = Answered(status, results)
         /\ status = "both failed" <=> neither
         /\ status = "ok" => results = made
  <2>1. CASE neither
    <3>1. req' = Answered("both failed", <<>>)
      BY <2>1 DEF Answer
    <3>2. ("both failed" = "both failed" <=> neither) /\ ("both failed" = "ok" => <<>> = made)
      <4> HIDE DEF made
      <4> QED
        BY <2>1
    <3> HIDE DEF made, neither
    <3> QED
      BY <3>1, <3>2, Zenon
  <2>2. CASE ~neither
    <3>1. req' = Answered("ok", made) \/ req' = Answered("error", <<>>)
      BY <2>2 DEF Answer
    <3> HIDE DEF made
    <3>2. /\ "ok" = "both failed" <=> neither
          /\ "error" = "both failed" <=> neither
          /\ "error" = "ok" => <<>> = made
      BY <2>2
    <3> HIDE DEF neither
    <3>3. CASE req' = Answered("ok", made)
      BY <3>2, <3>3, Zenon
    <3>4. CASE req' = Answered("error", <<>>)
      BY <3>2, <3>4, Zenon
    <3> QED
      BY <3>1, <3>3, <3>4
  <2> QED
    BY <2>1, <2>2
<1>3. /\ req'.pc = "answered" /\ req'.kind \in {"search", "similar"}
      /\ req'.view = "ready" /\ req'.status = status /\ req'.results = results
      /\ req'.lexical = req.lexical /\ req'.dense = req.dense
      /\ req'.config = req.config
      /\ req'.lexical_ok = (req.lexical.status = "ok")
      /\ req'.dense_ok = (req.dense.status = "ok")
      /\ FusedRows' = FusedRows
      /\ Held' /\ Lists' /\ CopiesAgree'
  BY <1>1, <1>2, AnsweredKeeps
<1>4. Made'
  <2>1. status = "ok" => req'.results =
           Assemble(Records(store), Bodies(lexical), FusedRows, req.config.top_k)'
    BY <1>1, <1>2, <1>3
  <2> HIDE DEF made
  <2> QED
    BY <1>1, <1>2, <1>3, <2>1 DEF Made
<1> QED
  BY <1>3, <1>4 DEF SearchInv, HasResults

\* The frozen view answers, from the copy.
LEMMA AnswerFrozenStep ==
    ASSUME SearchInv, AnswerFrozen
    PROVE  SearchInv'
<1> DEFINE made == Assemble(frozen.records, frozen.bodies, FusedRows, req.config.top_k)
<1>1. /\ req.pc = "retrieve" /\ req.view = "indexing" /\ req' = Answered("ok", made)
      /\ UNCHANGED <<store, lexical, reader, dense, serving, frozen>>
  BY DEF AnswerFrozen, BothReturned
<1>2. /\ req'.pc = "answered" /\ req'.kind \in {"search", "similar"}
      /\ req'.view = "indexing" /\ req'.results = made
      /\ req'.config = req.config /\ FusedRows' = FusedRows
      /\ Held' /\ Lists' /\ CopiesAgree'
  BY <1>1, AnsweredKeeps
<1>3. Made'
  BY <1>1, <1>2 DEF Made
<1> QED
  BY <1>2, <1>3 DEF SearchInv, HasResults

\* A symbol is looked up in the resident, or in the copy.
LEMMA SymbolStep ==
    ASSUME SearchInv, NEW name, GetSymbol(name)
    PROVE  SearchInv'
<1> DEFINE answer == IF serving = "ready" THEN Resolve(Records(store), Bodies(lexical), name)
                     ELSE Resolve(frozen.records, frozen.bodies, name)
<1>1. /\ req' = [pc |-> "answered", kind |-> "symbol", name |-> name, view |-> serving,
                 answer |-> answer]
      /\ UNCHANGED <<store, lexical, reader, dense, serving, frozen>>
  BY DEF GetSymbol
<1>2. CopiesAgree /\ CopiesAgree' /\ serving \in {"ready", "indexing"}
  BY <1>1, CopiesStay DEF SearchInv, CopiesAgree
<1>3. answer = Resolve(Records(IF serving = "ready" THEN dense ELSE frozen.dense),
                       Records(IF serving = "ready" THEN dense ELSE frozen.dense), name)
  <2>1. CASE serving = "ready"
    <3>1. dense = FromStore(store) /\ IndexOK(store) /\ DocsFor(lexical, store)
      BY <1>2, <2>1 DEF CopiesAgree
    <3>2. Bodies(lexical) = Records(store) /\ Records(dense) = Records(store)
      BY <3>1, BodiesAreRecords, CopyFacts
    <3> QED
      BY <2>1, <3>2
  <2>2. CASE serving = "indexing"
    BY <1>2, <2>2 DEF CopiesAgree
  <2> QED
    BY <1>2, <2>1, <2>2
<1> HIDE DEF answer
<1>4. /\ req'.pc = "answered" /\ req'.kind = "symbol" /\ req'.name = name
      /\ req'.view = serving /\ req'.answer = answer
  BY <1>1
<1>5. Held'
  BY <1>1, <1>2, <1>4 DEF Held
<1>6. SearchedRows' = IF serving = "ready" THEN dense ELSE frozen.dense
  BY <1>1, <1>4 DEF SearchedRows
<1>7. SymbolFound'
  BY <1>3, <1>4, <1>6 DEF SymbolFound
<1> QED
  BY <1>2, <1>4, <1>5, <1>7 DEF SearchInv, HasResults

\* Every step keeps the invariant.
LEMMA NextInv ==
    SearchInv /\ [Next]_vars => SearchInv'
<1> SUFFICES ASSUME SearchInv, [Next]_vars
             PROVE  SearchInv'
  OBVIOUS
<1>1. CASE UNCHANGED vars
  <2>1. UNCHANGED <<store, lexical, reader, dense, serving, frozen, req>>
    BY <1>1 DEF vars
  <2>2. CopiesAgree'
    BY <2>1, CopiesStay DEF SearchInv
  <2>3. Held' = Held /\ SearchedRows' = SearchedRows /\ FusedRows' = FusedRows
    BY <2>1 DEF Held, SearchedRows, FusedRows
  <2>4. Lists' = Lists /\ Made' = Made /\ SymbolFound' = SymbolFound
    BY <2>1, <2>3 DEF Lists, Made, SymbolFound
  <2> QED
    BY <2>1, <2>2, <2>3, <2>4 DEF SearchInv, HasResults
<1>2. CASE \E kind \in {"search", "similar"}, query \in Asked, config \in Configs :
              Ask(kind, query, config)
  BY <1>2, AskStep
<1>3. CASE EmbedFails \/ Sent
  BY <1>3, EndStep
<1>4. CASE RetrieveLexical
  BY <1>4, LexicalStep
<1>5. CASE RetrieveDense
  BY <1>5, DenseStep
<1>6. CASE Answer
  BY <1>6, AnswerStep
<1>7. CASE AnswerFrozen
  BY <1>7, AnswerFrozenStep
<1>8. CASE \E chunk \in Chunks : GetSymbol(NameOf[chunk])
  BY <1>8, SymbolStep
<1>9. CASE Split
  BY <1>9, SplitStep
<1>10. CASE \E chunk \in Chunks : CommitInsert(chunk)
  BY <1>10, InsertStep
<1>11. CASE \E row \in store.live : CommitRemove(row)
  BY <1>11, RemoveStep
<1>12. CASE CommitCompact
  BY <1>12, CompactStep
<1>13. CASE ReaderReloads
  BY <1>13, ReloadStep
<1>14. CASE Rebuild
  BY <1>14, RebuildStep
<1> QED
  BY <1>1, <1>2, <1>3, <1>4, <1>5, <1>6, <1>7, <1>8, <1>9, <1>10, <1>11, <1>12, <1>13, <1>14
  DEF Next

\* The invariant holds throughout.
THEOREM SearchInvariant ==
    Spec => []SearchInv
  BY InitInv, NextInv, PTL DEF Spec

-----------------------------------------------------------------------------
(***************************************************************************)
(* What an answer promises.                                                *)
(***************************************************************************)

\* RetrieversExact, of every reachable state: a search of the resident ranks
\* what a full sort would rank, the dense heap and the segments
\* notwithstanding.
THEOREM RetrieversAreExact ==
    Spec => []RetrieversExact
<1>1. SearchInv => RetrieversExact
  BY DEF SearchInv, Lists, RetrieversExact
<1> QED
  BY <1>1, SearchInvariant, PTL

\* An answered request: the fused rows are those of its two lists, and its
\* results were assembled from them out of one index.
LEMMA AnswerFacts ==
    ASSUME SearchInv, HasResults, req.view = "indexing" \/ req.status = "ok"
    PROVE  /\ FusionOf(FusedRows, req.lexical.rows, req.dense.rows)
           /\ ListOK(req.lexical.rows) /\ ListOK(req.dense.rows)
           /\ req.config.top_k \in Nat
           /\ IndexOK(SearchedRows)
           /\ AssemblyOf(req.results, Records(SearchedRows), Records(SearchedRows),
                         FusedRows, req.config.top_k)
           /\ req.view = "ready" => SearchedRows.rows = store.rows /\ SearchedRows.live = store.live
           /\ req.view \in {"ready", "indexing"}
<1>1. Held /\ Lists /\ Made /\ CopiesAgree
  BY DEF SearchInv
<1>2. /\ ListOK(req.lexical.rows) /\ ListOK(req.dense.rows)
      /\ Len(req.lexical.rows) <= req.config.lexical_depth
      /\ Len(req.dense.rows) <= req.config.dense_depth
      /\ req.config \in Configs
  BY <1>1 DEF Lists
<1>3. /\ req.config.lexical_depth \in Nat /\ req.config.dense_depth \in Nat
      /\ req.config.top_k \in Nat
  BY <1>2, AskedFacts
<1>4. FusionOf(FusedRows, req.lexical.rows, req.dense.rows)
  BY <1>2, <1>3, FuseFacts DEF FusedRows
<1>5. IndexOK(SearchedRows)
  BY <1>1, SearchedFacts
<1>6. req.view = "ready" => SearchedRows.rows = store.rows /\ SearchedRows.live = store.live
  BY <1>1, CopyFacts DEF Held, CopiesAgree, SearchedRows
<1>7. req.results = Assemble(Records(SearchedRows), Records(SearchedRows), FusedRows,
                             req.config.top_k)
  <2>1. CASE req.view = "ready"
    <3>1. Bodies(lexical) = Records(store) /\ Records(SearchedRows) = Records(store)
      BY <1>1, <1>6, <2>1, BodiesAreRecords DEF CopiesAgree, Records
    <3>2. req.results = Assemble(Records(store), Bodies(lexical), FusedRows, req.config.top_k)
      BY <1>1, <2>1 DEF Made
    <3> QED
      BY <3>1, <3>2
  <2>2. CASE req.view = "indexing"
    <3>1. SearchedRows = frozen.dense
      BY <2>2 DEF SearchedRows
    <3> QED
      BY <1>1, <2>2, <3>1 DEF Made, CopiesAgree
  <2> QED
    BY <1>1, <2>1, <2>2 DEF Held
<1>8. AssemblyOf(req.results, Records(SearchedRows), Records(SearchedRows),
                 FusedRows, req.config.top_k)
  <2>1. PICK F : FusedRows \in Seq(F)
    BY <1>4 DEF FusionOf
  <2> QED
    BY <1>3, <1>7, <2>1, AssembleFacts
<1> QED
  BY <1>1, <1>2, <1>3, <1>4, <1>5, <1>6, <1>8 DEF Held

\* FusionRespectsBothRankings, of every reachable state: no result comes
\* after one it stands at least as well as with each retriever.
THEOREM FusionIsRespectful ==
    Spec => []FusionRespectsBothRankings
<1>1. SearchInv => FusionRespectsBothRankings
  <2> SUFFICES ASSUME SearchInv, HasResults, req.status = "ok",
                      NEW i \in DOMAIN req.results, NEW j \in DOMAIN req.results,
                      AtLeastAs(req.results[i].from.lexical, req.results[j].from.lexical),
                      AtLeastAs(req.results[i].from.dense, req.results[j].from.dense)
               PROVE  i <= j
    BY DEF FusionRespectsBothRankings
  <2> QED
    BY AnswerFacts, FusionRespected
<1> QED
  BY <1>1, SearchInvariant, PTL

\* One result of an answer: record, body, scores and preview of one live chunk.
LEMMA ResultFacts ==
    ASSUME SearchInv, HasResults, req.view = "indexing" \/ req.status = "ok",
           NEW i \in DOMAIN req.results
    PROVE  LET r == req.results[i]
           IN  /\ r.from.row \in SearchedRows.live
               /\ r.chunk = SearchedRows.rows[r.from.row + 1]
               /\ r.body = r.chunk
               /\ OwnScores(r, req.view = "ready")
<1> DEFINE r == req.results[i]
           lex == req.lexical.rows
           den == req.dense.rows
           ix == SearchedRows
           records == Records(ix)
           K == KeptOf(records, FusedRows, req.config.top_k)
           k == Ascending(K)[i]
           row == FusedRows[k].row
<1>1. /\ ListOK(lex) /\ ListOK(den) /\ FusionOf(FusedRows, lex, den) /\ IndexOK(ix)
      /\ AssemblyOf(req.results, records, records, FusedRows, req.config.top_k)
      /\ req.config.top_k \in Nat
      /\ req.view = "ready" => ix.rows = store.rows /\ ix.live = store.live
  BY AnswerFacts
<1>2. Lists
  BY DEF SearchInv
<1>3. /\ k \in K /\ r.from = FusedRows[k] /\ r.chunk = records[row]
      /\ r.body = BodyAt(records, row)
      /\ r.body # None => r.preview = PreviewOf(CharsOf[r.body])
  BY <1>1 DEF AssemblyOf
<1>4. k \in 1 .. Len(FusedRows) /\ row \in DOMAIN records
  <2>1. PICK F : FusedRows \in Seq(F)
    BY <1>1 DEF FusionOf
  <2>2. /\ Take(req.config.top_k, FusedRows) \in Seq(F)
        /\ \A n \in DOMAIN Take(req.config.top_k, FusedRows) : n \in DOMAIN FusedRows
    BY <1>1, <2>1, TakeFacts
  <2>3. /\ DOMAIN Take(req.config.top_k, FusedRows) = 1 .. Len(Take(req.config.top_k, FusedRows))
        /\ DOMAIN FusedRows = 1 .. Len(FusedRows)
    BY <2>1, <2>2
  <2>4. k \in 1 .. Len(Take(req.config.top_k, FusedRows)) /\ row \in DOMAIN records
    BY <1>3 DEF KeptOf
  <2> QED
    BY <2>2, <2>3, <2>4
<1>5. row \in ix.live /\ records[row] = ix.rows[row + 1]
  BY <1>4 DEF Records
<1>6. r.chunk = ix.rows[row + 1] /\ r.body = r.chunk
  BY <1>3, <1>4, <1>5 DEF BodyAt
<1>7. r.chunk \in Chunks /\ r.chunk # None
  <2>1. row \in 0 .. (Len(ix.rows) - 1) /\ Len(ix.rows) \in Nat
        /\ \A n \in 1 .. Len(ix.rows) : ix.rows[n] \in Chunks
    BY <1>1, <1>5 DEF IndexOK
  <2>2. row + 1 \in 1 .. Len(ix.rows)
    BY <2>1
  <2>3. r.chunk \in Chunks
    BY <1>6, <2>1, <2>2
  <2> QED
    BY <2>3, SearchAssumption
<1>8. r.preview = PreviewOf(CharsOf[r.chunk])
  BY <1>3, <1>6, <1>7
<1> DEFINE f == r.from
<1>9. f.row = row /\ f = FusedRow(f.row, lex, den)
  BY <1>1, <1>3, <1>4 DEF FusionOf
<1> HIDE DEF r, lex, den, ix, records, K, k, row, f
<1>10. f.lexical = ContributionOf(lex, f.row) /\ f.dense = ContributionOf(den, f.row)
  BY <1>1, <1>9, FusedRowFacts
<1>11. /\ (f.dense.score # None) <=> f.row \in RowsOf(den)
       /\ (f.lexical.score # None) <=> f.row \in RowsOf(lex)
  BY <1>1, <1>10, ContributionFacts
<1>12. ASSUME f.dense.score # None
       PROVE  f.dense.score = req.query.dense[r.chunk]
  <2>1. /\ f.dense.rank \in 1 .. Len(den) /\ den[f.dense.rank].row = row
        /\ f.dense.score = den[f.dense.rank].score
    BY <1>1, <1>9, <1>10, <1>11, <1>12, ContributionFacts
  <2>2. \A n \in 1 .. Len(den) : den[n].score = req.query.dense[ix.rows[den[n].row + 1]]
    BY <1>2 DEF Lists, den, ix
  <2> QED
    BY <1>6, <2>1, <2>2
<1>13. ASSUME req.view = "ready", f.lexical.score # None
       PROVE  f.lexical.score = req.query.lexical[r.chunk]
  <2>1. /\ f.lexical.rank \in 1 .. Len(lex) /\ lex[f.lexical.rank].row = row
        /\ f.lexical.score = lex[f.lexical.rank].score
    BY <1>1, <1>9, <1>10, <1>11, <1>13, ContributionFacts
  <2>2. \A n \in 1 .. Len(lex) : lex[n].score = req.query.lexical[store.rows[lex[n].row + 1]]
    BY <1>2, <1>13 DEF Lists, lex
  <2> QED
    BY <1>1, <1>6, <1>13, <2>1, <2>2
<1>14. /\ f.row \in RowsOf(den) <=> \E n \in DOMAIN den : den[n].row = f.row
       /\ f.row \in RowsOf(lex) <=> \E n \in DOMAIN lex : lex[n].row = f.row
  BY DEF RowsOf
<1>15. /\ (f.dense.score # None) = (\E n \in DOMAIN den : den[n].row = f.row)
       /\ (f.lexical.score # None) = (\E n \in DOMAIN lex : lex[n].row = f.row)
  BY <1>11, <1>14
<1>16. /\ r.preview \in CharsOf[r.chunk].boundaries
       /\ \A b \in CharsOf[r.chunk].boundaries : b <= PreviewMax => b <= r.preview
  BY <1>7, <1>8, PreviewFacts
<1>17. OwnScores(r, req.view = "ready")
  BY <1>12, <1>13, <1>15, <1>16 DEF OwnScores, f, lex, den
<1> QED
  BY <1>5, <1>6, <1>9, <1>17 DEF r, ix, f

\* An answer of the resident has as many results as were found, up to top_k.
LEMMA NothingIsLost ==
    ASSUME SearchInv, HasResults, req.view = "ready", req.status = "ok"
    PROVE  LET found == RowsOf(req.lexical.rows) \union RowsOf(req.dense.rows)
           IN  Len(req.results) = IF Cardinality(found) < req.config.top_k
                                  THEN Cardinality(found) ELSE req.config.top_k
<1> DEFINE lex == req.lexical.rows
           den == req.dense.rows
           found == RowsOf(lex) \union RowsOf(den)
           n == req.config.top_k
           first == Take(n, FusedRows)
           K == KeptOf(Records(SearchedRows), FusedRows, n)
<1>1. /\ FusionOf(FusedRows, lex, den) /\ ListOK(lex) /\ ListOK(den) /\ n \in Nat
      /\ AssemblyOf(req.results, Records(SearchedRows), Records(SearchedRows), FusedRows, n)
      /\ SearchedRows.live = store.live
  BY AnswerFacts
<1>2. Lists
  BY DEF SearchInv
<1>3. Len(FusedRows) = Cardinality(found) /\ Len(FusedRows) \in Nat
  BY <1>1 DEF FusionOf
<1>4. found \subseteq SearchedRows.live
  <2>1. ASSUME NEW r \in RowsOf(lex)
        PROVE  r \in SearchedRows.live
    <3>1. PICK i \in 1 .. Len(lex) : lex[i].row = r
      BY <1>1, ListElements DEF RowsOf
    <3> QED
      BY <1>1, <1>2, <3>1 DEF Lists
  <2>2. ASSUME NEW r \in RowsOf(den)
        PROVE  r \in SearchedRows.live
    <3>1. PICK i \in 1 .. Len(den) : den[i].row = r
      BY <1>1, ListElements DEF RowsOf
    <3> QED
      BY <1>2, <3>1 DEF Lists
  <2> QED
    BY <2>1, <2>2
<1>5. PICK m \in Nat : m = (IF n < Len(FusedRows) THEN n ELSE Len(FusedRows))
  BY <1>1, <1>3
<1>6. Len(first) = m /\ \A i \in 1 .. m : i \in 1 .. Len(FusedRows)
  <2>1. PICK F : FusedRows \in Seq(F)
    BY <1>1 DEF FusionOf
  <2>2. Len(first) = IF n < Len(FusedRows) THEN n ELSE Len(FusedRows)
    BY <1>1, <2>1, TakeFacts
  <2> QED
    BY <1>1, <1>3, <1>5, <2>2
<1>7. K = 1 .. m
  <2>1. \A i \in 1 .. m : FusedRows[i].row \in DOMAIN Records(SearchedRows)
    BY <1>1, <1>4, <1>6 DEF FusionOf, Records
  <2> QED
    BY <1>6, <2>1 DEF KeptOf
<1>8. Cardinality(K) = m
  <2>1. Cardinality(1 .. m) = IF 1 > m THEN 0 ELSE m - 1 + 1
    BY FS_Interval
  <2>2. Cardinality(1 .. m) = m
    BY <2>1
  <2> QED
    BY <1>7, <2>2
<1>9. Len(req.results) = m
  BY <1>1, <1>8 DEF AssemblyOf
<1> HIDE DEF found, n
<1>10. m = IF Cardinality(found) < n THEN Cardinality(found) ELSE n
  BY <1>1, <1>3, <1>5
<1> QED
  BY <1>9, <1>10 DEF found, n

\* ReadyAnswerIsWhole, of every reachable state: an answer of the resident
\* loses nothing that was found and mixes nothing.
THEOREM ReadyAnswersAreWhole ==
    Spec => []ReadyAnswerIsWhole
<1>1. SearchInv => ReadyAnswerIsWhole
  <2> SUFFICES ASSUME SearchInv, HasResults, req.view = "ready"
               PROVE  LET found == RowsOf(req.lexical.rows) \union RowsOf(req.dense.rows)
                          least == IF Cardinality(found) < req.config.top_k
                                   THEN Cardinality(found) ELSE req.config.top_k
                      IN  /\ req.status = "both failed" <=> ~req.lexical_ok /\ ~req.dense_ok
                          /\ req.status = "ok" =>
                                /\ Len(req.results) = least
                                /\ \A i \in DOMAIN req.results :
                                      LET r == req.results[i]
                                      IN  /\ r.body = r.chunk
                                          /\ r.chunk \in {store.rows[row + 1] : row \in store.live}
                                          /\ OwnScores(r, TRUE)
    BY DEF ReadyAnswerIsWhole
  <2>1. Made
    BY DEF SearchInv
  <2>2. req.status = "both failed" <=> ~req.lexical_ok /\ ~req.dense_ok
    <3>1. /\ req.lexical.status \in {"ok", "failed"} /\ req.dense.status \in {"ok", "failed"}
          /\ req.lexical_ok = (req.lexical.status = "ok")
          /\ req.dense_ok = (req.dense.status = "ok")
          /\ req.status = "both failed" <=>
                req.lexical.status = "failed" /\ req.dense.status = "failed"
      BY <2>1 DEF Made
    <3>2. /\ req.lexical.status = "failed" <=> ~(req.lexical.status = "ok")
          /\ req.dense.status = "failed" <=> ~(req.dense.status = "ok")
      BY <3>1
    <3> QED
      BY <3>1, <3>2
  <2>3. ASSUME req.status = "ok", NEW i \in DOMAIN req.results
        PROVE  /\ req.results[i].body = req.results[i].chunk
               /\ req.results[i].chunk \in {store.rows[row + 1] : row \in store.live}
               /\ OwnScores(req.results[i], TRUE)
    <3> DEFINE r == req.results[i]
    <3>1. /\ r.from.row \in SearchedRows.live /\ r.chunk = SearchedRows.rows[r.from.row + 1]
          /\ r.body = r.chunk /\ OwnScores(r, req.view = "ready")
      BY <2>3, ResultFacts
    <3>2. SearchedRows.rows = store.rows /\ SearchedRows.live = store.live
      BY <2>3, AnswerFacts
    <3>3. OwnScores(r, TRUE)
      BY <3>1 DEF OwnScores
    <3> QED
      BY <3>1, <3>2, <3>3
  <2> QED
    BY <2>2, <2>3, NothingIsLost
<1> QED
  BY <1>1, SearchInvariant, PTL

\* FrozenAnswerIsOneCopy, of every reachable state: what is answered while a
\* run commits comes from the copy taken before it.
THEOREM FrozenAnswersAreOneCopy ==
    Spec => []FrozenAnswerIsOneCopy
<1>1. ASSUME SearchInv, HasResults, req.view = "indexing"
      PROVE  /\ \A i \in DOMAIN req.results :
                   /\ req.results[i].body = req.results[i].chunk
                   /\ req.results[i].chunk = frozen.dense.rows[req.results[i].from.row + 1]
                   /\ OwnScores(req.results[i], FALSE)
             /\ \A i \in DOMAIN Take(req.config.top_k, FusedRows) :
                   \/ FusedRows[i].row \notin frozen.dense.live
                   \/ \E j \in DOMAIN req.results : req.results[j].from = FusedRows[i]
  <2>1. SearchedRows = frozen.dense
    BY <1>1 DEF SearchedRows
  <2>2. ASSUME NEW i \in DOMAIN req.results
        PROVE  /\ req.results[i].body = req.results[i].chunk
               /\ req.results[i].chunk = frozen.dense.rows[req.results[i].from.row + 1]
               /\ OwnScores(req.results[i], FALSE)
    <3> DEFINE r == req.results[i]
    <3>1. /\ r.chunk = SearchedRows.rows[r.from.row + 1]
          /\ r.body = r.chunk /\ OwnScores(r, req.view = "ready")
      BY <1>1, ResultFacts
    <3>2. OwnScores(r, FALSE)
      BY <3>1 DEF OwnScores
    <3> QED
      BY <2>1, <3>1, <3>2
  <2>3. ASSUME NEW i \in DOMAIN Take(req.config.top_k, FusedRows),
               FusedRows[i].row \in frozen.dense.live
        PROVE  \E j \in DOMAIN req.results : req.results[j].from = FusedRows[i]
    <3> DEFINE n == req.config.top_k
               records == Records(SearchedRows)
               K == KeptOf(records, FusedRows, n)
    <3>1. /\ FusionOf(FusedRows, req.lexical.rows, req.dense.rows) /\ n \in Nat
          /\ AssemblyOf(req.results, records, records, FusedRows, n)
      BY <1>1, AnswerFacts
    <3>2. i \in K
      <4>1. PICK F : FusedRows \in Seq(F)
        BY <3>1 DEF FusionOf
      <4>2. Take(n, FusedRows) \in Seq(F)
        BY <3>1, <4>1, TakeFacts
      <4>3. i \in 1 .. Len(Take(n, FusedRows))
        BY <2>3, <4>2
      <4>4. FusedRows[i].row \in DOMAIN records
        BY <2>1, <2>3 DEF Records
      <4> QED
        BY <4>3, <4>4 DEF KeptOf
    <3>3. PICK j \in 1 .. Cardinality(K) : Ascending(K)[j] = i
      BY <3>1, <3>2 DEF AssemblyOf
    <3>4. j \in DOMAIN req.results /\ req.results[j].from = FusedRows[Ascending(K)[j]]
      BY <3>1, <3>3 DEF AssemblyOf
    <3> QED
      BY <3>3, <3>4
  <2> QED
    BY <2>2, <2>3
<1>2. ASSUME SearchInv, req.pc = "answered", req.kind = "symbol"
      PROVE  LET copy == Records(SearchedRows)
             IN  req.answer = Resolve(copy, copy, req.name)
  BY <1>2 DEF SearchInv, SymbolFound
<1>3. SearchInv => FrozenAnswerIsOneCopy
  BY <1>1, <1>2 DEF FrozenAnswerIsOneCopy
<1> QED
  BY <1>3, SearchInvariant, PTL

=============================================================================
