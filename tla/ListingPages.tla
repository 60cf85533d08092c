----------------------------- MODULE ListingPages -----------------------------
(***************************************************************************)
(* The inductive invariant of BackupListing, for any folder, page sizes    *)
(* and retention, and the proof that a page of the listing keeps it.       *)
(***************************************************************************)
EXTENDS BackupListing, FiniteSetTheorems, TLAPS

----------------------------------------------------------------------------
(* Finite sets in order.  R is a set of pairs. *)

StrictOrder(S, R) ==
    /\ IsFiniteSet(S)
    /\ \A x \in S : <<x, x>> \notin R
    /\ \A x, y, z \in S : <<x, y>> \in R /\ <<y, z>> \in R => <<x, z>> \in R
    /\ \A x, y \in S : x = y \/ <<x, y>> \in R \/ <<y, x>> \in R

Below(S, R, x) == {y \in S : <<y, x>> \in R}

Rank(S, R, x) == Cardinality(Below(S, R, x))

\* The n lowest members of S.
Lowest(S, R, n) == {x \in S : Rank(S, R, x) < n}

\* A set of naturals that is not empty has a least element.
LEMMA LeastNat ==
  ASSUME NEW T \in SUBSET Nat, T # {}
  PROVE  \E n \in T : \A m \in T : n <= m
  <1>1. PICK n \in T : \A m \in T : ~(<<m, n>> \in OpToRel(<, Nat))
    BY NatLessThanWellFounded, WFMin
  <1>2. \A m \in T : ~(m < n)
    BY <1>1 DEF OpToRel
  <1>3. QED
    BY <1>2

\* Subsets inherit the order.
LEMMA SubOrder ==
  ASSUME NEW S, NEW R, StrictOrder(S, R), NEW T \in SUBSET S
  PROVE  StrictOrder(T, R)
  <1>1. IsFiniteSet(T)
    BY FS_Subset DEF StrictOrder
  <1>2. QED
    BY <1>1 DEF StrictOrder

\* A rank is a number, at most that of the members.
LEMMA RankType ==
  ASSUME NEW S, NEW R, StrictOrder(S, R), NEW x \in S
  PROVE  /\ Rank(S, R, x) \in Nat /\ Cardinality(S) \in Nat
         /\ Rank(S, R, x) < Cardinality(S)
         /\ IsFiniteSet(Below(S, R, x))
  <1>1. Below(S, R, x) \in SUBSET S /\ x \notin Below(S, R, x) /\ IsFiniteSet(S)
    BY DEF Below, StrictOrder
  <1>2. /\ IsFiniteSet(Below(S, R, x)) /\ Cardinality(Below(S, R, x)) <= Cardinality(S)
        /\ Cardinality(S) = Cardinality(Below(S, R, x)) => S = Below(S, R, x)
    BY <1>1, FS_Subset
  <1>3. Cardinality(Below(S, R, x)) \in Nat /\ Cardinality(S) \in Nat
    BY <1>1, <1>2, FS_CardinalityType
  <1>4. QED
    BY <1>1, <1>2, <1>3 DEF Rank

\* Ranks grow along the order.
LEMMA RankGrows ==
  ASSUME NEW S, NEW R, StrictOrder(S, R), NEW x \in S, NEW y \in S, <<x, y>> \in R
  PROVE  Rank(S, R, x) < Rank(S, R, y)
  <1> DEFINE X == Below(S, R, x)
             Y == Below(S, R, y)
  <1>1. X \in SUBSET Y /\ x \in Y /\ x \notin X
    BY DEF StrictOrder, Below
  <1>2. IsFiniteSet(Y) /\ IsFiniteSet(X)
    BY RankType
  <1>3. Cardinality(X) <= Cardinality(Y) /\ (Cardinality(Y) = Cardinality(X) => Y = X)
    BY <1>1, <1>2, FS_Subset
  <1>4. Cardinality(X) \in Nat /\ Cardinality(Y) \in Nat
    BY <1>2, FS_CardinalityType
  <1>5. QED
    BY <1>1, <1>3, <1>4 DEF Rank

\* No two members have the same rank.
LEMMA RankInjective ==
  ASSUME NEW S, NEW R, StrictOrder(S, R), NEW x \in S, NEW y \in S,
         Rank(S, R, x) = Rank(S, R, y)
  PROVE  x = y
  <1>1. <<x, y>> \notin R
    BY RankGrows, RankType
  <1>2. <<y, x>> \notin R
    BY RankGrows, RankType
  <1>3. QED
    BY <1>1, <1>2 DEF StrictOrder

\* There is a lowest member.
LEMMA LowestExists ==
  ASSUME NEW S, NEW R, StrictOrder(S, R), S # {}
  PROVE  \E x \in S : \A y \in S : y = x \/ <<x, y>> \in R
  <1> DEFINE T == {Rank(S, R, x) : x \in S}
  <1>1. T \in SUBSET Nat /\ T # {}
    BY RankType
  <1>2. PICK n \in T : \A m \in T : n <= m
    BY <1>1, LeastNat
  <1>3. PICK x \in S : n = Rank(S, R, x)
    BY <1>2
  <1>4. ASSUME NEW y \in S, y # x, <<x, y>> \notin R PROVE FALSE
    <2>1. <<y, x>> \in R
      BY <1>4 DEF StrictOrder
    <2>2. Rank(S, R, y) < Rank(S, R, x) /\ Rank(S, R, y) \in T
      BY <2>1, RankGrows
    <2>3. QED
      BY <1>2, <1>3, <2>2, RankType
  <1>5. QED
    BY <1>4

\* There is a highest member.
LEMMA HighestExists ==
  ASSUME NEW S, NEW R, StrictOrder(S, R), S # {}
  PROVE  \E x \in S : \A y \in S : y = x \/ <<y, x>> \in R
  <1> DEFINE T == {Cardinality(S) - Rank(S, R, x) : x \in S}
  <1>1. T \in SUBSET Nat /\ T # {}
    BY RankType
  <1>2. PICK n \in T : \A m \in T : n <= m
    BY <1>1, LeastNat
  <1>3. PICK x \in S : n = Cardinality(S) - Rank(S, R, x)
    BY <1>2
  <1>4. ASSUME NEW y \in S, y # x, <<y, x>> \notin R PROVE FALSE
    <2>1. <<x, y>> \in R
      BY <1>4 DEF StrictOrder
    <2>2. Rank(S, R, x) < Rank(S, R, y) /\ Cardinality(S) - Rank(S, R, y) \in T
      BY <2>1, RankGrows
    <2>3. Cardinality(S) - Rank(S, R, x) <= Cardinality(S) - Rank(S, R, y)
      BY <1>2, <1>3, <2>2
    <2>4. /\ Rank(S, R, x) \in Nat /\ Rank(S, R, y) \in Nat /\ Cardinality(S) \in Nat
      BY RankType
    <2>5. QED
      BY <2>2, <2>3, <2>4
  <1>5. QED
    BY <1>4

\* Whatever is below one of the lowest n is among them.
LEMMA LowestDown ==
  ASSUME NEW S, NEW R, StrictOrder(S, R), NEW n \in Nat,
         NEW x \in Lowest(S, R, n), NEW y \in S, <<y, x>> \in R
  PROVE  y \in Lowest(S, R, n)
  <1>1. x \in S /\ Rank(S, R, x) < n
    BY DEF Lowest
  <1>2. Rank(S, R, y) < Rank(S, R, x)
    BY <1>1, RankGrows
  <1>3. QED
    BY <1>1, <1>2, RankType DEF Lowest

\* The lowest n are n, unless there are fewer members.
LEMMA LowestSize ==
  ASSUME NEW S, NEW R, StrictOrder(S, R), NEW n \in Nat
  PROVE  /\ IsFiniteSet(Lowest(S, R, n)) /\ Cardinality(Lowest(S, R, n)) \in Nat
         /\ Cardinality(Lowest(S, R, n)) <= n
         /\ n <= Cardinality(S) => Cardinality(Lowest(S, R, n)) = n
  <1> DEFINE F == Lowest(S, R, n)
  <1>1. F \in SUBSET S /\ IsFiniteSet(S)
    BY DEF Lowest, StrictOrder
  <1>2. IsFiniteSet(F) /\ Cardinality(F) \in Nat /\ Cardinality(S) \in Nat
    BY <1>1, FS_Subset, FS_CardinalityType
  <1>3. Cardinality(F) <= n
    <2>1. CASE F = {}
      BY <2>1, FS_EmptySet
    <2>2. CASE F # {}
      <3>1. StrictOrder(F, R)
        BY <1>1, SubOrder
      <3>2. PICK m \in F : \A y \in F : y = m \/ <<y, m>> \in R
        BY <2>2, <3>1, HighestExists
      <3> DEFINE B == Below(S, R, m)
      <3>3. m \in S /\ Cardinality(B) < n
        BY DEF Lowest, Rank
      <3>4. IsFiniteSet(B) /\ Cardinality(B) \in Nat
        BY <3>3, RankType DEF Rank
      <3>5. F \in SUBSET (B \cup {m})
        BY <1>1, <3>2 DEF Below
      <3>6. IsFiniteSet(B \cup {m}) /\ Cardinality(B \cup {m}) <= Cardinality(B) + 1
        BY <3>4, FS_AddElement
      <3>7. Cardinality(F) <= Cardinality(B \cup {m}) /\ Cardinality(B \cup {m}) \in Nat
        BY <3>5, <3>6, FS_Subset, FS_CardinalityType
      <3>8. QED
        BY <1>2, <3>3, <3>4, <3>6, <3>7
    <2>3. QED
      BY <2>1, <2>2
  <1>4. ASSUME n <= Cardinality(S), Cardinality(F) < n PROVE FALSE
    <2>1. S \ F # {}
      <3>1. F # S
        BY <1>2, <1>4
      <3>2. QED
        BY <1>1, <3>1
    <2>2. StrictOrder(S \ F, R)
      BY SubOrder
    <2>3. PICK x \in S \ F : \A y \in S \ F : y = x \/ <<x, y>> \in R
      BY <2>1, <2>2, LowestExists
    <2>4. Below(S, R, x) \in SUBSET F
      BY <2>3 DEF Below, StrictOrder
    <2>5. Cardinality(Below(S, R, x)) <= Cardinality(F)
      BY <1>2, <2>4, FS_Subset
    <2>6. Rank(S, R, x) < n
      BY <1>2, <1>4, <2>3, <2>5, RankType DEF Rank
    <2>7. QED
      BY <2>3, <2>6 DEF Lowest
  <1>5. QED
    BY <1>2, <1>3, <1>4

\* All members are the lowest of their number.
LEMMA LowestAll ==
  ASSUME NEW S, NEW R, StrictOrder(S, R)
  PROVE  Lowest(S, R, Cardinality(S)) = S
  BY RankType DEF Lowest

\* Taking a members and then n of the rest takes a + n members.
LEMMA LowestSplit ==
  ASSUME NEW S, NEW R, StrictOrder(S, R), NEW a \in Nat, NEW n \in Nat,
         NEW m \in Nat, m = a + n
  PROVE  Lowest(S, R, m) =
           Lowest(S, R, a) \cup Lowest(S \ Lowest(S, R, a), R, n)
  <1> DEFINE F == Lowest(S, R, a)
             T == S \ F
  <1>1. F \in SUBSET S /\ StrictOrder(T, R) /\ IsFiniteSet(F)
    BY SubOrder, LowestSize DEF Lowest
  <1>2. ASSUME NEW x \in T PROVE Rank(S, R, x) = a + Rank(T, R, x)
    <2>1. ~(Rank(S, R, x) < a)
      BY DEF Lowest
    <2>2. a <= Cardinality(S)
      BY <2>1, RankType
    <2>3. Cardinality(F) = a
      BY <2>2, LowestSize
    <2>4. \A y \in F : <<y, x>> \in R
      <3>1. SUFFICES ASSUME NEW y \in F, <<y, x>> \notin R PROVE FALSE
        OBVIOUS
      <3>2. <<x, y>> \in R
        BY <1>1, <3>1 DEF StrictOrder
      <3>3. x \in F
        BY <3>1, <3>2, LowestDown
      <3>4. QED
        BY <3>3
    <2>5. Below(S, R, x) = F \cup Below(T, R, x) /\ F \cap Below(T, R, x) = {}
      BY <1>1, <2>4 DEF Below
    <2>6. IsFiniteSet(Below(T, R, x)) /\ Rank(T, R, x) \in Nat
      BY <1>1, RankType
    <2>7. Cardinality(F \cup Below(T, R, x)) = Cardinality(F) + Cardinality(Below(T, R, x))
      <3>1. Cardinality(F \cap Below(T, R, x)) = 0
        BY <2>5, FS_EmptySet
      <3>2. Cardinality(F \cup Below(T, R, x)) =
              Cardinality(F) + Cardinality(Below(T, R, x)) - Cardinality(F \cap Below(T, R, x))
        BY <1>1, <2>6, FS_Union
      <3>3. QED
        BY <2>3, <2>6, <3>1, <3>2 DEF Rank
    <2>8. QED
      BY <2>3, <2>5, <2>7 DEF Rank
  <1>3. ASSUME NEW x \in T PROVE x \in Lowest(S, R, m) <=> x \in Lowest(T, R, n)
    <2>1. Rank(S, R, x) = a + Rank(T, R, x) /\ Rank(T, R, x) \in Nat
      BY <1>1, <1>2, RankType
    <2>2. QED
      BY <2>1 DEF Lowest
  <1>4. ASSUME NEW x \in F PROVE x \in Lowest(S, R, m)
    <2>1. x \in S /\ Rank(S, R, x) < a
      BY DEF Lowest
    <2>2. QED
      BY <2>1, RankType DEF Lowest
  <1>5. Lowest(S, R, m) \subseteq S /\ Lowest(T, R, n) \subseteq T
    BY DEF Lowest
  <1>6. QED
    BY <1>1, <1>3, <1>4, <1>5

----------------------------------------------------------------------------
(* Files in the order of NEWEST_FIRST. *)

Ordered(S) ==
    /\ IsFiniteSet(S)
    /\ \A f \in S : f.id \in Nat /\ f.created_at \in Nat
    /\ \A f, g \in S : f.id = g.id => f = g

BeforeOn(S) == {p \in S \X S : Before(p[1], p[2])}

\* Subsets are ordered.
LEMMA OrderedPart ==
  ASSUME NEW S, Ordered(S), NEW T \in SUBSET S
  PROVE  Ordered(T)
  <1>1. IsFiniteSet(T)
    BY FS_Subset DEF Ordered
  <1>2. QED
    BY <1>1 DEF Ordered

\* Before is a strict order.
LEMMA BeforeOrder ==
  ASSUME NEW S, Ordered(S)
  PROVE  StrictOrder(S, BeforeOn(S))
  <1>1. \A x, y \in S : <<x, y>> \in BeforeOn(S) <=> Before(x, y)
    BY DEF BeforeOn
  <1>2. \A x, y, z \in S : Before(x, y) /\ Before(y, z) => Before(x, z)
    BY DEF Before, Ordered
  <1>3. \A x, y \in S : ~Before(x, x) /\ (x = y \/ Before(x, y) \/ Before(y, x))
    BY DEF Before, Ordered
  <1>4. QED
    BY <1>1, <1>2, <1>3 DEF StrictOrder, Ordered

\* First is Lowest.
LEMMA FirstIsLowest ==
  ASSUME NEW S, NEW T \in SUBSET S, NEW n
  PROVE  /\ First(T, n) = Lowest(T, BeforeOn(S), n)
         /\ \A f \in T : {g \in T : Before(g, f)} = Below(T, BeforeOn(S), f)
  <1>1. \A f \in T : {g \in T : Before(g, f)} = Below(T, BeforeOn(S), f)
    BY DEF Below, BeforeOn
  <1>2. \A f \in T : Cardinality({g \in T : Before(g, f)}) = Rank(T, BeforeOn(S), f)
    BY <1>1 DEF Rank
  <1>3. QED
    BY <1>1, <1>2 DEF First, Lowest

\* What First takes: n files, unless there are fewer, and none without the
\* ones before it.
LEMMA FirstFacts ==
  ASSUME NEW S, Ordered(S), NEW n \in Nat
  PROVE  /\ First(S, n) \in SUBSET S /\ Cardinality(S) \in Nat
         /\ n <= Cardinality(S) => Cardinality(First(S, n)) = n
         /\ Cardinality(First(S, n)) <= n
         /\ n = Cardinality(S) => First(S, n) = S
         /\ n = 0 => First(S, n) = {}
         /\ \A f \in First(S, n), g \in S : Before(g, f) => g \in First(S, n)
         /\ \A f \in First(S, n), g \in S \ First(S, n) : Before(f, g)
  <1> DEFINE R == BeforeOn(S)
  <1>1. StrictOrder(S, R) /\ First(S, n) = Lowest(S, R, n)
    BY BeforeOrder, FirstIsLowest
  <1>2. First(S, n) \in SUBSET S /\ Cardinality(S) \in Nat
    BY FS_CardinalityType DEF First, Ordered
  <1>3. /\ n <= Cardinality(S) => Cardinality(First(S, n)) = n
        /\ Cardinality(First(S, n)) <= n
    BY <1>1, LowestSize
  <1>4. n = Cardinality(S) => First(S, n) = S
    BY <1>1, LowestAll
  <1>5. n = 0 => First(S, n) = {}
    BY <1>1, RankType DEF Lowest
  <1>6. \A f \in First(S, n), g \in S : Before(g, f) => g \in First(S, n)
    <2>1. SUFFICES ASSUME NEW f \in First(S, n), NEW g \in S, Before(g, f)
                   PROVE  g \in First(S, n)
      OBVIOUS
    <2>2. <<g, f>> \in R /\ f \in Lowest(S, R, n)
      BY <1>1, <1>2, <2>1 DEF BeforeOn
    <2>3. g \in Lowest(S, R, n)
      BY <1>1, <2>2, LowestDown
    <2>4. QED
      BY <1>1, <2>3
  <1>7. \A f \in First(S, n), g \in S \ First(S, n) : Before(f, g)
    BY <1>2, <1>6 DEF Before, Ordered
  <1>8. QED
    BY <1>2, <1>3, <1>4, <1>5, <1>6, <1>7

\* Two pages in a row are one longer page.
LEMMA FirstSplit ==
  ASSUME NEW S, Ordered(S), NEW a \in Nat, NEW n \in Nat, NEW m \in Nat, m = a + n
  PROVE  First(S, m) = First(S, a) \cup First(S \ First(S, a), n)
  <1> DEFINE R == BeforeOn(S)
  <1>1. StrictOrder(S, R) /\ First(S, a) = Lowest(S, R, a) /\ First(S, m) = Lowest(S, R, m)
    BY BeforeOrder, FirstIsLowest
  <1>2. First(S \ First(S, a), n) = Lowest(S \ Lowest(S, R, a), R, n)
    BY <1>1, FirstIsLowest
  <1>3. Lowest(S, R, m) = Lowest(S, R, a) \cup Lowest(S \ Lowest(S, R, a), R, n)
    BY <1>1, LowestSplit
  <1>4. QED
    BY <1>1, <1>2, <1>3

\* There is one first file.
LEMMA HeadUnique ==
  ASSUME NEW S, Ordered(S), NEW f \in First(S, 1), NEW g \in First(S, 1)
  PROVE  f = g
  <1>1. First(S, 1) \in SUBSET S /\ Cardinality(First(S, 1)) <= 1
    BY FirstFacts
  <1>2. IsFiniteSet(First(S, 1))
    BY <1>1, FS_Subset DEF Ordered
  <1>3. SUFFICES ASSUME f # g PROVE FALSE
    OBVIOUS
  <1>4. {f, g} \subseteq First(S, 1) /\ Cardinality({f, g}) = 2
    <2>1. IsFiniteSet({f}) /\ Cardinality({f}) = 1
      BY FS_Singleton
    <2>2. g \notin {f}
      BY <1>3
    <2>3. Cardinality({f} \cup {g}) = 1 + 1
      BY <2>1, <2>2, FS_AddElement
    <2>4. {f} \cup {g} = {f, g}
      OBVIOUS
    <2>5. QED
      BY <2>3, <2>4
  <1>5. QED
    BY <1>1, <1>2, <1>4, FS_Subset, FS_CardinalityType

\* The files before f.
FilesBefore(S, f) == {g \in S : Before(g, f)}

\* They are finitely many.
LEMMA FilesBeforeType ==
  ASSUME NEW S, Ordered(S), NEW f
  PROVE  IsFiniteSet(FilesBefore(S, f)) /\ Cardinality(FilesBefore(S, f)) \in Nat
  <1>1. FilesBefore(S, f) \in SUBSET S
    BY DEF FilesBefore
  <1>2. QED
    BY <1>1, FS_Subset, FS_CardinalityType DEF Ordered

\* In a larger folder a file is not among the first sooner.
LEMMA FirstInPart ==
  ASSUME NEW S, Ordered(S), NEW T \in SUBSET S, NEW n \in Nat, NEW f \in T, f \in First(S, n)
  PROVE  f \in First(T, n)
  <1>1. FilesBefore(T, f) \in SUBSET FilesBefore(S, f)
    BY DEF FilesBefore
  <1>2. Ordered(T)
    BY OrderedPart
  <1>3. Cardinality(FilesBefore(T, f)) <= Cardinality(FilesBefore(S, f))
    BY <1>1, FilesBeforeType, FS_Subset
  <1>4. /\ Cardinality(FilesBefore(T, f)) \in Nat /\ Cardinality(FilesBefore(S, f)) \in Nat
        /\ Cardinality(FilesBefore(S, f)) < n
    BY <1>2, FilesBeforeType DEF First, FilesBefore
  <1>5. QED
    BY <1>3, <1>4 DEF First, FilesBefore

\* One more file pushes at most one out of the first n: the last of them.
LEMMA FirstPushed ==
  ASSUME NEW S, NEW x, Ordered(S), Ordered(S \cup {x}), NEW n \in Nat,
         NEW f \in First(S, n), f \notin First(S \cup {x}, n),
         NEW g \in First(S, n), g \notin First(S \cup {x}, n)
  PROVE  f = g
  <1>1. ASSUME NEW h \in First(S, n), h \notin First(S \cup {x}, n)
        PROVE  h \in S /\ Cardinality(FilesBefore(S, h)) = n - 1
    <2>1. h \in S /\ Cardinality(FilesBefore(S, h)) < n
      BY DEF First, FilesBefore
    <2>2. ~(Cardinality(FilesBefore(S \cup {x}, h)) < n)
      BY <1>1, <2>1 DEF First, FilesBefore
    <2>3. FilesBefore(S \cup {x}, h) \in SUBSET (FilesBefore(S, h) \cup {x})
      BY DEF FilesBefore
    <2>4. IsFiniteSet(FilesBefore(S, h)) /\ Cardinality(FilesBefore(S, h)) \in Nat
      BY FilesBeforeType
    <2>5. /\ IsFiniteSet(FilesBefore(S, h) \cup {x})
          /\ Cardinality(FilesBefore(S, h) \cup {x}) <= Cardinality(FilesBefore(S, h)) + 1
          /\ Cardinality(FilesBefore(S, h) \cup {x}) \in Nat
      BY <2>4, FS_AddElement, FS_CardinalityType
    <2>6. Cardinality(FilesBefore(S \cup {x}, h)) <= Cardinality(FilesBefore(S, h) \cup {x})
      BY <2>3, <2>5, FS_Subset
    <2>7. Cardinality(FilesBefore(S \cup {x}, h)) \in Nat
      BY FilesBeforeType
    <2>8. QED
      BY <2>1, <2>2, <2>4, <2>5, <2>6, <2>7
  <1>2. f \in S /\ g \in S /\ Cardinality(FilesBefore(S, f)) = Cardinality(FilesBefore(S, g))
    BY <1>1
  <1>3. Rank(S, BeforeOn(S), f) = Rank(S, BeforeOn(S), g)
    <2>1. /\ FilesBefore(S, f) = Below(S, BeforeOn(S), f)
          /\ FilesBefore(S, g) = Below(S, BeforeOn(S), g)
      BY <1>2, FirstIsLowest DEF FilesBefore
    <2>2. QED
      BY <1>2, <2>1 DEF Rank
  <1>4. QED
    BY <1>2, <1>3, BeforeOrder, RankInjective

\* A set is no larger than one it can be mapped to without collisions.
LEMMA Injected ==
  ASSUME NEW S, NEW T, IsFiniteSet(T), NEW F \in [S -> T],
         \A x, y \in S : F[x] = F[y] => x = y
  PROVE  /\ IsFiniteSet(S) /\ Cardinality(S) <= Cardinality(T)
         /\ Cardinality(S) \in Nat /\ Cardinality(T) \in Nat
  <1>1. F \in Injection(S, T)
    BY DEF Injection, IsInjective
  <1>2. IsFiniteSet(S) /\ Cardinality(S) <= Cardinality(T)
    BY <1>1, FS_Injection
  <1>3. QED
    BY <1>2, FS_CardinalityType

----------------------------------------------------------------------------
(***************************************************************************)
(* The inductive invariant.  A walk divides the files that its query       *)
(* matches into those behind its token and the rest.  What it missed of    *)
(* the former it can only have missed because they came after it, or       *)
(* because a removal shifted a position.                                   *)
(***************************************************************************)

\* Every file the model has ever seen.
Known == files \cup removed \cup deleted

\* The files that the listing has left behind.
Past == Query \ From(token, Query)

Listed(f) == \E e \in all : e.info = Shown(f)

\* Nothing but a removal can make the walk miss a file.
Steady == tokens = "cursor" \/ removed = {}

\* A file that the listing shows as a backup.
Visible(f) == IsInFolder(f) /\ IsBackup(f)

FilesInv ==
    /\ Known \subseteq DriveFiles /\ IsFiniteSet(Known) /\ arrived \in Nat
    /\ \A f \in Known : f.id <= MaxId + arrived
    /\ \A f, g \in Known : f.id = g.id => f = g
    /\ start \subseteq Known
    /\ files \cap (removed \cup deleted) = {}
    /\ stage = "list" \/ op # "prune" \/ outcome = "error" => deleted = {}
    /\ IsFiniteSet(all) /\ token.offset \in Nat
    /\ token.last \subseteq Known /\ \A f, g \in token.last : f = g

StageInv ==
    /\ stage = "list" => outcome = "none" /\ doomed = {}
    /\ stage = "delete" => op = "prune" /\ outcome = "none"
    /\ stage = "end" => outcome # "none"
    /\ stage = "end" /\ op = "prune" /\ outcome = "Ok" => doomed = {}
    /\ pages \in Nat /\ (stage = "list" => pages < MaxPages)

\* An entry shows a file that was there.
EntriesInv ==
    \A e \in all :
      /\ e.page \in 1..pages
      /\ \E f \in Known : /\ Visible(f) /\ e.info = Shown(f)
                          /\ op = "latest" => f.kind # "pre_restore"

\* The files behind the token have been listed; at the end all have.
CompleteInv ==
    op # "latest" /\ Steady =>
      /\ stage = "list" => \A f \in Throughout \cap Past : IsBackup(f) => Listed(f)
      /\ stage = "delete" \/ outcome = "Ok" =>
           \A f \in Throughout : Visible(f) => Listed(f)

\* latest goes on as long as it has seen no backup.
LatestInv ==
    /\ op = "latest" /\ stage = "list" =>
         all = {} /\ (Steady => \A f \in Throughout \cap Past : ~IsBackup(f))
    /\ LatestIsNewest

\* A file that comes before a listed one is listed, and not on a later page.
OrderInv ==
    op = "prune" /\ Steady =>
      \A e \in all, g \in Throughout :
        Visible(g) /\ Before(g, e.info) =>
          \E d \in all : d.info = ToBackupInfo(g) /\ d.page <= e.page

\* A cursor moves in one direction only.
CursorInv ==
    op = "prune" /\ tokens = "cursor" =>
      /\ \A e \in all : \E l \in token.last :
           Before(e.info, l) \/ e.info = ToBackupInfo(l)
      /\ \A d, e \in all : d.page < e.page => Before(d.info, e.info)

\* The entries of backups that an earlier page showed already, and the files
\* that will be shown again.
Extra == {e \in all : \E d \in all : d.page < e.page /\ d.info.id = e.info.id}

Pushed == {f \in From(token, Query) : \E e \in all : e.info.id = f.id}

\* Each file that arrives pushes at most one listed file behind the position.
PositionInv ==
    op = "prune" /\ tokens = "position" =>
      /\ stage = "list" => Cardinality(Extra) + Cardinality(Pushed) <= arrived
      /\ Cardinality(Extra) <= arrived

\* The removals: each is of a candidate, and no candidate is forgotten.
RemovalInv ==
    /\ doomed \subseteq Candidates(all, Keep)
    /\ \A d \in deleted : \E e \in Candidates(all, Keep) : e.info = ToBackupInfo(d)
    /\ op = "prune" /\ (stage = "delete" \/ outcome = "Ok") =>
         \A e \in Candidates(all, Keep) :
           e \in doomed \/ e.info.id \in kept \/ \A f \in files : f.id # e.info.id

Inv ==
    /\ TypeOK /\ FilesInv /\ StageInv /\ EntriesInv /\ CompleteInv /\ LatestInv
    /\ OrderInv /\ CursorInv /\ PositionInv /\ RemovalInv

----------------------------------------------------------------------------
(* Files, backups and entries. *)

\* A file that others store is a Drive file in the folder.
LEMMA FileOfFacts ==
  ASSUME NEW id \in Nat, NEW time \in Nat, NEW class \in Classes
  PROVE  /\ FileOf(id, time, class) \in DriveFiles /\ FileOf(id, time, class).id = id
         /\ IsInFolder(FileOf(id, time, class))
  BY DEF FileOf, Classes, DriveFiles, Formats, Kinds, IsInFolder

\* to_backup_info makes a proper BackupInfo of every file that IsBackup accepts.
LEMMA InfoType ==
  ASSUME NEW f \in DriveFiles, IsBackup(f)
  PROVE  ToBackupInfo(f) \in BackupInfo
  <1>1. f.id \in Nat /\ f.created_at \in Nat
    BY DEF DriveFiles
  <1>2. f.format \in Formats \cup {"none", "other"} /\ f.kind \in Kinds \cup {"none", "other"}
    BY DEF DriveFiles
  <1>3. DetectFormat(f.ext, f.format) \in Formats
    BY <1>2 DEF IsBackup, DetectFormat, Formats
  <1>4. ParseKind(f.kind) \in Kinds
    BY <1>2 DEF IsBackup, ParseKind, Kinds
  <1>5. QED
    BY <1>1, <1>3, <1>4 DEF ToBackupInfo, BackupInfo

ProtoType ==
    [id : Nat, created_at : Nat, format : {"PG_CUSTOM", "LEGACY_JSON_ZSTD"},
     kind : {"REGULAR", "PRE_RESTORE"}]

\* The protocol's form of a backup.
LEMMA ProtoFacts ==
  ASSUME NEW b \in BackupInfo
  PROVE  /\ ProtoInfo(b) \in ProtoType
         /\ ProtoInfo(b).id = b.id /\ ProtoInfo(b).created_at = b.created_at
         /\ ProtoInfo(b).kind = "PRE_RESTORE" <=> b.kind = "pre_restore"
         /\ ProtoInfo(b).format = "PG_CUSTOM" <=> b.format = "pg_custom"
  BY DEF BackupInfo, ProtoInfo, ProtoType, Formats, Kinds

\* What a walk gets to see of a file.
LEMMA ShownFacts ==
  ASSUME NEW f \in DriveFiles, IsBackup(f)
  PROVE  /\ Shown(f) \in BackupInfo \cup ProtoType
         /\ Shown(f).id = f.id /\ Shown(f).created_at = f.created_at
         /\ op # "client" => Shown(f) = ToBackupInfo(f) /\ Shown(f) \in BackupInfo
  <1>1. ToBackupInfo(f) \in BackupInfo
    BY InfoType
  <1>2. ToBackupInfo(f).id = f.id /\ ToBackupInfo(f).created_at = f.created_at
    BY DEF ToBackupInfo
  <1>3. QED
    BY <1>1, <1>2, ProtoFacts DEF Shown

\* Every set of files that were ever there is ordered.
LEMMA KnownOrdered ==
  ASSUME FilesInv
  PROVE  /\ Ordered(Known) /\ Ordered(files) /\ Ordered(Query)
         /\ Query \subseteq files /\ files \subseteq Known /\ files \subseteq DriveFiles
         /\ \A f \in files : op # "latest" => (f \in Query <=> IsInFolder(f))
         /\ \A f \in files :
              op = "latest" => (f \in Query <=> IsInFolder(f) /\ f.kind # "pre_restore")
  <1>1. Ordered(Known)
    BY DEF FilesInv, Ordered, DriveFiles
  <1>2. Query \subseteq files /\ files \subseteq Known /\ files \subseteq DriveFiles
    BY DEF Query, LatestQuery, FolderQuery, Known, FilesInv
  <1>3. Ordered(files) /\ Ordered(Query)
    BY <1>1, <1>2, OrderedPart
  <1>4. /\ \A f \in files : op # "latest" => (f \in Query <=> IsInFolder(f))
        /\ \A f \in files :
              op = "latest" => (f \in Query <=> IsInFolder(f) /\ f.kind # "pre_restore")
    BY DEF Query, LatestQuery, FolderQuery
  <1>5. QED
    BY <1>1, <1>2, <1>3, <1>4

\* Between two moments files only matter through their fields.
LEMMA BeforeOrderedFacts ==
  ASSUME NEW S, Ordered(S)
  PROVE  /\ \A f, g, h \in S : Before(f, g) /\ Before(g, h) => Before(f, h)
         /\ \A f, g \in S : ~(Before(f, g) /\ Before(g, f)) /\ ~Before(f, f)
         /\ \A f, g \in S : f = g \/ Before(f, g) \/ Before(g, f)
  BY DEF Before, Ordered

\* The image of a finite set is finite.
LEMMA ImageFinite ==
  ASSUME NEW S, IsFiniteSet(S), NEW T, NEW F \in [S -> T], \A y \in T : \E x \in S : y = F[x]
  PROVE  IsFiniteSet(T)
  <1>1. F \in Surjection(S, T)
    BY DEF Surjection
  <1>2. QED
    BY <1>1, FS_Surjection

\* A page adds finitely many entries.
LEMMA EntriesFinite ==
  ASSUME NEW S, IsFiniteSet(S)
  PROVE  IsFiniteSet(Entries(S))
  <1> DEFINE F == [f \in S |-> [page |-> pages + 1, info |-> Shown(f)]]
  <1>1. F \in [S -> Entries(S)] /\ \A y \in Entries(S) : \E x \in S : y = F[x]
    BY DEF Entries
  <1> HIDE DEF F
  <1>2. QED
    BY <1>1, ImageFinite

----------------------------------------------------------------------------
(* The beginning of a walk. *)

\* Nothing is behind the token and nothing has been listed.
LEMMA InitInv == Init => Inv
  <1> SUFFICES ASSUME Init PROVE Inv
    OBVIOUS
  <1>1. /\ files \in Folders /\ start = files /\ removed = {} /\ deleted = {} /\ arrived = 0
        /\ all = {} /\ doomed = {} /\ token = NoToken /\ stage = "list" /\ pages = 0
        /\ outcome = "none" /\ tokens \in {"cursor", "position"}
    BY DEF Init
  <1>2. token.last = {} /\ token.offset = 0
    BY <1>1 DEF NoToken
  <1>3. Known = files /\ files \subseteq DriveFiles
    BY <1>1, FoldersAssumption DEF Known
  <1>4. FilesInv
    <2>1. \A f \in Known : f.id \in Nat /\ f.id <= MaxId + arrived
      BY <1>1, <1>3, FoldersAssumption, ListingAssumption DEF DriveFiles
    <2>2. IsFiniteSet(all)
      BY <1>1, FS_EmptySet
    <2>3. QED
      BY <1>1, <1>2, <1>3, <2>1, <2>2, FoldersAssumption DEF FilesInv
  <1>5. TypeOK
    <2>1. \A n \in 0..MaxPageSize + 1 : ClampPageSize(n) \in 1..MaxPageSize
      BY ListingAssumption DEF ClampPageSize
    <2>2. size \in 1..MaxPageSize \cup {LatestPageSize} /\ op \in {"prune", "latest", "client"}
      BY <2>1, ListingAssumption DEF Init
    <2>3. QED
      BY <1>1, <1>3, <2>2, ListingAssumption DEF TypeOK
  <1>6. Past = {}
    <2>1. CASE tokens = "cursor"
      BY <1>2, <2>1 DEF Past, From
    <2>2. CASE tokens = "position"
      BY <1>2, <1>4, <2>2, KnownOrdered, FirstFacts DEF Past, From
    <2>3. QED
      BY <1>1, <2>1, <2>2
  <1>7. StageInv /\ EntriesInv /\ CursorInv /\ OrderInv
    BY <1>1, ListingAssumption DEF StageInv, EntriesInv, CursorInv, OrderInv
  <1>8. CompleteInv /\ LatestInv
    BY <1>1, <1>6 DEF CompleteInv, LatestInv, LatestIsNewest
  <1>9. PositionInv
    <2>1. Extra = {} /\ Pushed = {}
      BY <1>1 DEF Extra, Pushed
    <2>2. QED
      BY <1>1, <2>1, FS_EmptySet DEF PositionInv
  <1>10. RemovalInv
    BY <1>1 DEF RemovalInv, Candidates
  <1>11. QED
    BY <1>4, <1>5, <1>7, <1>8, <1>9, <1>10 DEF Inv

----------------------------------------------------------------------------
(* One page of the listing. *)

Rest == From(token, Query)

PageOf(n) == First(Rest, n)

IsLast(n) == n = Cardinality(Rest)

\* The step that takes a page of n files.
PageStep(n) ==
    /\ n \in 0..size /\ n <= Cardinality(Rest)
    /\ token' = Behind(token, PageOf(n), n)
    /\ IF op = "latest" THEN LatestPage(PageOf(n), IsLast(n)) ELSE NextPage(PageOf(n), IsLast(n))

\* ListPage takes a page of some size, from a walk that lists.
LEMMA PageStepExists ==
  ASSUME TypeOK, ListPage
  PROVE  /\ \E n \in Nat : PageStep(n)
         /\ stage = "list" /\ pages' = pages + 1
         /\ doomed' = IF stage' = "delete" THEN Candidates(all', Keep) ELSE {}
         /\ UNCHANGED <<tokens, files, op, size, history>>
  <1>1. size \in Nat
    BY ListingAssumption DEF TypeOK
  <1>2. PICK n \in 0..size : PageStep(n)
    BY DEF ListPage, PageStep, PageOf, IsLast, Rest
  <1>3. n \in Nat
    BY <1>1, <1>2
  <1>4. QED
    BY <1>2, <1>3 DEF ListPage

\* What is in a page, and what is not in it yet.
LEMMA PageFacts ==
  ASSUME TypeOK, FilesInv, NEW n \in Nat, n <= Cardinality(Rest)
  PROVE  /\ Rest \in SUBSET Query /\ Ordered(Rest) /\ PageOf(n) \in SUBSET Rest
         /\ Ordered(PageOf(n)) /\ Cardinality(PageOf(n)) = n /\ IsFiniteSet(PageOf(n))
         /\ IsLast(n) => PageOf(n) = Rest
         /\ \A f \in PageOf(n), g \in Rest : Before(g, f) => g \in PageOf(n)
         /\ \A f \in PageOf(n), g \in Rest \ PageOf(n) : Before(f, g)
         /\ tokens = "cursor" => \A l \in token.last, f \in Rest : Before(l, f)
  <1>1. Rest \in SUBSET Query
    BY DEF Rest, From
  <1>2. Ordered(Rest)
    BY <1>1, KnownOrdered, OrderedPart
  <1>3. /\ PageOf(n) \in SUBSET Rest
        /\ Cardinality(PageOf(n)) = n
        /\ IsLast(n) => PageOf(n) = Rest
        /\ \A f \in PageOf(n), g \in Rest : Before(g, f) => g \in PageOf(n)
        /\ \A f \in PageOf(n), g \in Rest \ PageOf(n) : Before(f, g)
    BY <1>2, FirstFacts DEF PageOf, IsLast
  <1>4. Ordered(PageOf(n))
    BY <1>2, <1>3, OrderedPart
  <1>5. IsFiniteSet(PageOf(n))
    BY <1>4 DEF Ordered
  <1>6. tokens = "cursor" => \A l \in token.last, f \in Rest : Before(l, f)
    BY DEF Rest, From
  <1>7. QED
    BY <1>1, <1>2, <1>3, <1>4, <1>5, <1>6

\* The last file of a page.
LEMMA LastOfPage ==
  ASSUME TypeOK, FilesInv, NEW n \in Nat, n <= Cardinality(Rest), n # 0
  PROVE  \E m \in PageOf(n) :
           /\ \A f \in PageOf(n) : f = m \/ Before(f, m)
           /\ Behind(token, PageOf(n), n).last = {m}
  <1> DEFINE P == PageOf(n)
  <1>1. Ordered(P) /\ Cardinality(P) = n
    BY PageFacts
  <1>2. P # {}
    BY <1>1, FS_EmptySet
  <1>3. StrictOrder(P, BeforeOn(P))
    BY <1>1, BeforeOrder
  <1>4. PICK m \in P : \A f \in P : f = m \/ <<f, m>> \in BeforeOn(P)
    BY <1>2, <1>3, HighestExists
  <1>5. \A f \in P : f = m \/ Before(f, m)
    BY <1>4 DEF BeforeOn
  <1>6. \A f, g \in P : ~(Before(f, g) /\ Before(g, f))
    BY <1>1, BeforeOrderedFacts
  <1>7. {f \in P : \A g \in P : g = f \/ Before(g, f)} = {m}
    BY <1>5, <1>6
  <1>8. QED
    BY <1>5, <1>7 DEF Behind

\* The token behind a page leads to the rest of the files: none is skipped
\* and none comes twice, whatever a token stands for.
LEMMA Advance ==
  ASSUME TypeOK, FilesInv, NEW n \in Nat, n <= Cardinality(Rest)
  PROVE  From(Behind(token, PageOf(n), n), Query) = Rest \ PageOf(n)
  <1> DEFINE P == PageOf(n)
             t == Behind(token, P, n)
  <1>1. CASE tokens = "cursor" /\ n = 0
    <2>1. P = {}
      BY <1>1, PageFacts, FS_EmptySet
    <2>2. t.last = token.last
      BY <1>1 DEF Behind
    <2>3. QED
      BY <1>1, <2>1, <2>2 DEF From, Rest
  <1>2. CASE tokens = "cursor" /\ n # 0
    <2>1. PICK m \in P : (\A f \in P : f = m \/ Before(f, m)) /\ t.last = {m}
      BY <1>2, LastOfPage
    <2>2. /\ P \in SUBSET Rest /\ Rest \in SUBSET Query
          /\ \A g \in Rest \ P : Before(m, g)
          /\ \A l \in token.last : Before(l, m)
      BY <1>2, <2>1, PageFacts
    <2>3. /\ Query \subseteq Known /\ token.last \subseteq Known
          /\ \A f, g, h \in Known : Before(f, g) /\ Before(g, h) => Before(f, h)
          /\ \A f, g \in Known : ~(Before(f, g) /\ Before(g, f)) /\ ~Before(f, f)
      BY KnownOrdered, BeforeOrderedFacts DEF FilesInv
    <2>4. ASSUME NEW f \in Query, Before(m, f)
          PROVE  f \in Rest \ P
      <3>1. \A l \in token.last : Before(l, f)
        BY <2>2, <2>3, <2>4
      <3>2. f \in Rest
        BY <1>2, <3>1 DEF Rest, From
      <3>3. f \notin P
        BY <2>1, <2>2, <2>3, <2>4
      <3>4. QED
        BY <3>2, <3>3
    <2>5. From(t, Query) = {f \in Query : Before(m, f)}
      BY <1>2, <2>1 DEF From
    <2>6. QED
      BY <2>2, <2>4, <2>5
  <1>3. CASE tokens = "position"
    <2>1. token.offset \in Nat /\ Ordered(Query)
      BY KnownOrdered DEF FilesInv
    <2>2. t.offset = token.offset + n /\ t.offset \in Nat
      BY <2>1 DEF Behind
    <2>3. Rest = Query \ First(Query, token.offset) /\ From(t, Query) = Query \ First(Query, t.offset)
      BY <1>3 DEF Rest, From
    <2>4. First(Query, t.offset) =
            First(Query, token.offset) \cup First(Query \ First(Query, token.offset), n)
      <3>1. PICK a \in Nat, m \in Nat : a = token.offset /\ m = t.offset
        BY <2>1, <2>2
      <3>2. m = a + n
        BY <2>2, <3>1
      <3>3. First(Query, m) = First(Query, a) \cup First(Query \ First(Query, a), n)
        BY <2>1, <3>2, FirstSplit
      <3>4. QED
        BY <3>1, <3>3
    <2>5. QED
      BY <2>3, <2>4 DEF PageOf
  <1>4. QED
    BY <1>1, <1>2, <1>3 DEF TypeOK

\* After a page the files in it are behind the token.
LEMMA PageMoves ==
  ASSUME TypeOK, FilesInv, NEW n \in Nat, PageStep(n), UNCHANGED <<tokens, files, op>>
  PROVE  Query' = Query /\ Rest' = Rest \ PageOf(n) /\ Past' = Past \cup PageOf(n)
  <1>1. Query' = Query
    BY DEF Query
  <1>2. Rest' = From(token', Query)
    BY <1>1 DEF Rest, From
  <1>3. Rest' = Rest \ PageOf(n)
    BY <1>2, Advance DEF PageStep
  <1>4. Past = Query \ Rest /\ Past' = Query' \ Rest'
    BY DEF Past, Rest
  <1>5. Rest \in SUBSET Query /\ PageOf(n) \in SUBSET Rest
    BY PageFacts DEF PageStep
  <1>6. QED
    BY <1>1, <1>3, <1>4, <1>5

\* The entries that a page adds.
LEMMA PageEntries ==
  ASSUME NEW n \in Nat, PageStep(n)
  PROVE  /\ op # "latest" => all' = all \cup Entries(Items(PageOf(n)))
         /\ op = "latest" => all' = Entries(First(Items(PageOf(n)), 1))
  BY DEF PageStep, NextPage, LatestPage

\* How the stage follows from a page.
LEMMA PageStages ==
  ASSUME NEW n \in Nat, PageStep(n), stage = "list"
  PROVE  /\ stage' = "delete" => op = "prune" /\ IsLast(n) /\ outcome' = outcome
         /\ stage' = "list" => pages + 1 < MaxPages /\ outcome' = outcome
         /\ stage' = "list" /\ op = "latest" => Items(PageOf(n)) = {}
         /\ stage' \in {"list", "delete", "end"}
         /\ stage' = "end" => outcome' \in {"Ok", "error"}
         /\ stage' = "end" /\ outcome' = "Ok" =>
              \/ op = "latest" /\ (Items(PageOf(n)) # {} \/ IsLast(n))
              \/ op \notin {"prune", "latest"} /\ IsLast(n)
  BY DEF PageStep, NextPage, LatestPage, Finish

\* A step of ListPage, and the state it starts from.
PageTaken(n) ==
    /\ Inv /\ PageStep(n) /\ stage = "list" /\ pages' = pages + 1
    /\ doomed' = IF stage' = "delete" THEN Candidates(all', Keep) ELSE {}
    /\ UNCHANGED <<tokens, files, op, size, history>>

\* What a page leaves alone.
LEMMA PageFrame ==
  ASSUME NEW n \in Nat, PageTaken(n)
  PROVE  /\ TypeOK /\ FilesInv /\ n <= Cardinality(Rest) /\ pages \in Nat /\ pages < MaxPages
         /\ outcome = "none" /\ deleted = {} /\ deleted' = {}
         /\ Known' = Known /\ Throughout' = Throughout /\ Steady' = Steady
         /\ Throughout \subseteq files
         /\ \A f : (Shown(f))' = Shown(f)
         /\ op # "latest" => all \subseteq all'
         /\ op = "latest" => all = {}
  <1>1. /\ TypeOK /\ FilesInv /\ StageInv /\ LatestInv /\ PageStep(n) /\ stage = "list"
        /\ UNCHANGED <<tokens, files, op, size, start, kept, arrived, removed, deleted>>
    BY DEF PageTaken, Inv, history
  <1>2. n <= Cardinality(Rest)
    BY <1>1 DEF PageStep
  <1>3. pages \in Nat /\ pages < MaxPages /\ outcome = "none" /\ deleted = {} /\ deleted' = {}
    BY <1>1 DEF StageInv, FilesInv
  <1>4. Known' = Known /\ Throughout' = Throughout /\ Steady' = Steady
    BY <1>1 DEF Known, Throughout, Steady
  <1>5. Throughout \subseteq files
    BY <1>1, <1>3 DEF Throughout, FilesInv, Known
  <1>6. \A f : (Shown(f))' = Shown(f)
    BY <1>1 DEF Shown
  <1>7. op # "latest" => all \subseteq all'
    BY <1>1, PageEntries
  <1>8. op = "latest" => all = {}
    BY <1>1 DEF LatestInv
  <1>9. QED
    BY <1>1, <1>2, <1>3, <1>4, <1>5, <1>6, <1>7, <1>8

\* The files of a page that become entries.
LEMMA PageItems ==
  ASSUME NEW n \in Nat, PageTaken(n), NEW f \in Items(PageOf(n))
  PROVE  /\ f \in PageOf(n) /\ f \in Rest /\ f \in files /\ f \in Known /\ f \in DriveFiles
         /\ Visible(f) /\ (op = "latest" => f.kind # "pre_restore")
         /\ [page |-> pages + 1, info |-> Shown(f)] \in Entries(Items(PageOf(n)))
         /\ op # "latest" => [page |-> pages + 1, info |-> Shown(f)] \in all'
  <1>1. TypeOK /\ FilesInv /\ n <= Cardinality(Rest) /\ PageStep(n)
    BY PageFrame DEF PageTaken
  <1>2. f \in PageOf(n) /\ f \in Rest /\ f \in Query /\ IsBackup(f)
    BY <1>1, PageFacts DEF Items
  <1>3. f \in files /\ f \in Known /\ f \in DriveFiles
    BY <1>1, <1>2, KnownOrdered
  <1>4. IsInFolder(f) /\ (op = "latest" => f.kind # "pre_restore")
    BY <1>1, <1>2, <1>3, KnownOrdered
  <1>5. [page |-> pages + 1, info |-> Shown(f)] \in Entries(Items(PageOf(n)))
    BY DEF Entries
  <1>6. op # "latest" => [page |-> pages + 1, info |-> Shown(f)] \in all'
    BY <1>1, <1>5, PageEntries
  <1>7. QED
    BY <1>2, <1>3, <1>4, <1>5, <1>6 DEF Visible

\* An entry is an old one or that of a file of the page.
LEMMA NewEntry ==
  ASSUME NEW n \in Nat, PageTaken(n), NEW e \in all'
  PROVE  \/ e \in all
         \/ \E f \in Items(PageOf(n)) : e = [page |-> pages + 1, info |-> Shown(f)]
  <1>1. PageStep(n)
    BY DEF PageTaken
  <1>2. First(Items(PageOf(n)), 1) \subseteq Items(PageOf(n))
    BY DEF First
  <1>3. e \in all \/ e \in Entries(Items(PageOf(n)))
    BY <1>1, <1>2, PageEntries DEF Entries
  <1>4. QED
    BY <1>3 DEF Entries

\* The retention candidates are regular backups, in the service's own form.
LEMMA CandidateType ==
  ASSUME NEW S, NEW N,
         S \in SUBSET [page : N, info : BackupInfo \cup ProtoType]
  PROVE  Candidates(S, Keep) \in SUBSET [page : N, info : BackupInfo]
  <1>1. ASSUME NEW e \in Candidates(S, Keep)
        PROVE  e \in [page : N, info : BackupInfo]
    <2>1. e \in S /\ IsPrunable(e.info)
      BY DEF Candidates
    <2>2. e.info.kind = "regular"
      BY <2>1 DEF IsPrunable
    <2>3. e.info \in BackupInfo \cup ProtoType
      BY <2>1
    <2>4. e.info \notin ProtoType
      BY <2>2 DEF ProtoType
    <2>5. QED
      BY <2>1, <2>3, <2>4
  <1>2. QED
    BY <1>1

\* The types and the stages after a page.
LEMMA PageType ==
  ASSUME NEW n \in Nat, PageTaken(n)
  PROVE  TypeOK' /\ StageInv'
  <1>1. /\ TypeOK /\ FilesInv /\ pages \in Nat /\ pages < MaxPages /\ outcome = "none"
        /\ stage = "list" /\ pages' = pages + 1 /\ PageStep(n)
        /\ UNCHANGED <<tokens, files, op, size>>
        /\ doomed' = IF stage' = "delete" THEN Candidates(all', Keep) ELSE {}
    BY PageFrame DEF PageTaken
  <1>2. ASSUME NEW e \in all'
        PROVE  e \in [page : 1..MaxPages, info : BackupInfo \cup ProtoType]
    <2>1. CASE e \in all
      BY <1>1, <2>1 DEF TypeOK, ProtoType
    <2>2. ASSUME NEW f \in Items(PageOf(n)), e = [page |-> pages + 1, info |-> Shown(f)]
          PROVE  e \in [page : 1..MaxPages, info : BackupInfo \cup ProtoType]
      <3>1. Shown(f) \in BackupInfo \cup ProtoType
        BY PageItems, ShownFacts DEF Visible
      <3>2. pages + 1 \in 1..MaxPages
        BY <1>1, ListingAssumption
      <3>3. QED
        BY <2>2, <3>1, <3>2
    <2>3. QED
      BY <2>1, <2>2, NewEntry
  <1>3. all' \in SUBSET [page : 1..MaxPages, info : BackupInfo \cup ProtoType]
    BY <1>2
  <1>4. doomed' \in SUBSET [page : 1..MaxPages, info : BackupInfo]
    BY <1>1, <1>3, CandidateType
  <1>5. /\ stage' = "delete" => op = "prune" /\ outcome' = outcome
        /\ stage' = "list" => pages + 1 < MaxPages /\ outcome' = outcome
        /\ stage' \in {"list", "delete", "end"}
        /\ stage' = "end" => outcome' \in {"Ok", "error"}
    BY <1>1, PageStages
  <1>6. pages' \in 0..MaxPages
    BY <1>1, ListingAssumption
  <1>7. outcome' \in {"none", "Ok", "error"}
    BY <1>1, <1>5
  <1>8. TypeOK'
    BY <1>1, <1>3, <1>4, <1>5, <1>6, <1>7 DEF TypeOK, ProtoType
  <1>9. StageInv'
    BY <1>1, <1>5 DEF StageInv
  <1>10. QED
    BY <1>8, <1>9

\* The files after a page: the token names a file of the folder.
LEMMA PageFiles ==
  ASSUME NEW n \in Nat, PageTaken(n)
  PROVE  FilesInv'
  <1>1. /\ TypeOK /\ FilesInv /\ n <= Cardinality(Rest) /\ PageStep(n) /\ deleted' = {}
        /\ Known' = Known /\ UNCHANGED <<files, start, arrived, removed>>
    BY PageFrame DEF PageTaken, history
  <1>2. token' = Behind(token, PageOf(n), n)
    BY <1>1 DEF PageStep
  <1>3. token'.offset \in Nat
    BY <1>1, <1>2 DEF Behind, FilesInv
  <1>4. token'.last \subseteq Known /\ \A f, g \in token'.last : f = g
    <2>1. CASE n = 0
      BY <1>1, <1>2, <2>1 DEF Behind, FilesInv
    <2>2. CASE n # 0
      <3>1. PICK m \in PageOf(n) : token'.last = {m}
        BY <1>1, <1>2, <2>2, LastOfPage
      <3>2. m \in Known
        BY <1>1, PageFacts, KnownOrdered
      <3>3. QED
        BY <3>1, <3>2
    <2>3. QED
      BY <2>1, <2>2
  <1>5. IsFiniteSet(all')
    <2>1. IsFiniteSet(PageOf(n))
      BY <1>1, PageFacts
    <2>2. /\ Items(PageOf(n)) \subseteq PageOf(n)
          /\ First(Items(PageOf(n)), 1) \subseteq PageOf(n)
      BY DEF Items, First
    <2>3. IsFiniteSet(Items(PageOf(n))) /\ IsFiniteSet(First(Items(PageOf(n)), 1))
      BY <2>1, <2>2, FS_Subset
    <2>4. /\ IsFiniteSet(Entries(Items(PageOf(n))))
          /\ IsFiniteSet(Entries(First(Items(PageOf(n)), 1)))
      BY <2>3, EntriesFinite
    <2>5. IsFiniteSet(all)
      BY <1>1 DEF FilesInv
    <2>6. IsFiniteSet(all \cup Entries(Items(PageOf(n))))
      BY <2>4, <2>5, FS_Union
    <2>7. QED
      BY <1>1, <2>4, <2>6, PageEntries
  <1>6. QED
    BY <1>1, <1>3, <1>4, <1>5 DEF FilesInv

\* The entries after a page: each shows a file that was there.
LEMMA PageEntriesInv ==
  ASSUME NEW n \in Nat, PageTaken(n)
  PROVE  EntriesInv'
  <1>1. /\ EntriesInv /\ pages \in Nat /\ Known' = Known /\ pages' = pages + 1 /\ op' = op
        /\ \A f : (Shown(f))' = Shown(f)
    BY PageFrame DEF PageTaken, Inv
  <1>2. SUFFICES ASSUME NEW e \in all'
                 PROVE  /\ e.page \in 1..(pages + 1)
                        /\ \E f \in Known : /\ Visible(f) /\ e.info = Shown(f)
                                            /\ op = "latest" => f.kind # "pre_restore"
    BY <1>1 DEF EntriesInv, Visible
  <1>3. CASE e \in all
    <2>1. /\ e.page \in 1..pages
          /\ \E f \in Known : /\ Visible(f) /\ e.info = Shown(f)
                              /\ op = "latest" => f.kind # "pre_restore"
      BY <1>1, <1>3 DEF EntriesInv
    <2>2. e.page \in 1..(pages + 1)
      BY <1>1, <2>1
    <2>3. QED
      BY <2>1, <2>2
  <1>4. ASSUME NEW f \in Items(PageOf(n)), e = [page |-> pages + 1, info |-> Shown(f)]
        PROVE  /\ e.page \in 1..(pages + 1)
               /\ \E g \in Known : /\ Visible(g) /\ e.info = Shown(g)
                                   /\ op = "latest" => g.kind # "pre_restore"
    <2>1. f \in Known /\ Visible(f) /\ (op = "latest" => f.kind # "pre_restore")
      BY PageItems
    <2>2. e.page = pages + 1 /\ e.info = Shown(f)
      BY <1>4
    <2>3. e.page \in 1..(pages + 1)
      BY <1>1, <2>2
    <2>4. QED
      BY <2>1, <2>2, <2>3
  <1>5. QED
    BY <1>3, <1>4, NewEntry

\* A backup on a page is listed by it.
LEMMA PageLists ==
  ASSUME NEW n \in Nat, PageTaken(n), op # "latest", NEW f \in PageOf(n), IsBackup(f)
  PROVE  (Listed(f))'
  <1>1. f \in Items(PageOf(n))
    BY DEF Items
  <1>2. [page |-> pages + 1, info |-> Shown(f)] \in all'
    BY <1>1, PageItems
  <1>3. (Shown(f))' = Shown(f)
    BY PageFrame
  <1>4. QED
    BY <1>2, <1>3 DEF Listed

\* What was listed stays listed.
LEMMA PageKeepsListed ==
  ASSUME NEW n \in Nat, PageTaken(n), op # "latest", NEW f, Listed(f)
  PROVE  (Listed(f))'
  <1>1. (Shown(f))' = Shown(f) /\ all \subseteq all'
    BY PageFrame
  <1>2. QED
    BY <1>1 DEF Listed

\* Completeness after a page.
LEMMA PageComplete ==
  ASSUME NEW n \in Nat, PageTaken(n)
  PROVE  CompleteInv'
  <1>1. /\ CompleteInv /\ TypeOK /\ FilesInv /\ n <= Cardinality(Rest) /\ stage = "list"
        /\ Throughout' = Throughout /\ Steady' = Steady /\ Throughout \subseteq files
        /\ UNCHANGED <<tokens, files, op>> /\ PageStep(n) /\ outcome = "none"
    BY PageFrame DEF PageTaken, Inv
  <1>2. SUFFICES ASSUME op # "latest", Steady
                 PROVE  /\ \A f \in Throughout \cap Past' : IsBackup(f) => (Listed(f))'
                        /\ stage' = "delete" \/ outcome' = "Ok" =>
                             \A f \in Throughout : Visible(f) => (Listed(f))'
    BY <1>1 DEF CompleteInv, Visible
  <1>3. Past' = Past \cup PageOf(n) /\ Past = Query \ Rest
    BY <1>1, PageMoves DEF Past, Rest
  <1>4. \A f \in Throughout \cap Past' : IsBackup(f) => (Listed(f))'
    <2>1. ASSUME NEW f \in Throughout \cap Past', IsBackup(f) PROVE (Listed(f))'
      <3>1. CASE f \in Past
        <4>1. Listed(f)
          BY <1>1, <1>2, <2>1, <3>1 DEF CompleteInv
        <4>2. QED
          BY <1>2, <4>1, PageKeepsListed
      <3>2. CASE f \in PageOf(n)
        BY <1>2, <2>1, <3>2, PageLists
      <3>3. QED
        BY <1>3, <3>1, <3>2
    <2>2. QED
      BY <2>1
  <1>5. ASSUME stage' = "delete" \/ outcome' = "Ok", NEW f \in Throughout, Visible(f)
        PROVE  (Listed(f))'
    <2>1. IsLast(n)
      BY <1>1, <1>2, <1>5, PageStages
    <2>2. PageOf(n) = Rest
      BY <1>1, <2>1, PageFacts
    <2>3. f \in Query
      BY <1>1, <1>2, <1>5, KnownOrdered DEF Visible
    <2>4. f \in Throughout \cap Past'
      BY <1>3, <2>2, <2>3
    <2>5. QED
      BY <1>4, <1>5, <2>4 DEF Visible
  <1>6. QED
    BY <1>4, <1>5

\* A file that latest may answer with is in its query.
LEMMA RegularQueried ==
  ASSUME FilesInv, op = "latest", NEW f \in files, Visible(f), ParseKind(f.kind) = "regular"
  PROVE  f \in Query
  <1>1. f.kind # "pre_restore"
    BY DEF ParseKind, Kinds
  <1>2. QED
    BY <1>1, KnownOrdered DEF Visible

\* latest after a page: the first backup of the page is the newest one.
LEMMA PageLatest ==
  ASSUME NEW n \in Nat, PageTaken(n)
  PROVE  LatestInv'
  <1> DEFINE I == Items(PageOf(n))
             H == First(I, 1)
  <1>1. /\ LatestInv /\ TypeOK /\ FilesInv /\ n <= Cardinality(Rest) /\ stage = "list"
        /\ Throughout' = Throughout /\ Steady' = Steady /\ Throughout \subseteq files
        /\ UNCHANGED <<tokens, files, op, removed>> /\ PageStep(n) /\ outcome = "none"
        /\ files \subseteq DriveFiles
    BY PageFrame, KnownOrdered DEF PageTaken, Inv, history
  <1>2. CASE op # "latest"
    BY <1>1, <1>2 DEF LatestInv, LatestIsNewest
  <1>3. CASE op = "latest"
    <2>1. all' = Entries(H)
      BY <1>1, <1>3, PageEntries
    <2>2. Ordered(I) /\ I \subseteq PageOf(n)
      BY <1>1, PageFacts, OrderedPart DEF Items
    <2>3. /\ H \in SUBSET I /\ Cardinality(I) \in Nat
          /\ 1 <= Cardinality(I) => Cardinality(H) = 1
          /\ \A f \in H, g \in I \ H : Before(f, g)
      BY <2>2, FirstFacts
    <2>4. I # {} => H # {}
      BY <2>2, <2>3, FS_EmptySet DEF Ordered
    <2>5. Past' = Past \cup PageOf(n) /\ Past = Query \ Rest
      BY <1>1, PageMoves DEF Past, Rest
    <2>6. stage' = "list" =>
            all' = {} /\ (Steady => \A f \in Throughout \cap Past' : ~IsBackup(f))
      <3>1. ASSUME stage' = "list" PROVE I = {}
        BY <1>1, <1>3, <3>1, PageStages
      <3>2. ASSUME stage' = "list" PROVE all' = {}
        BY <2>1, <2>3, <3>1, <3>2 DEF Entries
      <3>3. ASSUME stage' = "list", Steady, NEW f \in Throughout \cap Past' PROVE ~IsBackup(f)
        <4>1. CASE f \in Past
          BY <1>1, <1>3, <3>3, <4>1 DEF LatestInv
        <4>2. CASE f \in PageOf(n)
          BY <3>1, <3>3, <4>2 DEF Items
        <4>3. QED
          BY <2>5, <3>3, <4>1, <4>2
      <3>4. QED
        BY <3>2, <3>3
    <2>7. ASSUME NEW e \in all' PROVE e.info.kind = "regular"
      <3>1. PICK f \in H : e = [page |-> pages + 1, info |-> Shown(f)]
        BY <2>1, <2>7 DEF Entries
      <3>2. f \in I /\ f \in DriveFiles /\ f.kind # "pre_restore" /\ IsBackup(f)
        BY <1>3, <2>3, PageItems DEF Visible
      <3>3. ParseKind(f.kind) = "regular"
        BY <3>2 DEF IsBackup, ParseKind, Kinds
      <3>4. Shown(f) = ToBackupInfo(f)
        BY <1>3 DEF Shown
      <3>5. QED
        BY <3>1, <3>3, <3>4 DEF ToBackupInfo
    <2>8. ASSUME outcome' = "Ok", Steady, NEW f \in Throughout, Visible(f),
                 ParseKind(f.kind) = "regular"
          PROVE  \E e \in all' : e.info.created_at >= f.created_at
      <3>1. f \in Query /\ f \in DriveFiles /\ IsBackup(f)
        BY <1>1, <1>3, <2>8, RegularQueried DEF Visible
      <3>2. f \in Rest
        BY <1>1, <1>3, <2>5, <2>8, <3>1 DEF LatestInv
      <3>3. I # {} \/ IsLast(n)
        BY <1>1, <1>3, <2>8, PageStages
      <3>4. I # {}
        BY <1>1, <3>1, <3>2, <3>3, PageFacts DEF Items
      <3>5. PICK h \in H : TRUE
        BY <2>4, <3>4
      <3>6. h \in I /\ h \in DriveFiles /\ IsBackup(h)
        BY <2>3, PageItems DEF Visible
      <3>7. h.created_at >= f.created_at
        <4>1. h.created_at \in Nat /\ f.created_at \in Nat
          BY <3>1, <3>6 DEF DriveFiles
        <4>2. CASE f \in H
          <5>1. f = h
            BY <2>2, <4>2, HeadUnique
          <5>2. QED
            BY <4>1, <5>1
        <4>3. CASE f \in PageOf(n) \ H
          <5>1. f \in I
            BY <3>1, <4>3 DEF Items
          <5>2. Before(h, f)
            BY <2>3, <4>3, <5>1
          <5>3. QED
            BY <4>1, <5>2 DEF Before
        <4>4. CASE f \notin PageOf(n)
          <5>1. Before(h, f)
            BY <1>1, <2>2, <3>2, <3>6, <4>4, PageFacts
          <5>2. QED
            BY <4>1, <5>1 DEF Before
        <4>5. QED
          BY <4>2, <4>3, <4>4
      <3>8. [page |-> pages + 1, info |-> Shown(h)] \in all'
        BY <2>1 DEF Entries
      <3>9. Shown(h).created_at = h.created_at
        BY <3>6, ShownFacts
      <3>10. QED
        BY <3>7, <3>8, <3>9
    <2>9. LatestIsNewest'
      BY <1>1, <2>7, <2>8 DEF LatestIsNewest, Steady, Visible
    <2>10. QED
      BY <1>1, <1>3, <2>6, <2>9 DEF LatestInv
  <1>4. QED
    BY <1>2, <1>3

\* Before looks at the id and the time only, which an info shares with its file.
LEMMA InfoBefore ==
  ASSUME NEW f
  PROVE  /\ ToBackupInfo(f).id = f.id /\ ToBackupInfo(f).created_at = f.created_at
         /\ \A g : Before(g, ToBackupInfo(f)) <=> Before(g, f)
         /\ \A g : Before(ToBackupInfo(f), g) <=> Before(f, g)
  BY DEF ToBackupInfo, Before

\* The order of the entries after a page.
LEMMA PageOrder ==
  ASSUME NEW n \in Nat, PageTaken(n)
  PROVE  OrderInv'
  <1>1. /\ OrderInv /\ CompleteInv /\ EntriesInv /\ TypeOK /\ FilesInv /\ n <= Cardinality(Rest)
        /\ Throughout' = Throughout /\ Steady' = Steady /\ Throughout \subseteq files
        /\ op' = op /\ pages \in Nat /\ stage = "list" /\ PageStep(n)
    BY PageFrame DEF PageTaken, Inv
  <1>2. SUFFICES ASSUME op = "prune", Steady, NEW e \in all', NEW g \in Throughout,
                        Visible(g), Before(g, e.info)
                 PROVE  \E d \in all' : d.info = ToBackupInfo(g) /\ d.page <= e.page
    BY <1>1 DEF OrderInv, Visible
  <1>3. all \subseteq all' /\ \A f : Shown(f) = ToBackupInfo(f)
    BY <1>2, PageFrame DEF Shown
  <1>4. CASE e \in all
    BY <1>1, <1>2, <1>3, <1>4 DEF OrderInv
  <1>5. ASSUME NEW f \in Items(PageOf(n)), e = [page |-> pages + 1, info |-> Shown(f)]
        PROVE  \E d \in all' : d.info = ToBackupInfo(g) /\ d.page <= e.page
    <2>1. f \in PageOf(n) /\ e.page = pages + 1
      BY <1>5, PageItems
    <2>2. Before(g, f)
      BY <1>2, <1>3, <1>5, InfoBefore
    <2>3. g \in Query
      BY <1>1, <1>2, KnownOrdered DEF Visible
    <2>4. CASE g \in Rest
      <3>1. g \in PageOf(n)
        BY <1>1, <2>1, <2>2, <2>4, PageFacts
      <3>2. g \in Items(PageOf(n))
        BY <1>2, <3>1 DEF Items, Visible
      <3>3. [page |-> pages + 1, info |-> Shown(g)] \in all'
        BY <1>2, <3>2, PageItems
      <3>4. QED
        BY <1>1, <1>3, <2>1, <3>3
    <2>5. CASE g \notin Rest
      <3>1. g \in Throughout \cap Past
        BY <2>3, <2>5 DEF Past, Rest
      <3>2. Listed(g)
        BY <1>1, <1>2, <3>1 DEF CompleteInv, Visible
      <3>3. PICK d \in all : d.info = ToBackupInfo(g)
        BY <1>3, <3>2 DEF Listed
      <3>4. d.page \in 1..pages
        BY <1>1 DEF EntriesInv
      <3>5. d.page <= e.page
        BY <1>1, <2>1, <3>4
      <3>6. QED
        BY <1>3, <3>3, <3>5
    <2>6. QED
      BY <2>4, <2>5
  <1>6. QED
    BY <1>4, <1>5, NewEntry

\* A file from the cursor on comes after every entry.
LEMMA CursorAhead ==
  ASSUME Inv, op = "prune", tokens = "cursor", NEW e \in all, NEW f \in Rest
  PROVE  Before(e.info, f)
  <1>1. PICK l \in token.last : Before(e.info, l) \/ e.info = ToBackupInfo(l)
    BY DEF Inv, CursorInv
  <1>2. Before(l, f)
    BY DEF Rest, From
  <1>3. CASE e.info = ToBackupInfo(l)
    BY <1>2, <1>3, InfoBefore
  <1>4. CASE Before(e.info, l)
    <2>1. l \in DriveFiles /\ f \in DriveFiles
      BY KnownOrdered DEF Inv, FilesInv, Rest, From
    <2>2. PICK k \in Known : Visible(k) /\ e.info = Shown(k)
      BY DEF Inv, EntriesInv
    <2>3. k \in DriveFiles /\ e.info = ToBackupInfo(k)
      BY <2>2 DEF Inv, FilesInv, Shown
    <2>4. Before(k, l)
      BY <1>4, <2>3, InfoBefore
    <2>5. Before(k, f)
      BY <1>2, <2>1, <2>3, <2>4 DEF Before, DriveFiles
    <2>6. QED
      BY <2>3, <2>5, InfoBefore
  <1>5. QED
    BY <1>1, <1>3, <1>4

\* The cursor after a page.
LEMMA PageCursor ==
  ASSUME NEW n \in Nat, PageTaken(n)
  PROVE  CursorInv'
  <1>1. /\ CursorInv /\ EntriesInv /\ TypeOK /\ FilesInv /\ n <= Cardinality(Rest) /\ Inv
        /\ op' = op /\ tokens' = tokens /\ pages \in Nat /\ PageStep(n)
    BY PageFrame DEF PageTaken, Inv
  <1>2. SUFFICES ASSUME op = "prune", tokens = "cursor"
                 PROVE  /\ \A e \in all' : \E l \in token'.last :
                             Before(e.info, l) \/ e.info = ToBackupInfo(l)
                        /\ \A d, e \in all' : d.page < e.page => Before(d.info, e.info)
    BY <1>1 DEF CursorInv
  <1>3. \A f : Shown(f) = ToBackupInfo(f)
    BY <1>2 DEF Shown
  <1>4. ASSUME NEW e \in all'
        PROVE  \E l \in token'.last : Before(e.info, l) \/ e.info = ToBackupInfo(l)
    <2>1. CASE n = 0
      <3>1. PageOf(n) = {} /\ token'.last = token.last
        BY <1>1, <2>1, PageFacts, FS_EmptySet DEF PageStep, Behind
      <3>2. e \in all
        BY <3>1, NewEntry DEF Items
      <3>3. QED
        BY <1>1, <1>2, <3>1, <3>2 DEF CursorInv
    <2>2. CASE n # 0
      <3>1. PICK m \in PageOf(n) : (\A f \in PageOf(n) : f = m \/ Before(f, m)) /\ token'.last = {m}
        BY <1>1, <2>2, LastOfPage DEF PageStep
      <3>2. CASE e \in all
        <4>1. m \in Rest
          BY <1>1, PageFacts
        <4>2. Before(e.info, m)
          BY <1>1, <1>2, <3>2, <4>1, CursorAhead
        <4>3. QED
          BY <3>1, <4>2
      <3>3. ASSUME NEW f \in Items(PageOf(n)), e = [page |-> pages + 1, info |-> Shown(f)]
            PROVE  Before(e.info, m) \/ e.info = ToBackupInfo(m)
        <4>1. f = m \/ Before(f, m)
          BY <3>1, PageItems
        <4>2. e.info = ToBackupInfo(f)
          BY <1>3, <3>3
        <4>3. QED
          BY <4>1, <4>2, InfoBefore
      <3>4. QED
        BY <3>1, <3>2, <3>3, NewEntry
    <2>3. QED
      BY <2>1, <2>2
  <1>5. ASSUME NEW d \in all', NEW e \in all', d.page < e.page
        PROVE  Before(d.info, e.info)
    <2>1. d.page \in 1..(pages + 1) /\ e.page \in 1..(pages + 1)
      <3>1. EntriesInv' /\ pages' = pages + 1
        BY PageEntriesInv DEF PageTaken
      <3>2. QED
        BY <3>1 DEF EntriesInv
    <2>2. d.page <= pages
      BY <1>1, <1>5, <2>1
    <2>3. d \in all
      BY <1>1, <2>2, NewEntry
    <2>4. CASE e \in all
      BY <1>1, <1>2, <1>5, <2>3, <2>4 DEF CursorInv
    <2>5. ASSUME NEW f \in Items(PageOf(n)), e = [page |-> pages + 1, info |-> Shown(f)]
          PROVE  Before(d.info, e.info)
      <3>1. f \in Rest
        BY PageItems
      <3>2. Before(d.info, f)
        BY <1>1, <1>2, <2>3, <3>1, CursorAhead
      <3>3. QED
        BY <1>3, <2>5, <3>2, InfoBefore
    <2>6. QED
      BY <2>4, <2>5, NewEntry
  <1>6. QED
    BY <1>4, <1>5

\* Listing a file again uses up the push that brought it there.
LEMMA PagePosition ==
  ASSUME NEW n \in Nat, PageTaken(n)
  PROVE  PositionInv'
  <1> DEFINE P == Pushed \cap PageOf(n)
             N == Extra' \ Extra
  <1>1. /\ PositionInv /\ EntriesInv /\ TypeOK /\ FilesInv /\ n <= Cardinality(Rest)
        /\ UNCHANGED <<tokens, files, op, arrived>> /\ pages \in Nat /\ PageStep(n)
        /\ stage = "list" /\ Ordered(Known) /\ Query \subseteq Known /\ FilesInv'
    BY PageFrame, PageFiles, KnownOrdered DEF PageTaken, Inv, history
  <1>2. SUFFICES ASSUME op = "prune", tokens = "position"
                 PROVE  Cardinality(Extra') + Cardinality(Pushed') <= arrived
                        /\ Cardinality(Extra') <= arrived
    BY <1>1 DEF PositionInv
  <1>3. all' = all \cup Entries(Items(PageOf(n)))
    BY <1>1, <1>2, PageEntries
  <1>4. \A e \in all : e.page \in 1..pages
    BY <1>1 DEF EntriesInv
  <1>5. Rest' = Rest \ PageOf(n)
    BY <1>1, PageMoves
  <1>6. ASSUME NEW e \in N
        PROVE  \E f \in P : e = [page |-> pages + 1, info |-> Shown(f)]
    <2>1. PICK d \in all' : e \in all' /\ d.page < e.page /\ d.info.id = e.info.id
      BY <1>6 DEF Extra
    <2>2. d.page \in 1..(pages + 1) /\ e.page \in 1..(pages + 1)
      <3>1. EntriesInv' /\ pages' = pages + 1
        BY PageEntriesInv DEF PageTaken
      <3>2. QED
        BY <2>1, <3>1 DEF EntriesInv
    <2>3. d.page <= pages
      BY <1>1, <2>1, <2>2
    <2>4. d \in all
      BY <1>1, <2>1, <2>3, NewEntry
    <2>5. e \notin all
      BY <1>6, <2>1, <2>4 DEF Extra
    <2>6. PICK f \in Items(PageOf(n)) : e = [page |-> pages + 1, info |-> Shown(f)]
      BY <2>1, <2>5, NewEntry
    <2>7. f \in PageOf(n) /\ f \in Rest /\ f \in DriveFiles /\ IsBackup(f)
      BY PageItems DEF Visible
    <2>8. d.info.id = f.id
      BY <2>1, <2>6, <2>7, ShownFacts
    <2>9. f \in Pushed
      BY <2>4, <2>7, <2>8 DEF Pushed, Rest
    <2>10. QED
      BY <2>6, <2>7, <2>9
  <1>7. Pushed' \subseteq Pushed \ PageOf(n)
    <2>1. ASSUME NEW f \in Pushed' PROVE f \in Pushed \ PageOf(n)
      <3>1. f \in Rest' /\ \E e \in all' : e.info.id = f.id
        BY <2>1 DEF Pushed, Rest
      <3>2. f \in Rest /\ f \notin PageOf(n)
        BY <1>5, <3>1
      <3>3. PICK e \in all' : e.info.id = f.id
        BY <3>1
      <3>4. CASE e \in all
        BY <3>2, <3>3, <3>4 DEF Pushed, Rest
      <3>5. ASSUME NEW g \in Items(PageOf(n)), e = [page |-> pages + 1, info |-> Shown(g)]
            PROVE  FALSE
        <4>1. g \in PageOf(n) /\ g \in Known /\ g \in DriveFiles /\ IsBackup(g)
          BY PageItems DEF Visible
        <4>2. g.id = f.id
          BY <3>3, <3>5, <4>1, ShownFacts
        <4>3. f \in Known
          BY <1>1, <3>2, PageFacts
        <4>4. g = f
          BY <1>1, <4>1, <4>2, <4>3 DEF FilesInv
        <4>5. QED
          BY <3>2, <4>1, <4>4
      <3>6. QED
        BY <3>4, <3>5, NewEntry
    <2>2. QED
      BY <2>1
  <1>8. IsFiniteSet(Pushed) /\ IsFiniteSet(Extra) /\ IsFiniteSet(Extra')
    <2>1. Pushed \subseteq Rest /\ Extra \subseteq all /\ Extra' \subseteq all'
      BY DEF Pushed, Rest, Extra
    <2>2. IsFiniteSet(Rest)
      BY <1>1, PageFacts DEF Ordered
    <2>3. IsFiniteSet(all) /\ IsFiniteSet(all')
      BY <1>1 DEF FilesInv
    <2>4. QED
      BY <2>1, <2>2, <2>3, FS_Subset
  <1>9. Cardinality(N) <= Cardinality(P) /\ IsFiniteSet(N)
    <2> DEFINE F == [e \in N |-> CHOOSE f \in P : e = [page |-> pages + 1, info |-> Shown(f)]]
    <2>1. \A e \in N : F[e] \in P /\ e = [page |-> pages + 1, info |-> Shown(F[e])]
      BY <1>6
    <2>2. F \in [N -> P]
      BY <2>1
    <2>3. \A x, y \in N : F[x] = F[y] => x = y
      BY <2>1
    <2>4. IsFiniteSet(P)
      BY <1>8, FS_Subset
    <2>5. QED
      BY <2>2, <2>3, <2>4, Injected
  <1>10. /\ Cardinality(Extra') <= Cardinality(Extra) + Cardinality(N)
         /\ Cardinality(Extra') \in Nat /\ Cardinality(Extra) \in Nat /\ Cardinality(N) \in Nat
    <2>1. /\ Cardinality(Extra \cup N) =
               Cardinality(Extra) + Cardinality(N) - Cardinality(Extra \cap N)
          /\ IsFiniteSet(Extra \cup N)
      BY <1>8, <1>9, FS_Union
    <2>2. Extra' \subseteq Extra \cup N /\ IsFiniteSet(Extra \cap N)
      BY <1>8, FS_Subset
    <2>3. Cardinality(Extra') <= Cardinality(Extra \cup N)
      BY <2>1, <2>2, FS_Subset
    <2>4. /\ Cardinality(Extra') \in Nat /\ Cardinality(Extra) \in Nat /\ Cardinality(N) \in Nat
          /\ Cardinality(Extra \cap N) \in Nat /\ Cardinality(Extra \cup N) \in Nat
      BY <1>8, <1>9, <2>1, <2>2, FS_CardinalityType
    <2>5. QED
      BY <2>1, <2>3, <2>4
  <1>11. /\ Cardinality(Pushed') <= Cardinality(Pushed) - Cardinality(P)
         /\ Cardinality(Pushed') \in Nat /\ Cardinality(Pushed) \in Nat /\ Cardinality(P) \in Nat
    <2>1. /\ IsFiniteSet(Pushed \ PageOf(n))
          /\ Cardinality(Pushed \ PageOf(n)) = Cardinality(Pushed) - Cardinality(P)
      BY <1>8, FS_Difference
    <2>2. IsFiniteSet(Pushed') /\ Cardinality(Pushed') <= Cardinality(Pushed \ PageOf(n))
      BY <1>7, <2>1, FS_Subset
    <2>3. IsFiniteSet(P)
      BY <1>8, FS_Subset
    <2>4. Cardinality(Pushed') \in Nat /\ Cardinality(Pushed) \in Nat /\ Cardinality(P) \in Nat
      BY <1>8, <2>2, <2>3, FS_CardinalityType
    <2>5. QED
      BY <2>1, <2>2, <2>4
  <1>12. arrived \in Nat /\ Cardinality(Extra) + Cardinality(Pushed) <= arrived
    BY <1>1, <1>2 DEF PositionInv, FilesInv
  <1>13. QED
    BY <1>9, <1>10, <1>11, <1>12

\* The candidates after a page: none is removed yet.
LEMMA PageRemoval ==
  ASSUME NEW n \in Nat, PageTaken(n)
  PROVE  RemovalInv'
  <1>1. /\ TypeOK /\ FilesInv /\ deleted' = {} /\ op' = op /\ PageStep(n) /\ stage = "list"
        /\ doomed' = IF stage' = "delete" THEN Candidates(all', Keep) ELSE {}
        /\ outcome = "none"
    BY PageFrame DEF PageTaken
  <1>2. /\ stage' = "delete" => outcome' = outcome
        /\ stage' = "list" => outcome' = outcome
        /\ stage' \in {"list", "delete", "end"}
        /\ stage' = "end" /\ outcome' = "Ok" => op # "prune"
    BY <1>1, PageStages
  <1>3. (Candidates(all, Keep))' = Candidates(all', Keep)
    BY DEF Candidates
  <1>4. QED
    BY <1>1, <1>2, <1>3 DEF RemovalInv

\* ListPage preserves the invariant.
LEMMA ListPageInv ==
  ASSUME Inv, ListPage
  PROVE  Inv'
  <1>1. TypeOK
    BY DEF Inv
  <1>2. PICK n \in Nat : PageTaken(n)
    BY <1>1, PageStepExists DEF PageTaken
  <1>3. QED
    BY PageType, PageFiles, PageEntriesInv, PageComplete, PageLatest, PageOrder, PageCursor,
       PagePosition, PageRemoval, <1>2 DEF Inv
=============================================================================
