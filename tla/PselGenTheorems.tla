--------------------------- MODULE PselGenTheorems ---------------------------
(***************************************************************************)
(* Facts about finite sets of natural numbers that the proofs share: least *)
(* elements, sets without holes, and the rank of an element.  And what the *)
(* users of psel_gen, which selects by rank, rely on: when there are at    *)
(* least as many requests as lines, every line is granted one request, and *)
(* no two lines the same one.                                              *)
(***************************************************************************)
EXTENDS PselGen, FiniteSetTheorems, SequenceTheorems, WellFoundedInduction, TLAPS

\* A non-empty set of natural numbers has a least element.
LEMMA LeastElement ==
  ASSUME NEW S \in SUBSET Nat, S # {}
  PROVE  \E x \in S : \A y \in S : x <= y
<1>1. \E x \in S : \A y \in S : ~ (<<y, x>> \in OpToRel(<, Nat))
  BY NatLessThanWellFounded, WFMin
<1>2. PICK x \in S : \A y \in S : ~ (<<y, x>> \in OpToRel(<, Nat))
  BY <1>1
<1>3. \A y \in S : ~ (y < x)
  BY <1>2 DEF OpToRel
<1> QED
  BY <1>3

\* A subset of 0..n-1 that contains every number below its members is the
\* interval of its cardinality.
LEMMA PrefixIsInterval ==
  ASSUME NEW n \in Nat, NEW S \in SUBSET (0 .. (n - 1)),
         \A i \in S : \A j \in 0 .. i : j \in S
  PROVE  /\ Cardinality(S) \in 0 .. n
         /\ S = 0 .. (Cardinality(S) - 1)
<1> DEFINE M == {i \in 0 .. n : i \notin S}
<1>1. M \in SUBSET Nat /\ M # {}
  <2>1. n \in M
    OBVIOUS
  <2> QED
    BY <2>1
<1>2. PICK c \in M : \A y \in M : c <= y
  BY <1>1, LeastElement
<1>3. S = 0 .. (c - 1)
  <2>1. ASSUME NEW i \in 0 .. (c - 1) PROVE i \in S
    BY <1>2
  <2>2. ASSUME NEW i \in S PROVE i \in 0 .. (c - 1)
    <3>1. ~ (c <= i)
      BY <1>2
    <3> QED
      BY <1>2, <3>1
  <2> QED
    BY <2>1, <2>2
<1>4. Cardinality(S) = c
  BY <1>2, <1>3, FS_Interval
<1> QED
  BY <1>2, <1>3, <1>4

\* A non-empty subset of 0..n-1 without holes is an interval from its least
\* member.
LEMMA ContiguousIsInterval ==
  ASSUME NEW n \in Nat, NEW S \in SUBSET (0 .. (n - 1)), S # {},
         \A a, c \in S : \A b \in 0 .. (n - 1) : a <= b /\ b <= c => b \in S,
         NEW f \in S, \A y \in S : f <= y
  PROVE  /\ Cardinality(S) \in 1 .. (n - f)
         /\ S = f .. (f + Cardinality(S) - 1)
<1> DEFINE M == {i \in f .. n : i \notin S}
<1>1. M \in SUBSET Nat /\ M # {}
  <2>1. n \in M
    OBVIOUS
  <2> QED
    BY <2>1
<1>2. PICK c \in M : \A y \in M : c <= y
  BY <1>1, LeastElement
<1>3. S = f .. (c - 1)
  <2>1. ASSUME NEW i \in f .. (c - 1) PROVE i \in S
    BY <1>2
  <2>2. ASSUME NEW i \in S PROVE i \in f .. (c - 1)
    <3>1. ~ (c <= i)
      BY <1>2
    <3> QED
      BY <1>2, <3>1
  <2> QED
    BY <2>1, <2>2
<1>4. Cardinality(S) = c - f
  <2>1. c > f
    BY <1>2, <1>3
  <2> QED
    BY <1>2, <1>3, <2>1, FS_Interval
<1> QED
  BY <1>2, <1>3, <1>4

\* A sequence given by its elements has the length of its domain.
LEMMA LengthIs ==
  ASSUME NEW S, NEW n \in Nat, NEW seq \in [1 .. n -> S]
  PROVE  seq \in Seq(S) /\ Len(seq) = n
<1>1. seq \in Seq(S)
  BY SeqDef
<1>2. Len(seq) \in Nat /\ 1 .. Len(seq) = 1 .. n
  BY <1>1, LenProperties
<1>3. ASSUME NEW l \in Nat, 1 .. l = 1 .. n PROVE l = n
  <2>1. l > 0 => l \in 1 .. n
    BY <1>3
  <2>2. n > 0 => n \in 1 .. l
    BY <1>3
  <2> QED
    BY <2>1, <2>2
<1> QED
  BY <1>1, <1>2, <1>3

---------------------------------------------------------------------------
(* Ranks, and the selection by rank *)

\* A set of requests bounded by n is finite.
LEMMA RequestsFinite ==
  ASSUME NEW n \in Nat, NEW S \in SUBSET (0 .. (n - 1))
  PROVE  IsFiniteSet(S) /\ Cardinality(S) \in Nat
<1>1. IsFiniteSet(0 .. (n - 1))
  BY FS_Interval
<1>2. IsFiniteSet(S)
  BY <1>1, FS_Subset
<1> QED
  BY <1>2, FS_CardinalityType

\* The number of lower requests distinguishes the requests.
LEMMA BelowIncreases ==
  ASSUME NEW n \in Nat, NEW S \in SUBSET (0 .. (n - 1))
  PROVE  /\ \A p \in S : Below(p, S) \in 0 .. (Cardinality(S) - 1)
         /\ \A p, r \in S : p < r => Below(p, S) < Below(r, S)
<1>1. IsFiniteSet(S) /\ Cardinality(S) \in Nat
  BY RequestsFinite
<1>2. ASSUME NEW p \in S
      PROVE  Below(p, S) \in 0 .. (Cardinality(S) - 1)
  <2> DEFINE lower == {q \in S : q < p}
  <2>1. lower \in SUBSET (S \ {p})
    OBVIOUS
  <2>2. IsFiniteSet(S \ {p}) /\ Cardinality(S \ {p}) = Cardinality(S) - 1
    BY <1>1, FS_RemoveElement
  <2>3. IsFiniteSet(lower) /\ Cardinality(lower) <= Cardinality(S \ {p})
    BY <2>1, <2>2, FS_Subset
  <2>4. Cardinality(lower) \in Nat
    BY <2>3, FS_CardinalityType
  <2>5. Below(p, S) = Cardinality(lower)
    BY DEF Below
  <2> HIDE DEF lower
  <2> QED
    BY <1>1, <2>2, <2>3, <2>4, <2>5
<1>3. ASSUME NEW p \in S, NEW r \in S, p < r
      PROVE  Below(p, S) < Below(r, S)
  <2> DEFINE lower == {q \in S : q < p}
             higher == {q \in S : q < r}
  <2>1. lower \in SUBSET (higher \ {p}) /\ p \in higher
    <3>1. \A q \in S : q \in Int
      OBVIOUS
    <3>2. \A q \in S : q < p => q < r /\ q # p
      BY <1>3, <3>1
    <3> QED
      BY <1>3, <3>2
  <2>2. IsFiniteSet(higher)
    BY <1>1, FS_Subset
  <2>3. /\ IsFiniteSet(higher \ {p})
        /\ Cardinality(higher \ {p}) = Cardinality(higher) - 1
    <3> HIDE DEF higher, lower
    <3> QED
      BY <2>1, <2>2, FS_RemoveElement
  <2>4. Cardinality(lower) <= Cardinality(higher \ {p})
    <3> HIDE DEF higher, lower
    <3> QED
      BY <2>1, <2>3, FS_Subset
  <2>5. Below(p, S) = Cardinality(lower) /\ Below(r, S) = Cardinality(higher)
    BY DEF Below
  <2>6. Below(p, S) \in Nat /\ Below(r, S) \in Nat
    BY <1>2, <1>1
  <2> HIDE DEF lower, higher
  <2> QED
    BY <2>3, <2>4, <2>5, <2>6
<1> QED
  BY <1>2, <1>3

\* A request has below it what it does not have above it.
LEMMA AboveFromBelow ==
  ASSUME NEW n \in Nat, NEW S \in SUBSET (0 .. (n - 1)), NEW p \in S
  PROVE  Above(p, S) = Cardinality(S) - 1 - Below(p, S)
<1> DEFINE lower == {q \in S : q < p}
           higher == {q \in S : q > p}
<1>1. IsFiniteSet(S) /\ Cardinality(S) \in Nat
  BY RequestsFinite
<1>2. IsFiniteSet(lower) /\ IsFiniteSet(higher)
  BY <1>1, FS_Subset
<1>3. lower \cup higher = S \ {p} /\ lower \cap higher = {}
  <2>1. \A q \in S : q \in Int /\ p \in Int
    OBVIOUS
  <2>2. \A q \in S : (q < p \/ q > p) <=> q # p
    BY <2>1
  <2>3. \A q \in S : ~(q < p /\ q > p)
    BY <2>1
  <2> QED
    BY <2>2, <2>3
<1>4. Above(p, S) = Cardinality(higher) /\ Below(p, S) = Cardinality(lower)
  BY DEF Above, Below
<1> HIDE DEF lower, higher
<1>5. Cardinality(lower \cup higher)
        = Cardinality(lower) + Cardinality(higher) - Cardinality(lower \cap higher)
  BY <1>2, FS_Union
<1>6. Cardinality(lower \cap higher) = 0
  BY <1>3, FS_EmptySet
<1>7. Cardinality(lower \cup higher) = Cardinality(S) - 1
  BY <1>1, <1>3, FS_RemoveElement
<1>8. Cardinality(lower) \in Nat /\ Cardinality(higher) \in Nat
  BY <1>2, FS_CardinalityType
<1> QED
  BY <1>1, <1>4, <1>5, <1>6, <1>7, <1>8

\* Every rank below the number of requests is the rank of a request.
LEMMA EveryRankOccurs ==
  ASSUME NEW n \in Nat, NEW S \in SUBSET (0 .. (n - 1)),
         NEW k \in 0 .. (Cardinality(S) - 1)
  PROVE  \E p \in S : Below(p, S) = k
<1> DEFINE ranks == 0 .. (Cardinality(S) - 1)
           f == [p \in S |-> Below(p, S)]
<1>1. IsFiniteSet(S) /\ Cardinality(S) \in Nat
  BY RequestsFinite
<1>below. /\ \A p \in S : Below(p, S) \in 0 .. (Cardinality(S) - 1)
      /\ \A p, r \in S : p < r => Below(p, S) < Below(r, S)
  BY BelowIncreases
<1>2. IsFiniteSet(ranks) /\ Cardinality(ranks) = Cardinality(S)
  BY <1>1, FS_Interval
<1>3. f \in Injection(S, ranks)
  <2>1. f \in [S -> ranks]
    BY <1>below
  <2>2. ASSUME NEW p \in S, NEW r \in S, f[p] = f[r]
        PROVE  p = r
    <3>1. p \in Nat /\ r \in Nat /\ Below(p, S) = Below(r, S)
      BY <2>2
    <3>2. Below(p, S) \in Int /\ Below(r, S) \in Int
      BY <1>1, <1>below
    <3>3. ~(p < r) /\ ~(r < p)
      BY <1>below, <3>1, <3>2
    <3> QED
      BY <3>1, <3>3
  <2> QED
    BY <2>1, <2>2 DEF Injection, IsInjective
<1>4. f \in Surjection(S, ranks)
  <2> HIDE DEF f, ranks
  <2> QED
    BY <1>1, <1>2, <1>3, FS_Injection
<1>5. PICK p \in S : f[p] = k
  BY <1>4 DEF Surjection
<1> QED
  BY <1>5

\* Each line selects exactly one request when there are enough of them.
LEMMA OneSelected ==
  ASSUME NEW n \in Nat, NEW S \in SUBSET (0 .. (n - 1)),
         NEW l \in Nat, l < Cardinality(S)
  PROVE  \E p \in S : Selected(l, S) = {p}
<1>1. Cardinality(S) \in Nat
  BY RequestsFinite
<1>2. l \div 2 \in 0 .. (Cardinality(S) - 1)
  BY <1>1
<1>3. /\ \A p \in S : Below(p, S) \in 0 .. (Cardinality(S) - 1)
      /\ \A p, r \in S : p < r => Below(p, S) < Below(r, S)
  BY BelowIncreases
<1>4. \A p, r \in S : Below(p, S) = Below(r, S) => p = r
  <2> TAKE p, r \in S
  <2>1. p \in Nat /\ r \in Nat
    OBVIOUS
  <2> QED
    BY <1>1, <1>3, <2>1
<1>5. \A p \in S : Above(p, S) = Cardinality(S) - 1 - Below(p, S)
  BY AboveFromBelow
<1>6. CASE l % 2 = 0
  <2> DEFINE k == Cardinality(S) - 1 - (l \div 2)
  <2>1. k \in 0 .. (Cardinality(S) - 1)
    BY <1>1, <1>2
  <2>2. PICK p \in S : Below(p, S) = k
    BY <2>1, EveryRankOccurs
  <2>3. \A q \in S : Above(q, S) = l \div 2 <=> Below(q, S) = k
    BY <1>1, <1>2, <1>3, <1>5
  <2>4. Selected(l, S) = {p}
    BY <1>4, <1>6, <2>2, <2>3 DEF Selected
  <2> QED
    BY <2>4
<1>7. CASE l % 2 # 0
  <2>1. PICK p \in S : Below(p, S) = l \div 2
    BY <1>2, EveryRankOccurs
  <2>2. Selected(l, S) = {p}
    BY <1>4, <1>7, <2>1 DEF Selected
  <2> QED
    BY <2>2
<1> QED
  BY <1>6, <1>7

\* With w requests the first w lines select from the two ends without meeting.
LEMMA SelectedApart ==
  ASSUME NEW n \in Nat, NEW S \in SUBSET (0 .. (n - 1)),
         NEW l \in Nat, l < Cardinality(S), NEW m \in 0 .. (l - 1)
  PROVE  Selected(l, S) \cap Selected(m, S) = {}
<1> SUFFICES ASSUME NEW p \in S, p \in Selected(l, S), p \in Selected(m, S)
             PROVE  FALSE
  BY DEF Selected
<1>1. /\ Cardinality(S) \in Nat
      /\ Below(p, S) \in 0 .. (Cardinality(S) - 1)
      /\ Above(p, S) = Cardinality(S) - 1 - Below(p, S)
  BY RequestsFinite, BelowIncreases, AboveFromBelow
<1>2. /\ l = 2 * (l \div 2) + (l % 2) /\ m = 2 * (m \div 2) + (m % 2)
      /\ l % 2 \in {0, 1} /\ m % 2 \in {0, 1}
      /\ l \div 2 \in Nat /\ m \div 2 \in Nat
  OBVIOUS
<1>3. IF l % 2 = 0 THEN Above(p, S) = l \div 2 ELSE Below(p, S) = l \div 2
  BY DEF Selected
<1>4. IF m % 2 = 0 THEN Above(p, S) = m \div 2 ELSE Below(p, S) = m \div 2
  BY DEF Selected
<1> QED
  BY <1>1, <1>2, <1>3, <1>4

\* The number granted to line l.
LEMMA GrantIsOne ==
  ASSUME NEW n \in Nat, NEW S \in SUBSET (0 .. (n - 1)),
         NEW l \in Nat, l < Cardinality(S)
  PROVE  /\ Encoded(Grant(l, S)) \in S
         /\ Grant(l, S) = {Encoded(Grant(l, S))}
<1>1. Grant(l, S) = Selected(l, S)
  BY SelectedApart DEF Grant
<1>2. PICK p \in S : Selected(l, S) = {p}
  BY OneSelected
<1>3. Encoded({p}) = p
  BY DEF Encoded
<1> QED
  BY <1>1, <1>2, <1>3

\* Different lines are granted different numbers.
LEMMA GrantsDiffer ==
  ASSUME NEW n \in Nat, NEW S \in SUBSET (0 .. (n - 1)),
         NEW l \in Nat, NEW m \in Nat, l < Cardinality(S), m < Cardinality(S),
         Encoded(Grant(l, S)) = Encoded(Grant(m, S))
  PROVE  l = m
<1>1. Grant(l, S) = Grant(m, S) /\ Grant(l, S) # {}
  <2>1. Grant(l, S) = {Encoded(Grant(l, S))}
    BY GrantIsOne
  <2>2. Grant(m, S) = {Encoded(Grant(m, S))}
    BY GrantIsOne
  <2> QED
    BY <2>1, <2>2
<1>2. ASSUME NEW i \in Nat, NEW j \in Nat, i < j
      PROVE  Grant(i, S) \cap Grant(j, S) = {}
  <2>1. Grant(i, S) \subseteq Selected(i, S)
    BY DEF Grant
  <2>2. i \in 0 .. (j - 1)
    BY <1>2
  <2>3. Selected(i, S) \cap Grant(j, S) = {}
    BY <2>2 DEF Grant
  <2> QED
    BY <2>1, <2>3
<1> QED
  BY <1>1, <1>2
==============================================================================
