---------------------------- MODULE RenameProofs ----------------------------
(***************************************************************************)
(* Register renaming and its recovery, for every number of architectural   *)
(* registers, every depth and width and every program: no physical         *)
(* register is given out twice, none is lost, there is always one for each *)
(* lane, and the maps follow the program.                                  *)
(***************************************************************************)
EXTENDS RegisterRename, PselGenTheorems

---------------------------------------------------------------------------
(* What an architectural register is called along a sequence of renamed    *)
(* instructions: the map at the beginning, then the destination of each    *)
(* instruction that writes the register, each carrying the name it         *)
(* replaces.  The lemmas follow such a sequence while its oldest           *)
(* instructions retire and new ones are appended.                          *)

\* After the first n instructions of s, architectural register a is called p.
Names(arch, s, n, a, p) ==
  \/ p = arch[a] /\ \A j \in 1 .. n : s[j].dest_arn # a
  \/ \E j \in 1 .. n : /\ s[j].dest_arn = a
                       /\ p = s[j].dest_prn
                       /\ \A m \in (j + 1) .. n : s[m].dest_arn # a

\* No two architectural registers have one name, and x0 is called 0.
ArchDistinct(arch) ==
  /\ arch[0] = 0
  /\ \A a, b \in Arn : arch[a] = arch[b] /\ arch[a] # 0 => a = b

\* An instruction that writes a register has a name of its own for it and carries
\* the one it replaces.
Linked(arch, s) ==
  \A i \in 1 .. Len(s) :
    IF s[i].dest_arn = 0
      THEN s[i].dest_prn = 0 /\ s[i].dest_prn_prev = 0
      ELSE /\ s[i].dest_prn # 0
           /\ Names(arch, s, i - 1, s[i].dest_arn, s[i].dest_prn_prev)

DestDistinct(arch, s) ==
  /\ \A i \in 1 .. Len(s), a \in Arn : s[i].dest_prn # 0 => s[i].dest_prn # arch[a]
  /\ \A i, j \in 1 .. Len(s) : s[i].dest_prn = s[j].dest_prn /\ s[i].dest_prn # 0 => i = j

Consistent(arch, s) == ArchDistinct(arch) /\ Linked(arch, s) /\ DestDistinct(arch, s)

---------------------------------------------------------------------------
(* Names *)

\* A bounded non-empty set of numbers has a greatest element, which is MaxOf.
LEMMA MaxOfIs ==
  ASSUME NEW n \in Nat, NEW S \in SUBSET (0 .. n), S # {}
  PROVE  MaxOf(S) \in S /\ \A y \in S : y <= MaxOf(S)
<1> DEFINE T == {n - x : x \in S}
<1>1. T \in SUBSET Nat /\ T # {}
  <2>1. \A x \in S : n - x \in Nat
    OBVIOUS
  <2> QED
    BY <2>1
<1>2. PICK t \in T : \A y \in T : t <= y
  <2> HIDE DEF T
  <2> QED
    BY <1>1, LeastElement
<1>3. PICK x \in S : t = n - x
  BY <1>2
<1>4. \A y \in S : y <= x
  <2> TAKE y \in S
  <2>1. n - y \in T
    OBVIOUS
  <2>2. x \in 0 .. n /\ y \in 0 .. n
    OBVIOUS
  <2> HIDE DEF T
  <2>3. n - x <= n - y
    BY <1>2, <1>3, <2>1
  <2> QED
    BY <2>2, <2>3
<1> QED
  BY <1>4 DEF MaxOf

\* A register has one name at a time.
LEMMA NamesUnique ==
  ASSUME NEW arch, NEW s, NEW n \in Nat, NEW a, NEW p, NEW q,
         Names(arch, s, n, a, p), Names(arch, s, n, a, q)
  PROVE  p = q
<1>1. ASSUME NEW i \in 1 .. n, NEW j \in 1 .. n,
             s[i].dest_arn = a, s[j].dest_arn = a,
             \A m \in (i + 1) .. n : s[m].dest_arn # a,
             \A m \in (j + 1) .. n : s[m].dest_arn # a
      PROVE  i = j
  BY <1>1
<1> QED
  BY <1>1 DEF Names

\* A name is that of one register: the registers of two places are the same.
LEMMA NamesApart ==
  ASSUME NEW arch, NEW s, Consistent(arch, s), Len(s) \in Nat,
         NEW n \in 0 .. Len(s), NEW m \in 0 .. Len(s), NEW a \in Arn, NEW b \in Arn,
         NEW p, p # 0, Names(arch, s, n, a, p), Names(arch, s, m, b, p)
  PROVE  a = b
<1>1. \A k \in 1 .. n : k \in 1 .. Len(s)
  OBVIOUS
<1>2. \A k \in 1 .. m : k \in 1 .. Len(s)
  OBVIOUS
<1> QED
  BY <1>1, <1>2 DEF Names, Consistent, ArchDistinct, DestDistinct

\* A name that has been replaced does not come back.
LEMMA NamesOnce ==
  ASSUME NEW arch, NEW s, Consistent(arch, s), Len(s) \in Nat,
         NEW n \in 0 .. Len(s), NEW m \in 0 .. Len(s), NEW a \in Arn, NEW b \in Arn,
         NEW p, p # 0, Names(arch, s, n, a, p), Names(arch, s, m, b, p),
         NEW k \in (n + 1) .. m
  PROVE  s[k].dest_arn # a
<1>1. a = b
  BY NamesApart
<1>2. k \in 1 .. m /\ \A j \in 1 .. m : j \in 1 .. Len(s)
  OBVIOUS
<1>3. CASE p = arch[a] /\ \A j \in 1 .. m : s[j].dest_arn # a
  BY <1>2, <1>3
<1>4. ASSUME NEW j \in 1 .. m, s[j].dest_arn = a, p = s[j].dest_prn,
             \A i \in (j + 1) .. m : s[i].dest_arn # a
      PROVE  s[k].dest_arn # a
  <2>1. p # arch[a]
    BY <1>2, <1>4 DEF Consistent, DestDistinct
  <2>2. PICK i \in 1 .. n : p = s[i].dest_prn
    BY <2>1 DEF Names
  <2>3. i \in 1 .. Len(s) /\ j \in 1 .. Len(s) /\ s[i].dest_prn = s[j].dest_prn
    BY <1>4, <2>2
  <2>4. i = j
    BY <1>4, <2>3 DEF Consistent, DestDistinct
  <2>5. k \in (j + 1) .. m
    BY <2>2, <2>4
  <2> QED
    BY <1>4, <2>5
<1> QED
  BY <1>1, <1>3, <1>4 DEF Names

---------------------------------------------------------------------------
(* Retirement *)

SameNames(x, y) ==
  x.dest_arn = y.dest_arn /\ x.dest_prn = y.dest_prn /\ x.dest_prn_prev = y.dest_prn_prev

\* The first r instructions leave s: s2 remains, and arch2 calls each register
\* what it was called after them.
Retires(arch, s, r, arch2, s2) ==
  /\ Len(s) \in Nat
  /\ r \in 0 .. Len(s)
  /\ Len(s2) = Len(s) - r
  /\ \A i \in 1 .. Len(s) : s[i].dest_arn \in Arn
  /\ \A i \in 1 .. Len(s2) : SameNames(s2[i], s[i + r])
  /\ arch2[0] = 0
  /\ \A a \in Arn \ {0} : Names(arch, s, r, a, arch2[a])

\* Retirement changes no later name.
LEMMA NamesAfter ==
  ASSUME NEW arch, NEW s, NEW r, NEW arch2, NEW s2, Retires(arch, s, r, arch2, s2),
         NEW n \in r .. Len(s), NEW a \in Arn \ {0}, NEW p, Names(arch, s, n, a, p)
  PROVE  Names(arch2, s2, n - r, a, p)
<1>1. /\ Len(s) \in Nat /\ r \in Nat /\ r <= Len(s) /\ n \in Nat /\ n - r \in Nat
      /\ Len(s2) = Len(s) - r
      /\ Names(arch, s, r, a, arch2[a])
  BY DEF Retires
<1>2. \A i \in 1 .. (n - r) : /\ s2[i].dest_arn = s[i + r].dest_arn
                              /\ s2[i].dest_prn = s[i + r].dest_prn
                              /\ i + r \in 1 .. n /\ i + r > r
  <2> TAKE i \in 1 .. (n - r)
  <2>1. i \in 1 .. Len(s2) /\ i + r \in 1 .. n /\ i + r > r
    BY <1>1
  <2> QED
    BY <2>1 DEF Retires, SameNames
<1>3. CASE p = arch[a] /\ \A j \in 1 .. n : s[j].dest_arn # a
  <2>1. Names(arch, s, r, a, arch[a])
    BY <1>1, <1>3 DEF Names
  <2>2. arch2[a] = arch[a]
    BY <1>1, <2>1, NamesUnique
  <2> QED
    BY <1>2, <1>3, <2>2 DEF Names
<1>4. ASSUME NEW j \in 1 .. n, s[j].dest_arn = a, p = s[j].dest_prn,
             \A m \in (j + 1) .. n : s[m].dest_arn # a
      PROVE  Names(arch2, s2, n - r, a, p)
  <2>1. CASE j > r
    <3>1. j - r \in 1 .. (n - r) /\ (j - r) + r = j
      BY <1>1, <2>1
    <3>2. \A m \in ((j - r) + 1) .. (n - r) : m \in 1 .. (n - r) /\ m + r \in (j + 1) .. n
      BY <1>1, <2>1
    <3>3. s2[j - r].dest_arn = a /\ p = s2[j - r].dest_prn
      BY <1>2, <1>4, <3>1
    <3>4. \A m \in ((j - r) + 1) .. (n - r) : s2[m].dest_arn # a
      BY <1>2, <1>4, <3>2
    <3> QED
      BY <3>1, <3>3, <3>4 DEF Names
  <2>2. CASE j <= r
    <3>1. j \in 1 .. r /\ \A m \in (j + 1) .. r : m \in (j + 1) .. n
      BY <1>1, <2>2
    <3>2. Names(arch, s, r, a, p)
      BY <1>4, <3>1 DEF Names
    <3>3. p = arch2[a]
      BY <1>1, <3>2, NamesUnique
    <3>4. \A i \in 1 .. (n - r) : i + r \in (j + 1) .. n
      BY <1>1, <2>2
    <3>5. \A i \in 1 .. (n - r) : s2[i].dest_arn # a
      BY <1>2, <1>4, <3>4
    <3> QED
      BY <3>3, <3>5 DEF Names
  <2> QED
    BY <1>1, <2>1, <2>2
<1> QED
  BY <1>3, <1>4 DEF Names

\* The names of the rest are as distinct as those of the whole.
LEMMA RetireKeeps ==
  ASSUME NEW arch, NEW s, NEW r, NEW arch2, NEW s2, Retires(arch, s, r, arch2, s2),
         Consistent(arch, s)
  PROVE  Consistent(arch2, s2)
<1>1. /\ Len(s) \in Nat /\ r \in 0 .. Len(s) /\ Len(s2) = Len(s) - r
      /\ \A i \in 1 .. Len(s) : s[i].dest_arn \in Arn
      /\ \A i \in 1 .. Len(s2) : SameNames(s2[i], s[i + r])
      /\ arch2[0] = 0
      /\ \A a \in Arn \ {0} : Names(arch, s, r, a, arch2[a])
  BY DEF Retires
<1>2. \A i \in 1 .. Len(s2) : i + r \in 1 .. Len(s) /\ i + r > r /\ i + r - 1 \in r .. Len(s)
                              /\ (i + r - 1) - r = i - 1
  BY <1>1
<1>3. ArchDistinct(arch2)
  <2> SUFFICES ASSUME NEW a \in Arn, NEW b \in Arn, arch2[a] = arch2[b], arch2[a] # 0
               PROVE  a = b
    BY <1>1 DEF ArchDistinct
  <2> QED
    BY <1>1, NamesApart
<1>4. Linked(arch2, s2)
  <2> SUFFICES ASSUME NEW i \in 1 .. Len(s2), s2[i].dest_arn # 0
               PROVE  /\ s2[i].dest_prn # 0
                      /\ Names(arch2, s2, i - 1, s2[i].dest_arn, s2[i].dest_prn_prev)
    BY <1>1, <1>2 DEF Linked, SameNames, Consistent
  <2>1. /\ s[i + r].dest_prn # 0
        /\ Names(arch, s, i + r - 1, s[i + r].dest_arn, s[i + r].dest_prn_prev)
    BY <1>1, <1>2 DEF Linked, SameNames, Consistent
  <2>2. Names(arch2, s2, (i + r - 1) - r, s[i + r].dest_arn, s[i + r].dest_prn_prev)
    BY <1>1, <1>2, <2>1, NamesAfter DEF SameNames
  <2> QED
    BY <1>1, <1>2, <2>1, <2>2 DEF SameNames
<1>5. DestDistinct(arch2, s2)
  <2>1. ASSUME NEW i \in 1 .. Len(s2), NEW a \in Arn, s2[i].dest_prn # 0,
               s2[i].dest_prn = arch2[a]
        PROVE  FALSE
    <3>1. a # 0 /\ Names(arch, s, r, a, s[i + r].dest_prn) /\ s[i + r].dest_prn # 0
      BY <1>1, <2>1 DEF SameNames
    <3>2. s[i + r].dest_prn # arch[a]
      BY <1>2, <3>1 DEF Consistent, DestDistinct
    <3>3. PICK j \in 1 .. r : s[i + r].dest_prn = s[j].dest_prn
      BY <3>1, <3>2 DEF Names
    <3>4. j \in 1 .. Len(s) /\ j # i + r
      BY <1>1, <1>2
    <3> QED
      BY <1>2, <3>1, <3>3, <3>4 DEF Consistent, DestDistinct
  <2>2. ASSUME NEW i \in 1 .. Len(s2), NEW j \in 1 .. Len(s2),
               s2[i].dest_prn = s2[j].dest_prn, s2[i].dest_prn # 0
        PROVE  i = j
    <3>1. i + r = j + r
      BY <1>1, <1>2, <2>2 DEF Consistent, DestDistinct, SameNames
    <3> QED
      BY <1>1, <3>1
  <2> QED
    BY <2>1, <2>2 DEF DestDistinct
<1> QED
  BY <1>3, <1>4, <1>5 DEF Consistent

\* A name an instruction replaced is no name once that instruction has retired.
LEMMA ReplacedIsUnused ==
  ASSUME NEW arch, NEW s, NEW r, NEW arch2, NEW s2, Retires(arch, s, r, arch2, s2),
         Consistent(arch, s), NEW k \in 1 .. r, s[k].dest_prn_prev # 0
  PROVE  /\ \A a \in Arn : arch2[a] # s[k].dest_prn_prev
         /\ \A i \in 1 .. Len(s2) : s2[i].dest_prn # s[k].dest_prn_prev
         /\ \A b \in Arn \ {0} : ~Names(arch, s, Len(s), b, s[k].dest_prn_prev)
<1> DEFINE x == s[k].dest_prn_prev
           a == s[k].dest_arn
<1>1. /\ Len(s) \in Nat /\ r \in 0 .. Len(s) /\ Len(s2) = Len(s) - r
      /\ \A i \in 1 .. Len(s) : s[i].dest_arn \in Arn
      /\ \A i \in 1 .. Len(s2) : SameNames(s2[i], s[i + r])
      /\ arch2[0] = 0
      /\ \A b \in Arn \ {0} : Names(arch, s, r, b, arch2[b])
  BY DEF Retires
<1>2. /\ k \in 1 .. Len(s) /\ k - 1 \in 0 .. Len(s)
      /\ Len(s) \in 0 .. Len(s)
      /\ k \in ((k - 1) + 1) .. r /\ k \in ((k - 1) + 1) .. Len(s)
  BY <1>1
<1>3. a \in Arn /\ x # 0 /\ Names(arch, s, k - 1, a, x)
  BY <1>1, <1>2 DEF Consistent, Linked
<1>4. ASSUME NEW b \in Arn, arch2[b] = x PROVE FALSE
  <2>1. Names(arch, s, r, b, x)
    BY <1>1, <1>3, <1>4
  <2> HIDE DEF x
  <2> QED
    BY <1>1, <1>2, <1>3, <2>1, NamesOnce
<1>5. ASSUME NEW i \in 1 .. Len(s2), s2[i].dest_prn = x PROVE FALSE
  <2>1. i + r \in 1 .. Len(s) /\ s[i + r].dest_prn = x /\ i + r > r
    BY <1>1, <1>5 DEF SameNames
  <2>2. x # arch[a]
    BY <1>3, <2>1 DEF Consistent, DestDistinct
  <2>3. PICK j \in 1 .. (k - 1) : x = s[j].dest_prn
    BY <1>3, <2>2 DEF Names
  <2>4. j \in 1 .. Len(s) /\ j # i + r
    BY <1>1, <2>1, <2>3
  <2> QED
    BY <1>3, <2>1, <2>3, <2>4 DEF Consistent, DestDistinct
<1>6. ASSUME NEW b \in Arn \ {0}, Names(arch, s, Len(s), b, x) PROVE FALSE
  <2> HIDE DEF x
  <2> QED
    BY <1>1, <1>2, <1>3, <1>6, NamesOnce
<1> QED
  BY <1>4, <1>5, <1>6

\* A name holds until the next writer.
LEMMA NamesStay ==
  ASSUME NEW arch, NEW s, NEW n \in Nat, NEW m \in Nat, n <= m, NEW a, NEW p,
         Names(arch, s, n, a, p), \A i \in (n + 1) .. m : s[i].dest_arn # a
  PROVE  Names(arch, s, m, a, p)
<1>1. \A i \in 1 .. m : i \in 1 .. n \/ i \in (n + 1) .. m
  OBVIOUS
<1>2. CASE p = arch[a] /\ \A j \in 1 .. n : s[j].dest_arn # a
  BY <1>1, <1>2 DEF Names
<1>3. ASSUME NEW j \in 1 .. n, s[j].dest_arn = a, p = s[j].dest_prn,
             \A i \in (j + 1) .. n : s[i].dest_arn # a
      PROVE  Names(arch, s, m, a, p)
  <2>1. j \in 1 .. m /\ \A i \in (j + 1) .. m : i \in (j + 1) .. n \/ i \in (n + 1) .. m
    OBVIOUS
  <2> QED
    BY <1>3, <2>1 DEF Names
<1> QED
  BY <1>2, <1>3 DEF Names

\* A name that retirement drops is one that a retired instruction replaced.
LEMMA KeptOrReplaced ==
  ASSUME NEW arch, NEW s, NEW r, NEW arch2, NEW s2, Retires(arch, s, r, arch2, s2),
         Consistent(arch, s), NEW n \in 0 .. r, NEW a \in Arn \ {0}, NEW p,
         Names(arch, s, n, a, p)
  PROVE  arch2[a] = p \/ \E k \in 1 .. r : s[k].dest_prn_prev = p
<1> DEFINE S == {k \in (n + 1) .. r : s[k].dest_arn = a}
<1>1. Len(s) \in Nat /\ r \in 0 .. Len(s) /\ Names(arch, s, r, a, arch2[a])
  BY DEF Retires
<1>2. CASE S = {}
  <2>1. Names(arch, s, r, a, p)
    BY <1>1, <1>2, NamesStay
  <2> QED
    BY <1>1, <2>1, NamesUnique
<1>3. CASE S # {}
  <2>1. S \in SUBSET Nat
    BY <1>1
  <2>2. PICK k \in S : \A y \in S : k <= y
    <3> HIDE DEF S
    <3> QED
      BY <1>3, <2>1, LeastElement
  <2>3. k \in (n + 1) .. r /\ s[k].dest_arn = a
    OBVIOUS
  <2>4. \A i \in (n + 1) .. (k - 1) : s[i].dest_arn # a
    <3>1. \A i \in (n + 1) .. (k - 1) : i \in (n + 1) .. r /\ ~(k <= i)
      BY <1>1, <2>3
    <3> QED
      BY <2>2, <3>1
  <2>5. Names(arch, s, k - 1, a, p)
    BY <1>1, <2>3, <2>4, NamesStay
  <2>6. Names(arch, s, k - 1, a, s[k].dest_prn_prev)
    BY <1>1, <2>3 DEF Consistent, Linked
  <2>7. s[k].dest_prn_prev = p
    BY <1>1, <2>3, <2>5, <2>6, NamesUnique
  <2> QED
    BY <1>1, <2>3, <2>7
<1> QED
  BY <1>2, <1>3

\* p is the name of a register, before s or after one of its instructions.
Named(arch, s, p) ==
  (\E a \in Arn : arch[a] = p) \/ (\E i \in 1 .. Len(s) : s[i].dest_prn = p)

\* No register is lost when instructions retire.
LEMMA NothingLost ==
  ASSUME NEW arch, NEW s, NEW r, NEW arch2, NEW s2, Retires(arch, s, r, arch2, s2),
         Consistent(arch, s), NEW p, p # 0, Named(arch, s, p)
  PROVE  Named(arch2, s2, p) \/ \E k \in 1 .. r : s[k].dest_prn_prev = p
<1>1. /\ Len(s) \in Nat /\ r \in 0 .. Len(s) /\ Len(s2) = Len(s) - r
      /\ \A i \in 1 .. Len(s) : s[i].dest_arn \in Arn
      /\ \A i \in 1 .. Len(s2) : SameNames(s2[i], s[i + r])
  BY DEF Retires
<1>2. ASSUME NEW a \in Arn, arch[a] = p
      PROVE  arch2[a] = p \/ \E k \in 1 .. r : s[k].dest_prn_prev = p
  <2>1. a # 0
    BY <1>2 DEF Consistent, ArchDistinct
  <2>2. Names(arch, s, 0, a, p) /\ 0 \in 0 .. r
    BY <1>1, <1>2 DEF Names
  <2> QED
    BY <2>1, <2>2, KeptOrReplaced
<1>3. ASSUME NEW i \in 1 .. Len(s), s[i].dest_prn = p, i <= r
      PROVE  \/ \E k \in 1 .. r : s[k].dest_prn_prev = p
             \/ \E a \in Arn : arch2[a] = p
  <2>1. s[i].dest_arn \in Arn \ {0}
    BY <1>1, <1>3 DEF Consistent, Linked
  <2>2. Names(arch, s, i, s[i].dest_arn, p) /\ i \in 0 .. r
    BY <1>1, <1>3 DEF Names
  <2> QED
    BY <2>1, <2>2, KeptOrReplaced
<1>4. ASSUME NEW i \in 1 .. Len(s), s[i].dest_prn = p, i > r
      PROVE  \E j \in 1 .. Len(s2) : s2[j].dest_prn = p
  <2>1. i - r \in 1 .. Len(s2) /\ (i - r) + r = i
    BY <1>1, <1>4
  <2> QED
    BY <1>1, <1>4, <2>1 DEF SameNames
<1> QED
  BY <1>1, <1>2, <1>3, <1>4 DEF Named

---------------------------------------------------------------------------
(* Renaming *)

\* Names of a beginning are names of the whole.
LEMMA NamesExtend ==
  ASSUME NEW arch, NEW s, NEW s2, Len(s) \in Nat, NEW n \in 0 .. Len(s),
         \A i \in 1 .. Len(s) : SameNames(s2[i], s[i]),
         NEW a, NEW p, Names(arch, s, n, a, p)
  PROVE  Names(arch, s2, n, a, p)
<1>1. \A i \in 1 .. n : s2[i].dest_arn = s[i].dest_arn /\ s2[i].dest_prn = s[i].dest_prn
  BY DEF SameNames
<1>2. \A j \in 1 .. n : \A m \in (j + 1) .. n : m \in 1 .. n
  OBVIOUS
<1>3. CASE p = arch[a] /\ \A j \in 1 .. n : s[j].dest_arn # a
  BY <1>1, <1>3 DEF Names
<1>4. ASSUME NEW j \in 1 .. n, s[j].dest_arn = a, p = s[j].dest_prn,
             \A m \in (j + 1) .. n : s[m].dest_arn # a
      PROVE  Names(arch, s2, n, a, p)
  BY <1>1, <1>2, <1>4 DEF Names
<1> QED
  BY <1>3, <1>4 DEF Names

\* Instructions appended with new names keep the names distinct.
LEMMA AppendKeeps ==
  ASSUME NEW arch, NEW s, NEW s2, Consistent(arch, s),
         Len(s) \in Nat, Len(s2) \in Nat, Len(s) <= Len(s2),
         \A i \in 1 .. Len(s) : SameNames(s2[i], s[i]),
         \A i \in (Len(s) + 1) .. Len(s2) :
           IF s2[i].dest_arn = 0
             THEN s2[i].dest_prn = 0 /\ s2[i].dest_prn_prev = 0
             ELSE /\ s2[i].dest_prn # 0
                  /\ Names(arch, s2, i - 1, s2[i].dest_arn, s2[i].dest_prn_prev)
                  /\ \A a \in Arn : s2[i].dest_prn # arch[a]
                  /\ \A j \in 1 .. Len(s2) : s2[i].dest_prn = s2[j].dest_prn => i = j
  PROVE  Consistent(arch, s2)
<1>1. \A i \in 1 .. Len(s2) : i \in 1 .. Len(s) \/ i \in (Len(s) + 1) .. Len(s2)
  OBVIOUS
<1>2. \A i \in 1 .. Len(s) : i \in 1 .. Len(s2) /\ i - 1 \in 0 .. Len(s)
  OBVIOUS
<1>3. Linked(arch, s2)
  <2> SUFFICES ASSUME NEW i \in 1 .. Len(s), s2[i].dest_arn # 0
               PROVE  /\ s2[i].dest_prn # 0
                      /\ Names(arch, s2, i - 1, s2[i].dest_arn, s2[i].dest_prn_prev)
    BY <1>1 DEF Linked, Consistent, SameNames
  <2>1. s[i].dest_prn # 0 /\ Names(arch, s, i - 1, s[i].dest_arn, s[i].dest_prn_prev)
    BY DEF Consistent, Linked, SameNames
  <2>2. Names(arch, s2, i - 1, s[i].dest_arn, s[i].dest_prn_prev)
    BY <1>2, <2>1, NamesExtend
  <2> QED
    BY <2>1, <2>2 DEF SameNames
<1>4. DestDistinct(arch, s2)
  BY <1>1 DEF DestDistinct, Consistent, SameNames
<1> QED
  BY <1>3, <1>4 DEF Consistent

---------------------------------------------------------------------------
(* The stages around the maps *)

\* The valid lanes of a group, which are contiguous.
GroupLanes(g) == {l \in Lane : g[l] # None}

Contiguous(g) ==
  \A a, b, c \in Lane : (a <= b /\ b <= c /\ g[a] # None /\ g[c] # None) => g[b] # None

Shape ==
  /\ TypeOK
  /\ window \in Seq(Entry)
  /\ pipe_retire_pkt \in Seq(Entry)
  /\ Contiguous(pipe_rename_pkt)

\* What is renamed has a place in the reorder buffer.
Room == Len(window) + DispatchCount <= ROB_DEPTH

\* The maps are restored with nothing in flight.
NothingInRecovery ==
  recov_arch_st =>
    window = <<>> /\ pipe_retire_pkt = <<>> /\ pipe_rename_pkt = NoGroup

\* A misprediction in flight keeps renaming from accepting a group.
MispKnown ==
  /\ \A i \in DOMAIN window : window[i].branch_misp => branch_misp
  /\ \A i \in DOMAIN pipe_retire_pkt : pipe_retire_pkt[i].branch_misp => branch_misp

RatNames ==
  /\ rat[0] = 0
  /\ ~recov_arch_st =>
       \A a \in Arn \ {0} : Names(arch_rat, InFlight, Len(InFlight), a, rat[a])

\* A register is free or in use, ...
FreeUnused ==
  \A p \in free_list :
    /\ p # 0
    /\ \A a \in Arn : arch_rat[a] # p /\ rat[a] # p
    /\ \A i \in 1 .. Len(InFlight) : InFlight[i].dest_prn # p

\* ... and, except while the maps are restored, one of the two.
Covered ==
  ~recov_arch_st =>
    \A p \in Prn \ {0} : \/ p \in free_list
                         \/ \E a \in Arn : arch_rat[a] = p
                         \/ \E i \in 1 .. Len(InFlight) : InFlight[i].dest_prn = p

IInv ==
  /\ Shape /\ Room /\ NothingInRecovery /\ MispKnown
  /\ Consistent(arch_rat, InFlight)
  /\ RatNames /\ FreeUnused /\ Covered

---------------------------------------------------------------------------
(* Instructions in flight *)

\* The sizes are numbers, and register 0 exists in both files.
LEMMA Sizes ==
  /\ ARF_DEPTH \in Nat /\ ARF_DEPTH > 0 /\ MACHINE_WIDTH \in Nat /\ MACHINE_WIDTH > 0
  /\ ROB_DEPTH \in Nat
  /\ PRF_DEPTH \in Nat /\ PRF_DEPTH = ARF_DEPTH + ROB_DEPTH + MACHINE_WIDTH
  /\ 0 \in Arn /\ 0 \in Prn
BY SizeAssumption DEF PRF_DEPTH, Arn, Prn

\* The valid lanes of a group are an interval from the first one on.
LEMMA LanesOfGroup ==
  ASSUME NEW g, Contiguous(g)
  PROVE  LET c == Cardinality(GroupLanes(g))
             f == MinOf(GroupLanes(g))
         IN  /\ c \in 0 .. MACHINE_WIDTH
             /\ c = 0 => GroupLanes(g) = {}
             /\ c > 0 => /\ f \in Lane
                         /\ f + c <= MACHINE_WIDTH
                         /\ GroupLanes(g) = f .. (f + c - 1)
<1> DEFINE S == GroupLanes(g)
           c == Cardinality(S)
           f == MinOf(S)
<1>1. S \in SUBSET (0 .. (MACHINE_WIDTH - 1)) /\ S \in SUBSET Nat /\ MACHINE_WIDTH \in Nat
  BY Sizes DEF GroupLanes, Lane
<1>2. \A a, e \in S : \A b \in 0 .. (MACHINE_WIDTH - 1) : a <= b /\ b <= e => b \in S
  BY DEF GroupLanes, Contiguous, Lane
<1>3. CASE S = {}
  BY <1>1, <1>3, FS_EmptySet
<1>4. CASE S # {}
  <2>1. f \in S /\ \A y \in S : f <= y
    <3> HIDE DEF S
    <3> QED
      BY <1>1, <1>4, LeastElement DEF MinOf
  <2>2. c \in 1 .. (MACHINE_WIDTH - f) /\ S = f .. (f + c - 1)
    <3> HIDE DEF S, f
    <3> QED
      BY <1>1, <1>2, <1>4, <2>1, ContiguousIsInterval
  <2>3. f \in Lane
    BY <1>1, <2>1 DEF Lane
  <2> HIDE DEF S, f, c
  <2>4. f \in 0 .. (MACHINE_WIDTH - 1)
    BY <2>3 DEF Lane
  <2>5. c \in 0 .. MACHINE_WIDTH /\ c # 0 /\ f + c <= MACHINE_WIDTH
    BY <1>1, <2>2, <2>4
  <2> QED
    BY <2>2, <2>3, <2>5 DEF S, f, c
<1> QED
  BY <1>3, <1>4

\* The group about to be dispatched as a sequence of entries.
LEMMA DispatchIs ==
  ASSUME Shape
  PROVE  /\ DispatchCount \in 0 .. MACHINE_WIDTH
         /\ DispatchSeq \in Seq(Entry) /\ Len(DispatchSeq) = DispatchCount
         /\ \A k \in 1 .. DispatchCount :
              /\ FirstLane + k - 1 \in Lane /\ FirstLane \in Lane
              /\ pipe_rename_pkt[FirstLane + k - 1] \in Renamed
              /\ SameNames(DispatchSeq[k], pipe_rename_pkt[FirstLane + k - 1])
              /\ DispatchSeq[k].kind = pipe_rename_pkt[FirstLane + k - 1].kind
              /\ DispatchSeq[k].branch_misp = FALSE
              /\ DispatchSeq[k].complete = (DispatchSeq[k].kind = "halt")
<1>1. /\ DispatchCount = Cardinality(GroupLanes(pipe_rename_pkt))
      /\ FirstLane = MinOf(GroupLanes(pipe_rename_pkt))
  BY DEF DispatchCount, FirstLane, GroupLanes
<1>2. /\ DispatchCount \in 0 .. MACHINE_WIDTH
      /\ DispatchCount > 0 =>
           /\ FirstLane \in Lane
           /\ GroupLanes(pipe_rename_pkt) = FirstLane .. (FirstLane + DispatchCount - 1)
  BY <1>1, LanesOfGroup DEF Shape
<1>3. ASSUME NEW k \in 1 .. DispatchCount
      PROVE  /\ FirstLane \in Lane /\ FirstLane + k - 1 \in Lane
             /\ pipe_rename_pkt[FirstLane + k - 1] \in Renamed
             /\ DispatchSeq[k] \in Entry
             /\ SameNames(DispatchSeq[k], pipe_rename_pkt[FirstLane + k - 1])
             /\ DispatchSeq[k].kind = pipe_rename_pkt[FirstLane + k - 1].kind
             /\ DispatchSeq[k].branch_misp = FALSE
             /\ DispatchSeq[k].complete = (DispatchSeq[k].kind = "halt")
  <2>1. DispatchCount > 0 /\ FirstLane \in Lane /\ FirstLane \in Nat
    BY <1>2, <1>3, Sizes DEF Lane
  <2>2. FirstLane + k - 1 \in FirstLane .. (FirstLane + DispatchCount - 1)
    BY <1>2, <1>3, <2>1, Sizes
  <2>3. /\ FirstLane + k - 1 \in Lane
        /\ pipe_rename_pkt[FirstLane + k - 1] # None
    BY <1>2, <2>1, <2>2 DEF GroupLanes
  <2>4. pipe_rename_pkt[FirstLane + k - 1] \in Renamed
    BY <2>3 DEF Shape, TypeOK
  <2> DEFINE p == pipe_rename_pkt[FirstLane + k - 1]
             e == [kind |-> p.kind, dest_arn |-> p.dest_arn, dest_prn |-> p.dest_prn,
                   dest_prn_prev |-> p.dest_prn_prev, complete |-> p.kind = "halt",
                   branch_misp |-> FALSE]
  <2>5. DispatchSeq[k] = e
    BY DEF DispatchSeq
  <2>6. p \in Renamed
    BY <2>4
  <2>7. e \in Entry /\ SameNames(e, p) /\ e.kind = p.kind /\ e.branch_misp = FALSE
        /\ e.complete = (p.kind = "halt")
    <3> HIDE DEF p
    <3> QED
      BY <2>6 DEF Renamed, Entry, SameNames
  <2> QED
    BY <2>1, <2>3, <2>4, <2>5, <2>7
<1>4. DispatchSeq \in [1 .. DispatchCount -> Entry]
  <2>1. DispatchSeq = [k \in 1 .. DispatchCount |-> DispatchSeq[k]]
    BY DEF DispatchSeq
  <2> QED
    BY <1>3, <2>1
<1>5. DispatchSeq \in Seq(Entry) /\ Len(DispatchSeq) = DispatchCount
  BY <1>2, <1>4, LengthIs, Sizes
<1> QED
  BY <1>2, <1>3, <1>5

\* The instructions in flight are a sequence, one stage after the other.
InFlightIsSequence ==
  /\ InFlight \in Seq(Entry)
  /\ Len(pipe_retire_pkt) \in Nat /\ Len(window) \in Nat /\ DispatchCount \in Nat
  /\ Len(InFlight) = Len(pipe_retire_pkt) + Len(window) + DispatchCount
  /\ \A i \in 1 .. Len(pipe_retire_pkt) : InFlight[i] = pipe_retire_pkt[i]
  /\ \A i \in 1 .. Len(window) : InFlight[Len(pipe_retire_pkt) + i] = window[i]
  /\ \A i \in 1 .. DispatchCount :
       InFlight[Len(pipe_retire_pkt) + Len(window) + i] = DispatchSeq[i]

\* They are, whatever the stages hold.
LEMMA InFlightIs == Shape => InFlightIsSequence
<1> SUFFICES ASSUME Shape PROVE InFlightIsSequence
  OBVIOUS
<1> DEFINE R == pipe_retire_pkt
           W == window
           D == DispatchSeq
           s == R \o W
<1>1. R \in Seq(Entry) /\ W \in Seq(Entry) /\ D \in Seq(Entry) /\ Len(D) = DispatchCount
      /\ Len(R) \in Nat /\ Len(W) \in Nat /\ DispatchCount \in Nat
  BY DispatchIs, LenProperties, Sizes DEF Shape
<1> HIDE DEF R, W, D
<1>2. /\ s \in Seq(Entry) /\ Len(s) = Len(R) + Len(W)
      /\ \A i \in 1 .. Len(R) + Len(W) : s[i] = IF i <= Len(R) THEN R[i] ELSE W[i - Len(R)]
  BY <1>1, ConcatProperties
<1> HIDE DEF s
<1>3. /\ s \o D \in Seq(Entry) /\ Len(s \o D) = Len(s) + Len(D)
      /\ \A i \in 1 .. Len(s) + Len(D) :
           (s \o D)[i] = IF i <= Len(s) THEN s[i] ELSE D[i - Len(s)]
  <2>1. s \in Seq(Entry) /\ D \in Seq(Entry)
    BY <1>1, <1>2
  <2> QED
    BY <2>1, ConcatProperties
<1>4. InFlight = s \o D
  BY DEF InFlight, s, R, W, D
<1>5. Len(InFlight) = Len(R) + Len(W) + DispatchCount
  BY <1>1, <1>2, <1>3, <1>4
<1>6. ASSUME NEW i \in 1 .. Len(R) PROVE InFlight[i] = R[i]
  BY <1>1, <1>2, <1>3, <1>4
<1>7. ASSUME NEW i \in 1 .. Len(W) PROVE InFlight[Len(R) + i] = W[i]
  <2>1. /\ Len(R) + i \in 1 .. Len(s) /\ Len(R) + i \in 1 .. Len(s) + Len(D)
        /\ ~(Len(R) + i <= Len(R)) /\ (Len(R) + i) - Len(R) = i
    BY <1>1, <1>2
  <2> QED
    BY <1>1, <1>2, <1>3, <1>4, <2>1
<1>8. ASSUME NEW i \in 1 .. DispatchCount PROVE InFlight[Len(R) + Len(W) + i] = D[i]
  <2>1. /\ Len(R) + Len(W) + i \in 1 .. Len(s) + Len(D)
        /\ ~(Len(R) + Len(W) + i <= Len(s)) /\ (Len(R) + Len(W) + i) - Len(s) = i
    BY <1>1, <1>2
  <2> QED
    BY <1>1, <1>2, <1>3, <1>4, <2>1
<1> QED
  BY <1>1, <1>3, <1>4, <1>5, <1>6, <1>7, <1>8 DEF InFlightIsSequence, R, W, D

---------------------------------------------------------------------------
(* Retirement *)

\* The two parts of a sequence that is cut.
LEMMA Parts ==
  ASSUME NEW S, NEW s \in Seq(S), NEW m \in 0 .. Len(s)
  PROVE  LET x == SubSeq(s, 1, m)
             y == SubSeq(s, m + 1, Len(s))
         IN  /\ x \in Seq(S) /\ Len(x) = m /\ \A i \in 1 .. m : x[i] = s[i]
             /\ y \in Seq(S) /\ Len(y) = Len(s) - m
             /\ \A i \in 1 .. (Len(s) - m) : y[i] = s[i + m]
<1> DEFINE n == Len(s)
<1>1. n \in Nat /\ m \in 0 .. n /\ \A i \in 1 .. n : s[i] \in S
  BY LenProperties, ElementOfSeq
<1> HIDE DEF n
<1>2. /\ SubSeq(s, 1, m) \in Seq(S)
      /\ Len(SubSeq(s, 1, m)) = IF 1 <= m THEN m - 1 + 1 ELSE 0
      /\ \A i \in 1 .. m - 1 + 1 : SubSeq(s, 1, m)[i] = s[1 + i - 1]
  <2>1. 1 \in Int /\ m \in Int /\ \A i \in 1 .. m : s[i] \in S
    BY <1>1
  <2> QED
    BY <2>1, SubSeqProperties
<1>3. /\ SubSeq(s, m + 1, n) \in Seq(S)
      /\ Len(SubSeq(s, m + 1, n)) = IF m + 1 <= n THEN n - (m + 1) + 1 ELSE 0
      /\ \A i \in 1 .. n - (m + 1) + 1 : SubSeq(s, m + 1, n)[i] = s[(m + 1) + i - 1]
  <2>1. m + 1 \in Int /\ n \in Int /\ \A i \in (m + 1) .. n : s[i] \in S
    BY <1>1
  <2> QED
    BY <2>1, SubSeqProperties
<1>4. /\ (IF 1 <= m THEN m - 1 + 1 ELSE 0) = m /\ m - 1 + 1 = m
      /\ \A i \in 1 .. m : 1 + i - 1 = i
      /\ (IF m + 1 <= n THEN n - (m + 1) + 1 ELSE 0) = n - m
      /\ n - (m + 1) + 1 = n - m /\ \A i \in 1 .. (n - m) : (m + 1) + i - 1 = i + m
  BY <1>1
<1> QED
  BY <1>2, <1>3, <1>4 DEF n

\* What is in flight without the group that retired.
Rest == SubSeq(InFlight, Len(pipe_retire_pkt) + 1, Len(InFlight))

\* It is the end of what is in flight.
LEMMA RestIs ==
  ASSUME InFlightIsSequence
  PROVE  /\ Rest \in Seq(Entry)
         /\ Len(Rest) = Len(window) + DispatchCount
         /\ Len(Rest) = Len(InFlight) - Len(pipe_retire_pkt)
         /\ \A i \in 1 .. Len(Rest) : Rest[i] = InFlight[i + Len(pipe_retire_pkt)]
<1> DEFINE r == Len(pipe_retire_pkt)
           s == InFlight
<1>1. /\ s \in Seq(Entry) /\ r \in Nat /\ Len(window) \in Nat /\ DispatchCount \in Nat
      /\ Len(s) = r + Len(window) + DispatchCount
  BY DEF InFlightIsSequence
<1>2. Rest = SubSeq(s, r + 1, Len(s))
  BY DEF Rest
<1> HIDE DEF r, s
<1>3. r \in 0 .. Len(s) /\ Len(s) - r = Len(window) + DispatchCount
  BY <1>1
<1>4. LET y == SubSeq(s, r + 1, Len(s))
      IN  y \in Seq(Entry) /\ Len(y) = Len(s) - r /\ \A i \in 1 .. (Len(s) - r) : y[i] = s[i + r]
  BY <1>1, <1>3, Parts
<1> QED
  BY <1>2, <1>3, <1>4 DEF r, s

\* The retirement map takes the names the retired group leaves.
LEMMA RetireStep ==
  ASSUME IInv
  PROVE  Retires(arch_rat, InFlight, Len(pipe_retire_pkt), next_arch_rat, Rest)
<1> DEFINE r == Len(pipe_retire_pkt)
<1>1. InFlightIsSequence
  BY InFlightIs DEF IInv
<1>2. /\ Len(InFlight) \in Nat /\ r \in 0 .. Len(InFlight)
      /\ Len(Rest) = Len(InFlight) - r
      /\ \A i \in 1 .. Len(Rest) : Rest[i] = InFlight[i + r]
      /\ \A i \in 1 .. r : InFlight[i] = pipe_retire_pkt[i]
  BY <1>1, RestIs DEF InFlightIsSequence
<1>3. \A i \in 1 .. Len(InFlight) : InFlight[i].dest_arn \in Arn
  <2> TAKE i \in 1 .. Len(InFlight)
  <2>1. InFlight[i] \in Entry
    BY <1>1, ElementOfSeq DEF InFlightIsSequence
  <2> QED
    BY <2>1 DEF Entry
<1>4. DOMAIN pipe_retire_pkt = 1 .. r
  BY LenProperties DEF IInv, Shape
<1>5. 0 \in Arn /\ next_arch_rat[0] = 0
  BY Sizes DEF next_arch_rat, IInv, Consistent, ArchDistinct
<1>6. ASSUME NEW a \in Arn \ {0}
      PROVE  Names(arch_rat, InFlight, r, a, next_arch_rat[a])
  <2> DEFINE writers == {k \in DOMAIN pipe_retire_pkt : pipe_retire_pkt[k].dest_arn = a}
  <2>1. writers \in SUBSET (0 .. r) /\ r \in Nat
    BY <1>2, <1>4
  <2>2. CASE writers = {}
    <3>1. next_arch_rat[a] = arch_rat[a]
      BY <2>2 DEF next_arch_rat
    <3>2. \A j \in 1 .. r : InFlight[j].dest_arn # a
      BY <1>2, <1>4, <2>2
    <3> QED
      BY <3>1, <3>2 DEF Names
  <2>3. CASE writers # {}
    <3> DEFINE j == MaxOf(writers)
    <3>1. j \in writers /\ \A y \in writers : y <= j
      <4> HIDE DEF writers
      <4> QED
        BY <2>1, <2>3, MaxOfIs
    <3>2. next_arch_rat[a] = pipe_retire_pkt[j].dest_prn
      BY <2>3 DEF next_arch_rat
    <3>3. j \in 1 .. r /\ pipe_retire_pkt[j].dest_arn = a
      BY <1>4, <3>1
    <3>4. \A m \in (j + 1) .. r : pipe_retire_pkt[m].dest_arn # a /\ m \in 1 .. r
      <4> TAKE m \in (j + 1) .. r
      <4>1. m \in 1 .. r /\ ~(m <= j)
        BY <1>2, <3>3
      <4> QED
        BY <1>4, <3>1, <4>1
    <3> HIDE DEF j
    <3> QED
      BY <1>2, <3>2, <3>3, <3>4 DEF Names
  <2> QED
    BY <2>2, <2>3
<1> QED
  BY <1>2, <1>3, <1>5, <1>6 DEF Retires, SameNames

\* The registers given back are those replaced by the retired group.
LEMMA FreedAre ==
  ASSUME IInv
  PROVE  Freed = {InFlight[k].dest_prn_prev : k \in 1 .. Len(pipe_retire_pkt)} \ {0}
<1>1. InFlightIsSequence
  BY InFlightIs DEF IInv
<1>2. DOMAIN pipe_retire_pkt = 1 .. Len(pipe_retire_pkt)
  BY LenProperties DEF IInv, Shape
<1> QED
  BY <1>1, <1>2 DEF Freed, InFlightIsSequence

\* With the retired group gone and its registers given back, the register file is
\* again divided into free registers and names.
LEMMA AfterRetirement ==
  ASSUME IInv
  PROVE  /\ Consistent(next_arch_rat, Rest)
         /\ next_arch_rat \in [Arn -> Prn]
         /\ free_list_retire_fwd \in SUBSET Prn
         /\ \A p \in free_list_retire_fwd :
              /\ p # 0
              /\ \A a \in Arn : next_arch_rat[a] # p /\ rat[a] # p
              /\ \A i \in 1 .. Len(Rest) : Rest[i].dest_prn # p
         /\ ~recov_arch_st =>
              \A a \in Arn \ {0} : Names(next_arch_rat, Rest, Len(Rest), a, rat[a])
         /\ ~recov_arch_st =>
              \A p \in Prn \ {0} : \/ p \in free_list_retire_fwd
                                   \/ \E a \in Arn : next_arch_rat[a] = p
                                   \/ \E i \in 1 .. Len(Rest) : Rest[i].dest_prn = p
<1> DEFINE r == Len(pipe_retire_pkt)
           n == Len(InFlight)
<1>1. /\ Retires(arch_rat, InFlight, r, next_arch_rat, Rest)
      /\ Consistent(arch_rat, InFlight)
  BY RetireStep DEF IInv
<1>2. /\ n \in Nat /\ r \in 0 .. n /\ Len(Rest) = n - r
      /\ \A i \in 1 .. Len(Rest) : SameNames(Rest[i], InFlight[i + r])
      /\ next_arch_rat[0] = 0
      /\ \A a \in Arn \ {0} : Names(arch_rat, InFlight, r, a, next_arch_rat[a])
  BY <1>1 DEF Retires
<1>3. \A i \in 1 .. n : InFlight[i].dest_prn \in Prn /\ InFlight[i].dest_prn_prev \in Prn
  <2> TAKE i \in 1 .. n
  <2>1. InFlight[i] \in Entry
    BY InFlightIs, ElementOfSeq DEF IInv, InFlightIsSequence
  <2> QED
    BY <2>1 DEF Entry
<1>4. Consistent(next_arch_rat, Rest)
  BY <1>1, RetireKeeps
<1>5. arch_rat \in [Arn -> Prn] /\ free_list \in SUBSET Prn
  BY DEF IInv, Shape, TypeOK
<1>6. next_arch_rat \in [Arn -> Prn]
  <2>1. \A k \in 1 .. r : k \in 1 .. n
    BY <1>2
  <2>2. \A a \in Arn : next_arch_rat[a] \in Prn
    BY <1>2, <1>3, <1>5, <2>1, Sizes DEF Names
  <2>3. next_arch_rat = [a \in Arn |-> next_arch_rat[a]]
    BY DEF next_arch_rat
  <2> QED
    BY <2>2, <2>3
<1>7. \A k \in 1 .. r : k \in 1 .. n
  BY <1>2
<1>8. free_list_retire_fwd \in SUBSET Prn
  BY <1>3, <1>5, <1>7, FreedAre DEF free_list_retire_fwd
<1>9. ASSUME NEW p \in free_list
      PROVE  /\ p # 0
             /\ \A a \in Arn : next_arch_rat[a] # p /\ rat[a] # p
             /\ \A i \in 1 .. Len(Rest) : Rest[i].dest_prn # p
  <2>1. /\ p # 0 /\ \A a \in Arn : arch_rat[a] # p /\ rat[a] # p
        /\ \A i \in 1 .. n : InFlight[i].dest_prn # p
    BY DEF IInv, FreeUnused
  <2>2. \A a \in Arn : next_arch_rat[a] # p
    BY <1>2, <1>7, <2>1 DEF Names
  <2>3. \A i \in 1 .. Len(Rest) : i + r \in 1 .. n
    BY <1>2
  <2> QED
    BY <1>2, <2>1, <2>2, <2>3 DEF SameNames
<1>10. ASSUME NEW p \in Freed
       PROVE  /\ p # 0
              /\ \A a \in Arn : next_arch_rat[a] # p /\ rat[a] # p
              /\ \A i \in 1 .. Len(Rest) : Rest[i].dest_prn # p
  <2>1. PICK k \in 1 .. r : p = InFlight[k].dest_prn_prev /\ p # 0
    BY FreedAre
  <2>2. /\ \A a \in Arn : next_arch_rat[a] # p
        /\ \A i \in 1 .. Len(Rest) : Rest[i].dest_prn # p
        /\ \A b \in Arn \ {0} : ~Names(arch_rat, InFlight, Len(InFlight), b, p)
    BY <1>1, <2>1, ReplacedIsUnused
  <2>3. ~recov_arch_st
    <3> SUFFICES ASSUME recov_arch_st PROVE FALSE
      OBVIOUS
    <3>1. r = 0
      BY DEF IInv, NothingInRecovery
    <3> QED
      BY <2>1, <3>1
  <2>4. \A a \in Arn : rat[a] # p
    BY <2>1, <2>2, <2>3 DEF IInv, RatNames
  <2> QED
    BY <2>1, <2>2, <2>4
<1>11. ASSUME ~recov_arch_st, NEW a \in Arn \ {0}
       PROVE  Names(next_arch_rat, Rest, Len(Rest), a, rat[a])
  <2>1. Names(arch_rat, InFlight, n, a, rat[a])
    BY <1>11 DEF IInv, RatNames
  <2>2. n \in r .. n
    BY <1>2
  <2>3. Names(next_arch_rat, Rest, n - r, a, rat[a])
    BY <1>1, <2>1, <2>2, NamesAfter
  <2> QED
    BY <1>2, <2>3
<1>12. ASSUME ~recov_arch_st, NEW p \in Prn \ {0}
       PROVE  \/ p \in free_list_retire_fwd
              \/ \E a \in Arn : next_arch_rat[a] = p
              \/ \E i \in 1 .. Len(Rest) : Rest[i].dest_prn = p
  <2>1. CASE p \in free_list
    BY <2>1 DEF free_list_retire_fwd
  <2>2. CASE p \notin free_list
    <3>1. p # 0 /\ Named(arch_rat, InFlight, p)
      BY <1>12, <2>2 DEF IInv, Covered, Named
    <3>2. Named(next_arch_rat, Rest, p) \/ \E k \in 1 .. r : InFlight[k].dest_prn_prev = p
      BY <1>1, <3>1, NothingLost
    <3>3. ASSUME NEW k \in 1 .. r, InFlight[k].dest_prn_prev = p
          PROVE  p \in free_list_retire_fwd
      BY <3>3, FreedAre DEF free_list_retire_fwd
    <3> QED
      BY <3>2, <3>3 DEF Named
  <2> QED
    BY <2>1, <2>2
<1> QED
  BY <1>4, <1>6, <1>8, <1>9, <1>10, <1>11, <1>12 DEF free_list_retire_fwd

---------------------------------------------------------------------------
(* The free list *)

\* A set given by its elements is no larger than the set of their indices.
LEMMA ImageSize ==
  ASSUME NEW S, IsFiniteSet(S), NEW f
  PROVE  LET T == {f[x] : x \in S}
         IN  /\ IsFiniteSet(T) /\ Cardinality(T) \in Nat /\ Cardinality(S) \in Nat
             /\ Cardinality(T) <= Cardinality(S)
<1> DEFINE T == {f[x] : x \in S}
           g == [x \in S |-> f[x]]
<1>1. g \in Surjection(S, T)
  BY DEF Surjection
<1>2. IsFiniteSet(T) /\ Cardinality(T) <= Cardinality(S)
  <2> HIDE DEF g, T
  <2> QED
    BY <1>1, FS_Surjection
<1> QED
  BY <1>2, FS_CardinalityType

\* The registers in use are at most one for each architectural register and one
\* for each place in the reorder buffer, so that a whole group finds a free one
\* for each lane.
LEMMA Suffices ==
  ASSUME IInv, ~recov_arch_st
  PROVE  /\ IsFiniteSet(free_list_retire_fwd)
         /\ Cardinality(free_list_retire_fwd) \in Nat
         /\ Cardinality(free_list_retire_fwd) >= MACHINE_WIDTH
<1> DEFINE U == Prn \ {0}
           A == Arn \ {0}
           N == 1 .. Len(Rest)
           dest == [i \in N |-> Rest[i].dest_prn]
           X == {next_arch_rat[a] : a \in A}
           Y == {dest[i] : i \in N}
           F == free_list_retire_fwd
<1>1. /\ F \in SUBSET Prn
      /\ \A p \in U : p \in F \/ (\E a \in Arn : next_arch_rat[a] = p)
                              \/ (\E i \in N : Rest[i].dest_prn = p)
      /\ next_arch_rat[0] = 0
  BY AfterRetirement DEF Consistent, ArchDistinct
<1>2. U \in SUBSET (F \cup (X \cup Y))
  <2> SUFFICES ASSUME NEW p \in U PROVE p \in F \/ p \in X \/ p \in Y
    OBVIOUS
  <2>1. CASE p \in F
    BY <2>1
  <2>2. ASSUME NEW a \in Arn, next_arch_rat[a] = p PROVE p \in X
    BY <1>1, <2>2
  <2>3. ASSUME NEW i \in N, Rest[i].dest_prn = p PROVE p \in Y
    <3>1. dest[i] = p
      BY <2>3
    <3> QED
      BY <3>1
  <2> HIDE DEF F, X, Y, N
  <2> QED
    BY <1>1, <2>1, <2>2, <2>3
<1>3. IsFiniteSet(Prn) /\ Cardinality(Prn) = PRF_DEPTH
  BY Sizes, FS_Interval DEF Prn
<1>4. IsFiniteSet(Arn) /\ Cardinality(Arn) = ARF_DEPTH
  BY Sizes, FS_Interval DEF Arn
<1>5. IsFiniteSet(U) /\ Cardinality(U) = PRF_DEPTH - 1
  BY <1>3, Sizes, FS_RemoveElement
<1>6. IsFiniteSet(A) /\ Cardinality(A) = ARF_DEPTH - 1
  BY <1>4, Sizes, FS_RemoveElement
<1>7. IsFiniteSet(N) /\ Cardinality(N) <= ROB_DEPTH /\ Cardinality(N) \in Nat
  <2>1. InFlightIsSequence
    BY InFlightIs DEF IInv
  <2>2. Len(Rest) \in Nat /\ Len(Rest) <= ROB_DEPTH
    BY <2>1, RestIs, Sizes DEF IInv, Room, InFlightIsSequence
  <2>3. IsFiniteSet(N) /\ Cardinality(N) = Len(Rest)
    <3> DEFINE n == Len(Rest)
    <3>1. n \in Nat
      BY <2>2
    <3> HIDE DEF n
    <3>2. IsFiniteSet(1 .. n) /\ Cardinality(1 .. n) = n
      BY <3>1, FS_Interval
    <3> QED
      BY <3>2 DEF n
  <2> QED
    BY <2>2, <2>3
<1>8. IsFiniteSet(F) /\ Cardinality(F) \in Nat
  BY <1>1, <1>3, FS_Subset, FS_CardinalityType
<1>9. /\ IsFiniteSet(X) /\ Cardinality(X) \in Nat /\ Cardinality(X) <= Cardinality(A)
  <2> HIDE DEF A
  <2> QED
    BY <1>6, ImageSize
<1>10. /\ IsFiniteSet(Y) /\ Cardinality(Y) \in Nat /\ Cardinality(Y) <= Cardinality(N)
  <2> HIDE DEF N, dest
  <2> QED
    BY <1>7, ImageSize
<1> HIDE DEF U, A, N, dest, X, Y, F
<1>11. /\ IsFiniteSet(X \cup Y) /\ Cardinality(X \cup Y) \in Nat
       /\ Cardinality(X \cup Y) <= Cardinality(X) + Cardinality(Y)
  <2>1. /\ IsFiniteSet(X \cup Y)
        /\ Cardinality(X \cup Y) = Cardinality(X) + Cardinality(Y) - Cardinality(X \cap Y)
    BY <1>9, <1>10, FS_Union
  <2>2. Cardinality(X \cup Y) \in Nat
    BY <2>1, FS_CardinalityType
  <2>3. X \cap Y \in SUBSET X
    OBVIOUS
  <2>4. Cardinality(X \cap Y) \in Nat
    BY <1>9, <2>3, FS_Subset, FS_CardinalityType
  <2> QED
    BY <1>9, <1>10, <2>1, <2>2, <2>4
<1>12. /\ IsFiniteSet(F \cup (X \cup Y)) /\ Cardinality(F \cup (X \cup Y)) \in Nat
       /\ Cardinality(F \cup (X \cup Y)) <= Cardinality(F) + Cardinality(X \cup Y)
  <2>1. /\ IsFiniteSet(F \cup (X \cup Y))
        /\ Cardinality(F \cup (X \cup Y))
             = Cardinality(F) + Cardinality(X \cup Y) - Cardinality(F \cap (X \cup Y))
    BY <1>8, <1>11, FS_Union
  <2>2. Cardinality(F \cup (X \cup Y)) \in Nat
    BY <2>1, FS_CardinalityType
  <2>3. F \cap (X \cup Y) \in SUBSET F
    OBVIOUS
  <2>4. Cardinality(F \cap (X \cup Y)) \in Nat
    BY <1>8, <2>3, FS_Subset, FS_CardinalityType
  <2> QED
    BY <1>8, <1>11, <2>1, <2>2, <2>4
<1>13. Cardinality(U) <= Cardinality(F \cup (X \cup Y))
  BY <1>2, <1>12, FS_Subset
<1>14. Cardinality(F) >= MACHINE_WIDTH
  BY <1>5, <1>6, <1>7, <1>8, <1>9, <1>10, <1>11, <1>12, <1>13, Sizes
<1> QED
  BY <1>8, <1>14 DEF F

\* Each lane that needs a register is granted one of the free ones, and no two
\* lanes the same one.
LEMMA Granted ==
  ASSUME IInv, ~recov_arch_st
  PROVE  /\ \A l \in Lane : /\ free_prn_valid(l)
                            /\ free_prn(l) \in free_list_retire_fwd
         /\ \A l, m \in Lane : free_prn(l) = free_prn(m) => l = m
<1> DEFINE F == free_list_retire_fwd
<1>1. F \in SUBSET (0 .. (PRF_DEPTH - 1)) /\ PRF_DEPTH \in Nat
  BY AfterRetirement, Sizes DEF Prn
<1>2. Cardinality(F) \in Nat /\ Cardinality(F) >= MACHINE_WIDTH
  BY Suffices
<1>3. \A l \in Lane : l \in Nat /\ l < Cardinality(F)
  <2> HIDE DEF F
  <2> QED
    BY <1>2, Sizes DEF Lane
<1>4. ASSUME NEW l \in Lane
      PROVE  Encoded(Grant(l, F)) \in F /\ Grant(l, F) = {Encoded(Grant(l, F))}
  <2> HIDE DEF F
  <2>1. l \in Nat /\ l < Cardinality(F)
    BY <1>3
  <2> QED
    BY <1>1, <2>1, GrantIsOne
<1>5. ASSUME NEW l \in Lane, NEW m \in Lane, Encoded(Grant(l, F)) = Encoded(Grant(m, F))
      PROVE  l = m
  <2> HIDE DEF F
  <2>1. l \in Nat /\ l < Cardinality(F) /\ m \in Nat /\ m < Cardinality(F)
    BY <1>3
  <2> QED
    BY <1>1, <1>5, <2>1, GrantsDiffer
<1> QED
  BY <1>4, <1>5 DEF free_prn_valid, free_prn

---------------------------------------------------------------------------
(* One cycle *)

\* The retired prefix is the longest part of the window that may retire.
LEMMA RetireCountIs ==
  ASSUME Shape
  PROVE  /\ RetireCount \in 0 .. Len(window) /\ RetireCount <= MACHINE_WIDTH
         /\ \A k \in 1 .. RetireCount : window[k].complete
         /\ MayRetire(RetireCount)
         /\ \A n \in 0 .. MACHINE_WIDTH :
              n <= Len(window) /\ MayRetire(n) => n <= RetireCount
<1> DEFINE S == {n \in 0 .. MACHINE_WIDTH : n <= Len(window) /\ MayRetire(n)}
<1>1. Len(window) \in Nat
  BY LenProperties DEF Shape
<1>2. S \in SUBSET (0 .. MACHINE_WIDTH) /\ S # {}
  <2>1. MayRetire(0)
    BY DEF MayRetire
  <2>2. 0 \in S
    BY <1>1, <2>1, Sizes
  <2> QED
    BY <2>2
<1>3. MaxOf(S) \in S /\ \A n \in S : n <= MaxOf(S)
  <2> HIDE DEF S
  <2> QED
    BY <1>2, MaxOfIs, Sizes
<1>4. RetireCount \in S /\ \A n \in S : n <= RetireCount
  BY <1>3 DEF RetireCount
<1>5. \A k \in 1 .. RetireCount : window[k].complete
  BY <1>4 DEF MayRetire
<1> QED
  BY <1>1, <1>4, <1>5, Sizes

\* Noting a result changes two fields.
LEMMA UpdatedFields ==
  ASSUME NEW e \in Entry, NEW c \in BOOLEAN, NEW b \in BOOLEAN
  PROVE  LET f == [e EXCEPT !.complete = c, !.branch_misp = b]
         IN  /\ f \in Entry /\ SameNames(f, e) /\ f.kind = e.kind
             /\ f.complete = c /\ f.branch_misp = b
<1> DEFINE d == [e EXCEPT !.complete = c]
<1>1. /\ d \in Entry /\ d.complete = c /\ d.kind = e.kind
      /\ d.dest_arn = e.dest_arn /\ d.dest_prn = e.dest_prn
      /\ d.dest_prn_prev = e.dest_prn_prev
  BY DEF Entry
<1>2. LET f == [d EXCEPT !.branch_misp = b]
      IN  /\ f \in Entry /\ f.complete = c /\ f.branch_misp = b /\ f.kind = d.kind
          /\ f.dest_arn = d.dest_arn /\ f.dest_prn = d.dest_prn
          /\ f.dest_prn_prev = d.dest_prn_prev
  <2> HIDE DEF d
  <2> QED
    BY <1>1 DEF Entry
<1> QED
  BY <1>1, <1>2 DEF SameNames

\* Completions keep the order and the names of the window.
LEMMA WrittenIs ==
  ASSUME Shape, NEW done, NEW misp
  PROVE  /\ Written(done, misp) \in Seq(Entry)
         /\ Len(Written(done, misp)) = Len(window)
         /\ \A i \in 1 .. Len(window) :
              /\ SameNames(Written(done, misp)[i], window[i])
              /\ Written(done, misp)[i].kind = window[i].kind
              /\ Written(done, misp)[i].complete = (window[i].complete \/ i \in done)
              /\ Written(done, misp)[i].branch_misp = (window[i].branch_misp \/ i \in misp)
<1> DEFINE W == Written(done, misp)
<1>1. DOMAIN window = 1 .. Len(window) /\ Len(window) \in Nat
  BY LenProperties DEF Shape
<1>2. ASSUME NEW i \in 1 .. Len(window)
      PROVE  /\ W[i] \in Entry /\ SameNames(W[i], window[i])
             /\ W[i].kind = window[i].kind
             /\ W[i].complete = (window[i].complete \/ i \in done)
             /\ W[i].branch_misp = (window[i].branch_misp \/ i \in misp)
  <2> DEFINE c == window[i].complete \/ i \in done
             b == window[i].branch_misp \/ i \in misp
  <2>1. window[i] \in Entry
    BY ElementOfSeq DEF Shape
  <2>2. W[i] = [window[i] EXCEPT !.complete = c, !.branch_misp = b]
    BY <1>1 DEF Written
  <2>3. c \in BOOLEAN /\ b \in BOOLEAN
    OBVIOUS
  <2> HIDE DEF c, b, W
  <2>4. /\ W[i] \in Entry /\ SameNames(W[i], window[i])
        /\ W[i].kind = window[i].kind /\ W[i].complete = c /\ W[i].branch_misp = b
    <3> DEFINE e == window[i]
               f == [e EXCEPT !.complete = c, !.branch_misp = b]
    <3>1. e \in Entry
      BY <2>1
    <3>2. /\ f \in Entry /\ SameNames(f, e) /\ f.kind = e.kind
          /\ f.complete = c /\ f.branch_misp = b
      <4> HIDE DEF e
      <4>1. LET g == [e EXCEPT !.complete = c, !.branch_misp = b]
            IN  /\ g \in Entry /\ SameNames(g, e) /\ g.kind = e.kind
                /\ g.complete = c /\ g.branch_misp = b
        BY <2>3, <3>1, UpdatedFields, Zenon
      <4> QED
        BY <4>1, Zenon
    <3>3. W[i] = f
      BY <2>2
    <3> HIDE DEF f
    <3> QED
      BY <3>2, <3>3
  <2> QED
    BY <2>4 DEF b, c
<1>3. W \in [1 .. Len(window) -> Entry]
  <2>1. W = [i \in 1 .. Len(window) |-> W[i]]
    BY <1>1 DEF Written
  <2> HIDE DEF W
  <2> QED
    BY <1>2, <2>1
<1>4. W \in Seq(Entry) /\ Len(W) = Len(window)
  <2> HIDE DEF W
  <2> QED
    BY <1>1, <1>3, LengthIs
<1> QED
  BY <1>2, <1>4

\* A group that is accepted consists of decoded instructions, and nothing is
\* accepted in the cycle of a flush or while the maps are restored.
LEMMA AcceptedIs ==
  ASSUME IInv, NEW d \in Accepted
  PROVE  /\ Contiguous(d)
         /\ \A l \in Lane : d[l] # None =>
              /\ d[l].kind \in Kind /\ d[l].src \in Arn /\ d[l].dest \in Arn
              /\ d[l].kind = "halt" => d[l].dest = 0
         /\ pipe_flush \/ recov_arch_st \/ ~rename_pkt_ready => \A l \in Lane : d[l] = None
<1>1. \A l \in Lane : NoGroup[l] = None
  BY DEF NoGroup
<1>2. CASE d = NoGroup
  BY <1>1, <1>2 DEF Contiguous
<1>3. CASE rename_pkt_ready /\ ~recov_arch_st /\ d \in DecodedGroup
  <2>1. Contiguous(d)
    BY <1>3 DEF DecodedGroup, Contiguous
  <2>2. \A l \in Lane : d[l] # None => d[l] \in Decoded
    BY <1>3 DEF DecodedGroup
  <2>3. ~pipe_flush
    <3> SUFFICES ASSUME NEW k \in DOMAIN pipe_retire_pkt, Redirects(pipe_retire_pkt[k])
                 PROVE  FALSE
      BY DEF pipe_flush
    <3>1. CASE pipe_retire_pkt[k].branch_misp
      BY <1>3, <3>1 DEF IInv, MispKnown, rename_pkt_ready
    <3>2. CASE pipe_retire_pkt[k].kind = "halt"
      BY <1>3, <3>2 DEF rename_pkt_ready, retire_exception
    <3> QED
      BY <3>1, <3>2 DEF Redirects
  <2>4. \A l \in Lane : d[l] # None =>
          /\ d[l].kind \in Kind /\ d[l].src \in Arn /\ d[l].dest \in Arn
          /\ d[l].kind = "halt" => d[l].dest = 0
    BY <2>2, DecodedAssumption
  <2> QED
    BY <1>3, <2>1, <2>3, <2>4
<1> QED
  BY <1>2, <1>3 DEF Accepted

\* The registers of an accepted group are free and differ.
LEMMA DestinationsGranted ==
  ASSUME IInv, NEW d \in Accepted
  PROVE  /\ \A l \in Lane : HasDest(d, l) =>
              /\ free_prn_valid(l) /\ free_prn(l) \in free_list_retire_fwd
              /\ free_prn(l) \in Prn \ {0} /\ pr_dest(d, l) = free_prn(l)
         /\ \A l, m \in Lane :
              HasDest(d, l) /\ HasDest(d, m) /\ free_prn(l) = free_prn(m) => l = m
<1>1. CASE recov_arch_st
  BY <1>1, AcceptedIs DEF HasDest
<1>2. CASE ~recov_arch_st
  BY <1>2, Granted, AfterRetirement DEF pr_dest
<1> QED
  BY <1>1, <1>2

---------------------------------------------------------------------------
(* Renaming a group *)

\* The name of a register before lane l is that of the latest earlier lane that
\* writes it, or the one in the map.
LEMMA LookupIs ==
  ASSUME IInv, NEW d \in Accepted, NEW l \in 0 .. MACHINE_WIDTH, NEW a \in Arn
  PROVE  \/ /\ Lookup(d, l, a) = rat[a]
            /\ \A m \in Lane : m < l /\ HasDest(d, m) => d[m].dest # a
         \/ \E m \in Lane : /\ m < l /\ HasDest(d, m) /\ d[m].dest = a
                            /\ Lookup(d, l, a) = free_prn(m)
                            /\ \A j \in Lane : m < j /\ j < l /\ HasDest(d, j) => d[j].dest # a
<1> DEFINE writers == {m \in Lane : m < l /\ HasDest(d, m) /\ d[m].dest = a}
<1>1. writers \in SUBSET (0 .. MACHINE_WIDTH)
  BY Sizes DEF Lane
<1>2. CASE writers = {}
  BY <1>2 DEF Lookup
<1>3. CASE writers # {}
  <2> DEFINE w == MaxOf(writers)
  <2>1. w \in writers /\ \A y \in writers : y <= w
    <3> HIDE DEF writers
    <3> QED
      BY <1>1, <1>3, MaxOfIs, Sizes
  <2>2. Lookup(d, l, a) = pr_dest(d, w)
    BY <1>3 DEF Lookup
  <2>3. w \in Lane /\ w < l /\ HasDest(d, w) /\ d[w].dest = a
    BY <2>1
  <2>4. pr_dest(d, w) = free_prn(w)
    BY <2>3 DEF pr_dest
  <2>5. \A j \in Lane : w < j /\ j < l /\ HasDest(d, j) => d[j].dest # a
    <3> TAKE j \in Lane
    <3> HAVE w < j /\ j < l /\ HasDest(d, j)
    <3>1. ~(j <= w)
      BY <2>3, Sizes DEF Lane
    <3> QED
      BY <2>1, <3>1
  <2> HIDE DEF w, writers
  <2> QED
    BY <2>2, <2>3, <2>4, <2>5
<1> QED
  BY <1>2, <1>3

\* It is a register.
LEMMA LookupType ==
  ASSUME IInv, NEW d \in Accepted, NEW l \in 0 .. MACHINE_WIDTH, NEW a \in Arn
  PROVE  Lookup(d, l, a) \in Prn
<1>1. rat[a] \in Prn
  BY DEF IInv, Shape, TypeOK
<1>2. \A m \in Lane : HasDest(d, m) => free_prn(m) \in Prn
  BY DestinationsGranted
<1> QED
  BY <1>1, <1>2, LookupIs

\* The new map gives each register its name behind the last lane.
LEMMA NextRatIs ==
  ASSUME IInv, NEW d \in Accepted, NEW a \in Arn
  PROVE  next_rat(d)[a] = Lookup(d, MACHINE_WIDTH, a)
<1> DEFINE v == {l \in Lane : HasDest(d, l) /\ free_prn_valid(l) /\ d[l].dest = a}
           w == {m \in Lane : m < MACHINE_WIDTH /\ HasDest(d, m) /\ d[m].dest = a}
<1>1. \A l \in Lane : l < MACHINE_WIDTH
  BY Sizes DEF Lane
<1>2. \A l \in Lane : HasDest(d, l) => free_prn_valid(l) /\ pr_dest(d, l) = free_prn(l)
  BY DestinationsGranted
<1>3. v = w
  BY <1>1, <1>2
<1>4. next_rat(d)[a] = IF v # {} THEN free_prn(MaxOf(v)) ELSE rat[a]
  BY DEF next_rat
<1>5. Lookup(d, MACHINE_WIDTH, a) = IF w # {} THEN pr_dest(d, MaxOf(w)) ELSE rat[a]
  BY DEF Lookup
<1>6. CASE w = {}
  BY <1>3, <1>4, <1>5, <1>6
<1>7. CASE w # {}
  <2>1. w \in SUBSET (0 .. MACHINE_WIDTH)
    BY Sizes DEF Lane
  <2>2. MaxOf(w) \in w
    <3> HIDE DEF w
    <3> QED
      BY <1>7, <2>1, MaxOfIs, Sizes
  <2>3. pr_dest(d, MaxOf(w)) = free_prn(MaxOf(w))
    BY <1>2, <2>2
  <2> QED
    BY <1>3, <1>4, <1>5, <1>7, <2>3
<1> QED
  BY <1>6, <1>7

\* The group that enters the pipeline register.
LEMMA RenamedIs ==
  ASSUME IInv, NEW d \in Accepted, NEW done
  PROVE  LET g == rename_pkt(d, done)
         IN  /\ g \in [Lane -> Renamed \cup {None}]
             /\ GroupLanes(g) = GroupLanes(d) /\ Contiguous(g)
             /\ \A l \in GroupLanes(d) :
                  /\ g[l].kind = d[l].kind /\ g[l].src = d[l].src
                  /\ g[l].op1_prn = Lookup(d, l, d[l].src)
                  /\ g[l].op1_ready = data_ready(d, l, Lookup(d, l, d[l].src), done)
                  /\ g[l].dest_arn = d[l].dest /\ g[l].dest_prn = pr_dest(d, l)
                  /\ g[l].dest_prn_prev
                       = IF d[l].dest = 0 THEN 0 ELSE Lookup(d, l, d[l].dest)
<1> DEFINE g == rename_pkt(d, done)
           p(l) == [kind          |-> d[l].kind,
                    src           |-> d[l].src,
                    op1_prn       |-> Lookup(d, l, d[l].src),
                    op1_ready     |-> data_ready(d, l, Lookup(d, l, d[l].src), done),
                    dest_arn      |-> d[l].dest,
                    dest_prn      |-> pr_dest(d, l),
                    dest_prn_prev |-> IF d[l].dest = 0 THEN 0 ELSE Lookup(d, l, d[l].dest)]
<1>1. g = [l \in Lane |-> IF d[l] = None THEN None ELSE p(l)]
  BY DEF rename_pkt
<1>2. ASSUME NEW l \in Lane, d[l] # None
      PROVE  p(l) \in Renamed
  <2>1. l \in 0 .. MACHINE_WIDTH
    BY Sizes DEF Lane
  <2>2. d[l].kind \in Kind /\ d[l].src \in Arn /\ d[l].dest \in Arn
    BY <1>2, AcceptedIs
  <2>3. Lookup(d, l, d[l].src) \in Prn /\ Lookup(d, l, d[l].dest) \in Prn
    BY <2>1, <2>2, LookupType
  <2>4. data_ready(d, l, Lookup(d, l, d[l].src), done) \in BOOLEAN
    BY DEF data_ready
  <2>5. pr_dest(d, l) \in Prn
    BY DestinationsGranted, Sizes DEF pr_dest
  <2>6. (IF d[l].dest = 0 THEN 0 ELSE Lookup(d, l, d[l].dest)) \in Prn
    BY <2>3, Sizes
  <2> QED
    BY <2>2, <2>3, <2>4, <2>5, <2>6 DEF Renamed
<1>3. \A l \in Lane : d[l] # None => g[l] = p(l) /\ p(l) \in Renamed /\ p(l) # None
  <2> TAKE l \in Lane
  <2> HAVE d[l] # None
  <2>1. p(l) \in Renamed
    BY <1>2
  <2>2. g[l] = p(l)
    BY <1>1
  <2> HIDE DEF g, p
  <2> QED
    BY <2>1, <2>2, NoneAssumption
<1>4. \A l \in Lane : d[l] = None => g[l] = None
  BY <1>1
<1>5. g \in [Lane -> Renamed \cup {None}]
  <2>1. g = [l \in Lane |-> g[l]]
    BY <1>1
  <2> HIDE DEF g, p
  <2>2. \A l \in Lane : g[l] \in Renamed \cup {None}
    BY <1>3, <1>4
  <2> QED
    BY <2>1, <2>2
<1>6. \A l \in Lane : g[l] = None <=> d[l] = None
  <2> HIDE DEF g, p
  <2> QED
    BY <1>3, <1>4
<1>7. GroupLanes(g) = GroupLanes(d) /\ Contiguous(g)
  <2>1. Contiguous(d)
    BY AcceptedIs
  <2> HIDE DEF g
  <2> QED
    BY <1>6, <2>1 DEF GroupLanes, Contiguous
<1>8. \A l \in GroupLanes(d) :
        /\ g[l].kind = d[l].kind /\ g[l].src = d[l].src
        /\ g[l].op1_prn = Lookup(d, l, d[l].src)
        /\ g[l].op1_ready = data_ready(d, l, Lookup(d, l, d[l].src), done)
        /\ g[l].dest_arn = d[l].dest /\ g[l].dest_prn = pr_dest(d, l)
        /\ g[l].dest_prn_prev = IF d[l].dest = 0 THEN 0 ELSE Lookup(d, l, d[l].dest)
  <2> TAKE l \in GroupLanes(d)
  <2>1. g[l] = p(l)
    BY <1>3 DEF GroupLanes
  <2>2. /\ p(l).kind = d[l].kind /\ p(l).src = d[l].src
        /\ p(l).op1_prn = Lookup(d, l, d[l].src)
        /\ p(l).op1_ready = data_ready(d, l, Lookup(d, l, d[l].src), done)
        /\ p(l).dest_arn = d[l].dest /\ p(l).dest_prn = pr_dest(d, l)
        /\ p(l).dest_prn_prev = IF d[l].dest = 0 THEN 0 ELSE Lookup(d, l, d[l].dest)
    OBVIOUS
  <2> HIDE DEF g, p
  <2> QED
    BY <2>1, <2>2
<1> QED
  BY <1>5, <1>7, <1>8

\* The sequence s is what is left after retirement with group d behind it.
Extended(s, d) ==
  LET n == Len(Rest)
      c == Cardinality(GroupLanes(d))
      f == MinOf(GroupLanes(d))
  IN  /\ Len(s) = n + c
      /\ \A i \in 1 .. n : SameNames(s[i], Rest[i])
      /\ \A k \in 1 .. c :
           LET l == f + k - 1
           IN  /\ s[n + k].dest_arn = d[l].dest
               /\ s[n + k].dest_prn = pr_dest(d, l)
               /\ s[n + k].dest_prn_prev
                    = IF d[l].dest = 0 THEN 0 ELSE Lookup(d, l, d[l].dest)

\* Places of the lanes of the group in that sequence.
LEMMA GroupPlaces ==
  ASSUME IInv, NEW d \in Accepted, NEW s, Extended(s, d)
  PROVE  LET n == Len(Rest)
             c == Cardinality(GroupLanes(d))
             f == MinOf(GroupLanes(d))
         IN  /\ n \in Nat /\ c \in 0 .. MACHINE_WIDTH /\ Len(s) = n + c
             /\ c = 0 => GroupLanes(d) = {}
             /\ c > 0 => f \in Nat /\ f + c <= MACHINE_WIDTH
                         /\ GroupLanes(d) = f .. (f + c - 1)
             /\ \A l \in GroupLanes(d) :
                  /\ l \in Lane /\ l \in Nat /\ f \in Nat /\ f <= l /\ l - f < c
                  /\ n + (l - f) + 1 \in 1 .. Len(s)
                  /\ s[n + (l - f) + 1].dest_arn = d[l].dest
                  /\ s[n + (l - f) + 1].dest_prn = pr_dest(d, l)
                  /\ s[n + (l - f) + 1].dest_prn_prev
                       = IF d[l].dest = 0 THEN 0 ELSE Lookup(d, l, d[l].dest)
             /\ \A i \in (n + 1) .. Len(s) :
                  /\ f + (i - n) - 1 \in GroupLanes(d)
                  /\ n + ((f + (i - n) - 1) - f) + 1 = i
<1> DEFINE n == Len(Rest)
           c == Cardinality(GroupLanes(d))
           f == MinOf(GroupLanes(d))
<1>1. n \in Nat
  <2>1. InFlightIsSequence
    BY InFlightIs DEF IInv
  <2> QED
    BY <2>1, RestIs DEF InFlightIsSequence
<1>2. /\ c \in 0 .. MACHINE_WIDTH
      /\ c = 0 => GroupLanes(d) = {}
      /\ c > 0 => f \in Lane /\ f + c <= MACHINE_WIDTH
                  /\ GroupLanes(d) = f .. (f + c - 1)
  BY LanesOfGroup, AcceptedIs
<1>3. /\ Len(s) = n + c
      /\ \A k \in 1 .. c :
           /\ s[n + k].dest_arn = d[f + k - 1].dest
           /\ s[n + k].dest_prn = pr_dest(d, f + k - 1)
           /\ s[n + k].dest_prn_prev
                = IF d[f + k - 1].dest = 0 THEN 0
                  ELSE Lookup(d, f + k - 1, d[f + k - 1].dest)
  BY DEF Extended
<1> HIDE DEF n, c, f
<1>4. c \in Nat /\ (c > 0 => f \in Nat)
  BY <1>2, Sizes DEF Lane
<1>5. ASSUME NEW l \in GroupLanes(d)
      PROVE  /\ l \in Lane /\ l \in Nat /\ f \in Nat /\ f <= l /\ l - f < c
             /\ n + (l - f) + 1 \in 1 .. Len(s)
             /\ s[n + (l - f) + 1].dest_arn = d[l].dest
             /\ s[n + (l - f) + 1].dest_prn = pr_dest(d, l)
             /\ s[n + (l - f) + 1].dest_prn_prev
                  = IF d[l].dest = 0 THEN 0 ELSE Lookup(d, l, d[l].dest)
  <2>1. l \in Lane /\ l \in Nat
    BY Sizes DEF GroupLanes, Lane
  <2>2. c > 0 /\ f \in Nat /\ l \in f .. (f + c - 1)
    BY <1>2, <1>4
  <2> DEFINE k == (l - f) + 1
  <2>3. k \in 1 .. c /\ f + k - 1 = l /\ n + (l - f) + 1 = n + k /\ n + k \in 1 .. (n + c)
        /\ f <= l /\ l - f < c
    BY <1>1, <1>4, <2>2
  <2> HIDE DEF k
  <2> QED
    BY <1>3, <2>1, <2>2, <2>3
<1>6. ASSUME NEW i \in (n + 1) .. Len(s)
      PROVE  /\ f + (i - n) - 1 \in GroupLanes(d)
             /\ n + ((f + (i - n) - 1) - f) + 1 = i
  <2>1. i - n \in 1 .. c
    BY <1>1, <1>3, <1>4
  <2>2. c > 0 /\ f \in Nat
    BY <1>4, <2>1
  <2>3. f + (i - n) - 1 \in f .. (f + c - 1)
    BY <1>1, <1>4, <2>1, <2>2
  <2> QED
    BY <1>1, <1>2, <2>2, <2>3
<1> QED
  BY <1>1, <1>2, <1>3, <1>4, <1>5, <1>6 DEF n, c, f

\* The names a lane of the group reads are those of the program before it.
LEMMA GroupNames ==
  ASSUME IInv, ~recov_arch_st, NEW d \in Accepted, NEW s, Extended(s, d),
         NEW a \in Arn \ {0}, NEW l \in 0 .. MACHINE_WIDTH, NEW i \in Len(Rest) .. Len(s),
         \A j \in (Len(Rest) + 1) .. i :
           MinOf(GroupLanes(d)) + (j - Len(Rest)) - 1 < l,
         \A m \in GroupLanes(d) :
           m < l => Len(Rest) + (m - MinOf(GroupLanes(d))) + 1 <= i
  PROVE  Names(next_arch_rat, s, i, a, Lookup(d, l, a))
<1> DEFINE n == Len(Rest)
           f == MinOf(GroupLanes(d))
           at(m) == n + (m - f) + 1
<1>1. /\ n \in Nat /\ Len(s) \in Nat /\ i \in Nat /\ n <= i /\ i <= Len(s)
      /\ \A m \in GroupLanes(d) : f \in Nat /\ m \in Nat /\ m \in Lane
  BY GroupPlaces
<1>2. \A m \in GroupLanes(d) :
        /\ at(m) \in (n + 1) .. Len(s) /\ s[at(m)].dest_arn = d[m].dest
        /\ s[at(m)].dest_prn = pr_dest(d, m)
  <2> TAKE m \in GroupLanes(d)
  <2>1. f \in Nat /\ m \in Nat /\ f <= m /\ at(m) \in 1 .. Len(s)
    BY GroupPlaces
  <2>2. at(m) \in (n + 1) .. Len(s)
    <3> HIDE DEF n, f
    <3> QED
      BY <1>1, <2>1
  <2> QED
    BY <2>2, GroupPlaces
<1>3. \A j \in (n + 1) .. Len(s) : f + (j - n) - 1 \in GroupLanes(d)
                                   /\ at(f + (j - n) - 1) = j
  BY GroupPlaces
<1>4. \A j \in (n + 1) .. i : f + (j - n) - 1 < l
  OBVIOUS
<1>5. \A m \in GroupLanes(d) : m < l => at(m) <= i
  OBVIOUS
<1>6. \A m \in Lane : HasDest(d, m) => m \in GroupLanes(d)
  BY DEF HasDest, GroupLanes
<1>7. \A m \in GroupLanes(d) : d[m].dest = a => HasDest(d, m) /\ m \in Lane
  BY DEF HasDest, GroupLanes
<1>8. \A j \in 1 .. n : SameNames(s[j], Rest[j])
  BY DEF Extended
<1>9. \A j \in (n + 1) .. i : \E m \in GroupLanes(d) :
        m < l /\ at(m) = j /\ s[j].dest_arn = d[m].dest
  <2> TAKE j \in (n + 1) .. i
  <2>1. j \in (n + 1) .. Len(s)
    <3> HIDE DEF n
    <3> QED
      BY <1>1
  <2> DEFINE m == f + (j - n) - 1
  <2>2. m \in GroupLanes(d) /\ at(m) = j /\ m < l
    BY <1>3, <1>4, <2>1
  <2> HIDE DEF m
  <2>3. s[j].dest_arn = d[m].dest
    BY <1>2, <2>2
  <2> QED
    BY <2>2, <2>3
<1>10. CASE /\ Lookup(d, l, a) = rat[a]
            /\ \A m \in Lane : m < l /\ HasDest(d, m) => d[m].dest # a
  <2>1. Names(next_arch_rat, Rest, n, a, rat[a])
    BY AfterRetirement
  <2>2. Names(next_arch_rat, s, n, a, rat[a])
    <3>1. n \in 0 .. n
      BY <1>1
    <3> QED
      BY <1>1, <1>8, <2>1, <3>1, NamesExtend
  <2>3. \A j \in (n + 1) .. i : s[j].dest_arn # a
    <3> HIDE DEF n, f, at
    <3> QED
      BY <1>7, <1>9, <1>10
  <2> HIDE DEF n, f, at
  <2>4. Names(next_arch_rat, s, i, a, rat[a])
    BY <1>1, <2>2, <2>3, NamesStay
  <2> QED
    BY <1>10, <2>4
<1>11. ASSUME NEW m \in Lane, m < l, HasDest(d, m), d[m].dest = a,
              Lookup(d, l, a) = free_prn(m),
              \A j \in Lane : m < j /\ j < l /\ HasDest(d, j) => d[j].dest # a
       PROVE  Names(next_arch_rat, s, i, a, Lookup(d, l, a))
  <2>1. m \in GroupLanes(d) /\ pr_dest(d, m) = free_prn(m)
    BY <1>6, <1>11, DestinationsGranted
  <2>2. at(m) \in 1 .. i /\ s[at(m)].dest_arn = a /\ s[at(m)].dest_prn = free_prn(m)
    <3>1. at(m) \in (n + 1) .. Len(s) /\ at(m) <= i
      BY <1>2, <1>5, <1>11, <2>1
    <3>2. at(m) \in 1 .. i
      <4> HIDE DEF n, at
      <4> QED
        BY <1>1, <3>1
    <3> QED
      BY <1>2, <1>11, <2>1, <3>2
  <2>3. \A j \in (at(m) + 1) .. i : s[j].dest_arn # a
    <3> TAKE j \in (at(m) + 1) .. i
    <3>1. at(m) \in Nat /\ at(m) >= n + 1
      <4>1. at(m) \in (n + 1) .. Len(s)
        BY <1>2, <2>1
      <4> HIDE DEF n, at
      <4> QED
        BY <1>1, <4>1
    <3>2. j \in (n + 1) .. i
      <4> HIDE DEF n, at
      <4> QED
        BY <1>1, <3>1
    <3>3. PICK q \in GroupLanes(d) : q < l /\ at(q) = j /\ s[j].dest_arn = d[q].dest
      BY <1>9, <3>2
    <3>4. m < q
      <4>1. f \in Nat /\ m \in Nat /\ q \in Nat
        BY <1>1, <2>1, <3>3
      <4>2. n + (q - f) + 1 >= (n + (m - f) + 1) + 1
        BY <1>1, <3>1, <3>3
      <4> HIDE DEF n, f
      <4> QED
        BY <1>1, <4>1, <4>2
    <3> HIDE DEF n, f, at
    <3> QED
      BY <1>7, <1>11, <3>3, <3>4
  <2> HIDE DEF at
  <2> QED
    BY <1>11, <2>2, <2>3 DEF Names
<1> QED
  BY <1>10, <1>11, LookupIs

\* Before lane l of the group, the names that lane reads, and behind the last
\* one the new map.
LEMMA LaneNames ==
  ASSUME IInv, ~recov_arch_st, NEW d \in Accepted, NEW s, Extended(s, d),
         NEW a \in Arn \ {0}
  PROVE  /\ \A l \in GroupLanes(d) :
              Names(next_arch_rat, s, Len(Rest) + (l - MinOf(GroupLanes(d))), a, Lookup(d, l, a))
         /\ Names(next_arch_rat, s, Len(s), a, next_rat(d)[a])
<1> DEFINE n == Len(Rest)
           c == Cardinality(GroupLanes(d))
           f == MinOf(GroupLanes(d))
<1>1. /\ n \in Nat /\ c \in 0 .. MACHINE_WIDTH /\ Len(s) = n + c /\ MACHINE_WIDTH \in Nat
      /\ c = 0 => GroupLanes(d) = {}
      /\ c > 0 => f \in Nat /\ f + c <= MACHINE_WIDTH /\ GroupLanes(d) = f .. (f + c - 1)
  BY GroupPlaces, Sizes
<1>2. ASSUME NEW l \in GroupLanes(d)
      PROVE  Names(next_arch_rat, s, n + (l - f), a, Lookup(d, l, a))
  <2> HIDE DEF n, c, f
  <2>1. c > 0 /\ l \in f .. (f + c - 1) /\ f \in Nat
    BY <1>1
  <2>2. l \in 0 .. MACHINE_WIDTH /\ n + (l - f) \in n .. Len(s)
    BY <1>1, <2>1
  <2>3. \A j \in (n + 1) .. (n + (l - f)) : f + (j - n) - 1 < l
    BY <1>1, <2>1
  <2>4. \A m \in GroupLanes(d) : m < l => n + (m - f) + 1 <= n + (l - f)
    BY <1>1, <2>1
  <2> DEFINE i == n + (l - f)
  <2> HIDE DEF i
  <2>5. i \in Len(Rest) .. Len(s)
    BY <2>2 DEF i, n
  <2>6. \A j \in (Len(Rest) + 1) .. i : MinOf(GroupLanes(d)) + (j - Len(Rest)) - 1 < l
    BY <2>3 DEF i, n, f
  <2>7. \A m \in GroupLanes(d) :
          m < l => Len(Rest) + (m - MinOf(GroupLanes(d))) + 1 <= i
    BY <2>4 DEF i, n, f
  <2>8. Names(next_arch_rat, s, i, a, Lookup(d, l, a))
    BY <2>2, <2>5, <2>6, <2>7, GroupNames
  <2> QED
    BY <2>8 DEF i
<1>3. Names(next_arch_rat, s, Len(s), a, Lookup(d, MACHINE_WIDTH, a))
  <2> DEFINE i == Len(s)
             l == MACHINE_WIDTH
  <2>1. l \in 0 .. MACHINE_WIDTH
    BY <1>1
  <2>2. i \in n .. Len(s)
    <3> HIDE DEF n, c, f
    <3> QED
      BY <1>1
  <2>3. \A j \in (n + 1) .. i : f + (j - n) - 1 < l
    <3> HIDE DEF n, c, f
    <3> QED
      BY <1>1
  <2>4. \A m \in GroupLanes(d) : m < l => n + (m - f) + 1 <= i
    <3> HIDE DEF n, c, f
    <3>1. ASSUME NEW m \in GroupLanes(d) PROVE n + (m - f) + 1 <= Len(s)
      <4>1. c > 0 /\ m \in f .. (f + c - 1) /\ f \in Nat
        BY <1>1
      <4> QED
        BY <1>1, <4>1
    <3> QED
      BY <3>1
  <2> HIDE DEF i, l
  <2>5. Names(next_arch_rat, s, i, a, Lookup(d, l, a))
    BY <2>1, <2>2, <2>3, <2>4, GroupNames
  <2> QED
    BY <2>5 DEF i, l
<1>4. next_rat(d)[a] = Lookup(d, MACHINE_WIDTH, a)
  BY NextRatIs
<1> QED
  BY <1>2, <1>3, <1>4

\* A group of renamed instructions keeps the names distinct.
LEMMA ExtendedConsistent ==
  ASSUME IInv, ~recov_arch_st, NEW d \in Accepted, NEW s, Extended(s, d)
  PROVE  Consistent(next_arch_rat, s)
<1> DEFINE n == Len(Rest)
           f == MinOf(GroupLanes(d))
           lane(i) == f + (i - n) - 1
<1>1. n \in Nat /\ Len(s) \in Nat /\ n <= Len(s)
  BY GroupPlaces
<1>2. Consistent(next_arch_rat, Rest) /\ \A i \in 1 .. n : SameNames(s[i], Rest[i])
  BY AfterRetirement DEF Extended
<1>places. \A l \in GroupLanes(d) :
             /\ l \in Lane /\ l \in Nat /\ f \in Nat
             /\ s[n + (l - f) + 1].dest_arn = d[l].dest
             /\ s[n + (l - f) + 1].dest_prn = pr_dest(d, l)
             /\ s[n + (l - f) + 1].dest_prn_prev
                  = IF d[l].dest = 0 THEN 0 ELSE Lookup(d, l, d[l].dest)
  BY GroupPlaces
<1>3. ASSUME NEW i \in (n + 1) .. Len(s)
      PROVE  /\ lane(i) \in GroupLanes(d) /\ lane(i) \in Lane /\ lane(i) \in Nat /\ f \in Nat
             /\ s[i].dest_arn = d[lane(i)].dest
             /\ s[i].dest_prn = pr_dest(d, lane(i))
             /\ s[i].dest_prn_prev = IF d[lane(i)].dest = 0 THEN 0
                                     ELSE Lookup(d, lane(i), d[lane(i)].dest)
  <2>1. lane(i) \in GroupLanes(d) /\ n + (lane(i) - f) + 1 = i
    BY GroupPlaces
  <2> DEFINE l == lane(i)
  <2>2. l \in GroupLanes(d) /\ n + (l - f) + 1 = i
    BY <2>1
  <2> HIDE DEF l
  <2>4. /\ l \in GroupLanes(d) /\ l \in Lane /\ l \in Nat /\ f \in Nat
        /\ s[i].dest_arn = d[l].dest /\ s[i].dest_prn = pr_dest(d, l)
        /\ s[i].dest_prn_prev = IF d[l].dest = 0 THEN 0 ELSE Lookup(d, l, d[l].dest)
    BY <1>places, <2>2
  <2> QED
    BY <2>4 DEF l
<1>4. ASSUME NEW i \in (n + 1) .. Len(s), s[i].dest_arn = 0
      PROVE  s[i].dest_prn = 0 /\ s[i].dest_prn_prev = 0
  BY <1>3, <1>4 DEF pr_dest, HasDest
<1>5. ASSUME NEW i \in (n + 1) .. Len(s), s[i].dest_arn # 0
      PROVE  /\ HasDest(d, lane(i)) /\ s[i].dest_prn = free_prn(lane(i))
             /\ s[i].dest_prn \in free_list_retire_fwd /\ s[i].dest_prn # 0
             /\ s[i].dest_arn \in Arn \ {0}
  <2>1. lane(i) \in Lane /\ d[lane(i)] # None /\ s[i].dest_arn = d[lane(i)].dest
        /\ s[i].dest_prn = pr_dest(d, lane(i))
    BY <1>3 DEF GroupLanes
  <2> HIDE DEF lane
  <2>2. HasDest(d, lane(i))
    BY <1>5, <2>1 DEF HasDest
  <2>3. d[lane(i)].dest \in Arn
    BY <2>1, AcceptedIs
  <2>4. /\ free_prn(lane(i)) \in free_list_retire_fwd /\ free_prn(lane(i)) \in Prn \ {0}
        /\ pr_dest(d, lane(i)) = free_prn(lane(i))
    BY <2>1, <2>2, DestinationsGranted
  <2> QED
    BY <1>5, <2>1, <2>2, <2>3, <2>4
<1>6. ASSUME NEW i \in (n + 1) .. Len(s), s[i].dest_arn # 0
      PROVE  Names(next_arch_rat, s, i - 1, s[i].dest_arn, s[i].dest_prn_prev)
  <2>1. /\ lane(i) \in GroupLanes(d) /\ s[i].dest_arn \in Arn \ {0}
        /\ s[i].dest_prn_prev = Lookup(d, lane(i), s[i].dest_arn)
    BY <1>3, <1>5, <1>6
  <2>2. f \in Nat
    BY <1>3
  <2> DEFINE l == lane(i)
             a == s[i].dest_arn
  <2>3. n + (l - f) = i - 1
    <3> HIDE DEF n, f
    <3> QED
      BY <1>1, <2>2
  <2> HIDE DEF l
  <2>4. l \in GroupLanes(d) /\ a \in Arn \ {0} /\ s[i].dest_prn_prev = Lookup(d, l, a)
    BY <2>1 DEF l
  <2> HIDE DEF a
  <2>5. Names(next_arch_rat, s, n + (l - f), a, Lookup(d, l, a))
    BY <2>4, LaneNames
  <2> QED
    BY <2>3, <2>4, <2>5 DEF a
<1>7. ASSUME NEW i \in (n + 1) .. Len(s), s[i].dest_arn # 0,
             NEW j \in 1 .. Len(s), s[i].dest_prn = s[j].dest_prn
      PROVE  i = j
  <2>1. s[i].dest_prn \in free_list_retire_fwd /\ s[i].dest_prn # 0
    BY <1>5, <1>7
  <2>2. CASE j \in 1 .. n
    BY <1>2, <1>7, <2>1, <2>2, AfterRetirement DEF SameNames
  <2>3. CASE j \in (n + 1) .. Len(s)
    <3>1. s[j].dest_arn # 0
      BY <1>4, <1>7, <2>1, <2>3
    <3>2. /\ HasDest(d, lane(i)) /\ HasDest(d, lane(j))
          /\ free_prn(lane(i)) = free_prn(lane(j))
      BY <1>5, <1>7, <2>3, <3>1
    <3>3. lane(i) \in Lane /\ lane(j) \in Lane /\ f \in Nat
      BY <1>3, <2>3
    <3>4. lane(i) = lane(j)
      <4> HIDE DEF lane
      <4> QED
        BY <3>2, <3>3, DestinationsGranted
    <3> HIDE DEF n, f
    <3> QED
      BY <1>1, <3>3, <3>4
  <2>4. j \in 1 .. n \/ j \in (n + 1) .. Len(s)
    <3> HIDE DEF n
    <3> QED
      BY <1>1
  <2> QED
    BY <2>2, <2>3, <2>4
<1>8. \A i \in (n + 1) .. Len(s) :
        IF s[i].dest_arn = 0
          THEN s[i].dest_prn = 0 /\ s[i].dest_prn_prev = 0
          ELSE /\ s[i].dest_prn # 0
               /\ Names(next_arch_rat, s, i - 1, s[i].dest_arn, s[i].dest_prn_prev)
               /\ \A a \in Arn : s[i].dest_prn # next_arch_rat[a]
               /\ \A j \in 1 .. Len(s) : s[i].dest_prn = s[j].dest_prn => i = j
  <2> TAKE i \in (n + 1) .. Len(s)
  <2>1. CASE s[i].dest_arn = 0
    BY <1>4, <2>1
  <2>2. CASE s[i].dest_arn # 0
    <3>1. s[i].dest_prn \in free_list_retire_fwd /\ s[i].dest_prn # 0
      BY <1>5, <2>2
    <3>2. \A a \in Arn : s[i].dest_prn # next_arch_rat[a]
      BY <3>1, AfterRetirement
    <3>3. Names(next_arch_rat, s, i - 1, s[i].dest_arn, s[i].dest_prn_prev)
      BY <1>6, <2>2
    <3>4. \A j \in 1 .. Len(s) : s[i].dest_prn = s[j].dest_prn => i = j
      BY <1>7, <2>2
    <3> QED
      BY <2>2, <3>1, <3>2, <3>3, <3>4
  <2> QED
    BY <2>1, <2>2
<1> QED
  BY <1>1, <1>2, <1>8, AppendKeeps

\* The registers the group takes leave the free list and enter the program.
LEMMA ExtendedDivides ==
  ASSUME IInv, ~recov_arch_st, NEW d \in Accepted, NEW s, Extended(s, d)
  PROVE  LET F == free_list_retire_fwd \ Allocated(d)
         IN  /\ next_rat(d)[0] = 0
             /\ \A p \in F :
                  /\ p # 0
                  /\ \A a \in Arn : next_arch_rat[a] # p /\ next_rat(d)[a] # p
                  /\ \A i \in 1 .. Len(s) : s[i].dest_prn # p
             /\ \A p \in Prn \ {0} : \/ p \in F
                                     \/ \E a \in Arn : next_arch_rat[a] = p
                                     \/ \E i \in 1 .. Len(s) : s[i].dest_prn = p
<1> DEFINE n == Len(Rest)
           f == MinOf(GroupLanes(d))
           F == free_list_retire_fwd \ Allocated(d)
<1>1. n \in Nat /\ Len(s) \in Nat /\ n <= Len(s)
  BY GroupPlaces
<1>2. \A i \in 1 .. n : i \in 1 .. Len(s) /\ SameNames(s[i], Rest[i])
  <2>1. \A i \in 1 .. n : SameNames(s[i], Rest[i])
    BY DEF Extended
  <2> HIDE DEF n
  <2> QED
    BY <1>1, <2>1
<1>3. \A l \in GroupLanes(d) : /\ l \in Lane /\ n + (l - f) + 1 \in 1 .. Len(s)
                               /\ s[n + (l - f) + 1].dest_prn = pr_dest(d, l)
  BY GroupPlaces
<1>4. \A i \in (n + 1) .. Len(s) : \E l \in GroupLanes(d) :
        l \in Lane /\ s[i].dest_prn = pr_dest(d, l)
  <2> TAKE i \in (n + 1) .. Len(s)
  <2> DEFINE l == f + (i - n) - 1
  <2>1. l \in GroupLanes(d) /\ n + (l - f) + 1 = i
    BY GroupPlaces
  <2> HIDE DEF l, n, f
  <2> QED
    BY <1>3, <2>1
<1>5. \A l \in Lane : HasDest(d, l) =>
        /\ free_prn(l) \in Allocated(d) /\ pr_dest(d, l) = free_prn(l)
        /\ l \in GroupLanes(d)
  BY DestinationsGranted DEF Allocated, HasDest, GroupLanes
<1>6. \A l \in Lane : ~HasDest(d, l) => pr_dest(d, l) = 0
  BY DEF pr_dest
<1>7. \A p \in Allocated(d) : \E l \in Lane : HasDest(d, l) /\ p = free_prn(l)
  BY DEF Allocated
<1>8. \A p \in F : /\ p # 0 /\ \A a \in Arn : next_arch_rat[a] # p /\ rat[a] # p
                   /\ \A i \in 1 .. n : Rest[i].dest_prn # p
  BY AfterRetirement
<1>9. \A l \in Lane : HasDest(d, l) => free_prn(l) \notin F
  BY <1>5
<1>10. ASSUME NEW p \in F, NEW a \in Arn PROVE next_rat(d)[a] # p
  <2>1. next_rat(d)[a] = Lookup(d, MACHINE_WIDTH, a) /\ MACHINE_WIDTH \in 0 .. MACHINE_WIDTH
    BY NextRatIs, Sizes
  <2> HIDE DEF F
  <2>2. Lookup(d, MACHINE_WIDTH, a) = rat[a]
        \/ \E m \in Lane : HasDest(d, m) /\ Lookup(d, MACHINE_WIDTH, a) = free_prn(m)
    BY <2>1, LookupIs
  <2> QED
    BY <1>8, <1>9, <2>1, <2>2
<1>11. ASSUME NEW p \in F, NEW i \in 1 .. Len(s) PROVE s[i].dest_prn # p
  <2>1. CASE i \in 1 .. n
    BY <1>2, <1>8, <2>1 DEF SameNames
  <2>2. CASE i \in (n + 1) .. Len(s)
    <3> HIDE DEF F, n
    <3> QED
      BY <1>4, <1>5, <1>6, <1>8, <1>9, <2>2
  <2>3. i \in 1 .. n \/ i \in (n + 1) .. Len(s)
    <3> HIDE DEF n
    <3> QED
      BY <1>1
  <2> QED
    BY <2>1, <2>2, <2>3
<1>12. ASSUME NEW p \in Prn \ {0}
       PROVE  \/ p \in F
              \/ \E a \in Arn : next_arch_rat[a] = p
              \/ \E i \in 1 .. Len(s) : s[i].dest_prn = p
  <2>1. \/ p \in free_list_retire_fwd
        \/ \E a \in Arn : next_arch_rat[a] = p
        \/ \E i \in 1 .. n : Rest[i].dest_prn = p
    BY AfterRetirement
  <2>2. ASSUME NEW i \in 1 .. n, Rest[i].dest_prn = p
        PROVE  \E j \in 1 .. Len(s) : s[j].dest_prn = p
    BY <1>2, <2>2 DEF SameNames
  <2>3. ASSUME p \in Allocated(d)
        PROVE  \E i \in 1 .. Len(s) : s[i].dest_prn = p
    <3>1. PICK l \in Lane : HasDest(d, l) /\ p = free_prn(l)
      BY <1>7, <2>3
    <3>2. l \in GroupLanes(d) /\ pr_dest(d, l) = p
      BY <1>5, <3>1
    <3> HIDE DEF n, f
    <3> QED
      BY <1>3, <3>2
  <2> QED
    BY <2>1, <2>2, <2>3
<1>13. next_rat(d)[0] = 0
  <2>1. {l \in Lane : HasDest(d, l) /\ free_prn_valid(l) /\ d[l].dest = 0} = {}
    BY DEF HasDest
  <2>2. next_rat(d)[0] = rat[0]
    BY <2>1, Sizes DEF next_rat
  <2> QED
    BY <2>2 DEF IInv, RatNames
<1> HIDE DEF F
<1>14. \A p \in F : /\ p # 0
                    /\ \A a \in Arn : next_arch_rat[a] # p /\ next_rat(d)[a] # p
                    /\ \A i \in 1 .. Len(s) : s[i].dest_prn # p
  BY <1>8, <1>10, <1>11
<1> QED
  BY <1>12, <1>13, <1>14 DEF F

---------------------------------------------------------------------------
(* The invariant is inductive *)

\* A cycle without flush leaves the retired prefix and the written rest of the
\* window, with the dispatched group behind it.
LEMMA CycleWindow ==
  ASSUME IInv, NEW d \in Accepted, NEW done, NEW misp, Cycle(d, done, misp)
  PROVE  /\ pipe_retire_pkt' \in Seq(Entry) /\ Len(pipe_retire_pkt') = RetireCount
         /\ \A i \in 1 .. RetireCount : pipe_retire_pkt'[i] = window[i]
         /\ window' \in Seq(Entry)
         /\ Len(window') = Len(window) - RetireCount + DispatchCount
         /\ \A i \in 1 .. Len(window') :
              IF i + RetireCount <= Len(window)
                THEN window'[i] = Written(done, misp)[i + RetireCount]
                ELSE window'[i] = DispatchSeq[i + RetireCount - Len(window)]
<1> DEFINE W == Written(done, misp)
           c == RetireCount
           n == Len(window)
           x == SubSeq(window, 1, c)
           y == SubSeq(W, c + 1, n)
           D == DispatchSeq
<1>1. window \in Seq(Entry) /\ n \in Nat /\ c \in 0 .. n
  BY RetireCountIs, LenProperties DEF IInv, Shape
<1>2. W \in Seq(Entry) /\ Len(W) = n
  BY WrittenIs DEF IInv
<1>3. D \in Seq(Entry) /\ Len(D) = DispatchCount /\ DispatchCount \in Nat
  BY DispatchIs, Sizes DEF IInv
<1>4. pipe_retire_pkt' = x /\ window' = y \o D
  BY DEF Cycle
<1>5. x \in Seq(Entry) /\ Len(x) = c /\ \A i \in 1 .. c : x[i] = window[i]
  <2> DEFINE v == window
  <2>1. v \in Seq(Entry) /\ c \in 0 .. Len(v)
    BY <1>1
  <2> HIDE DEF v, c
  <2>2. LET z == SubSeq(v, 1, c)
        IN  z \in Seq(Entry) /\ Len(z) = c /\ \A i \in 1 .. c : z[i] = v[i]
    BY <2>1, Parts
  <2> QED
    BY <2>2 DEF v
<1>6. y \in Seq(Entry) /\ Len(y) = n - c /\ \A i \in 1 .. (n - c) : y[i] = W[i + c]
  <2> HIDE DEF W, n, c
  <2>1. c \in 0 .. Len(W)
    BY <1>1, <1>2
  <2>2. LET z == SubSeq(W, c + 1, Len(W))
        IN  /\ z \in Seq(Entry) /\ Len(z) = Len(W) - c
            /\ \A i \in 1 .. (Len(W) - c) : z[i] = W[i + c]
    BY <1>2, <2>1, Parts
  <2> QED
    BY <1>2, <2>2
<1> HIDE DEF W, c, n, x, y, D
<1>7. /\ y \o D \in Seq(Entry) /\ Len(y \o D) = Len(y) + Len(D)
      /\ \A i \in 1 .. Len(y) + Len(D) : (y \o D)[i] = IF i <= Len(y) THEN y[i] ELSE D[i - Len(y)]
  <2>1. y \in Seq(Entry) /\ D \in Seq(Entry)
    BY <1>3, <1>6
  <2> QED
    BY <2>1, ConcatProperties
<1>8. ASSUME NEW i \in 1 .. Len(window')
      PROVE  IF i + c <= n THEN window'[i] = W[i + c] ELSE window'[i] = D[i + c - n]
  <2>1. i \in 1 .. Len(y) + Len(D) /\ Len(y) = n - c
    BY <1>4, <1>6, <1>7
  <2>2. CASE i + c <= n
    <3>1. i <= Len(y) /\ i \in 1 .. (n - c)
      BY <1>1, <1>3, <2>1, <2>2
    <3> QED
      BY <1>4, <1>6, <1>7, <2>1, <2>2, <3>1
  <2>3. CASE ~(i + c <= n)
    <3>1. ~(i <= Len(y)) /\ i - Len(y) = i + c - n
      BY <1>1, <1>3, <2>1, <2>3
    <3> QED
      BY <1>4, <1>7, <2>1, <2>3, <3>1
  <2> QED
    BY <2>2, <2>3
<1>9. Len(window') = n - c + DispatchCount
  BY <1>3, <1>4, <1>6, <1>7
<1> QED
  BY <1>4, <1>5, <1>7, <1>8, <1>9 DEF W, c, n, D

\* The maps, the free list and the busy table keep their types.
LEMMA RenameStepTypes ==
  ASSUME IInv, NEW d \in Accepted, NEW done, RenameStep(d, done)
  PROVE  /\ rat' \in [Arn -> Prn] /\ arch_rat' \in [Arn -> Prn]
         /\ free_list' \in SUBSET Prn /\ busy_table' \in SUBSET Prn
         /\ recov_arch_st' = pipe_flush /\ pipe_flush \in BOOLEAN
<1>1. rat \in [Arn -> Prn] /\ arch_rat \in [Arn -> Prn] /\ busy_table \in SUBSET Prn
  BY DEF IInv, Shape, TypeOK
<1>2. next_rat(d) \in [Arn -> Prn]
  <2>1. \A a \in Arn : next_rat(d)[a] \in Prn
    BY NextRatIs, LookupType, Sizes
  <2>2. next_rat(d) = [a \in Arn |-> next_rat(d)[a]]
    BY DEF next_rat
  <2> QED
    BY <2>1, <2>2
<1>3. Allocated(d) \in SUBSET Prn
  BY DestinationsGranted DEF Allocated
<1>4. next_arch_rat \in [Arn -> Prn] /\ free_list_retire_fwd \in SUBSET Prn
  BY AfterRetirement
<1>5. rat' \in [Arn -> Prn] /\ arch_rat' \in [Arn -> Prn]
  BY <1>1, <1>2, <1>4 DEF RenameStep
<1>6. free_list' \in SUBSET Prn /\ busy_table' \in SUBSET Prn
  BY <1>1, <1>3, <1>4 DEF RenameStep
<1> QED
  BY <1>5, <1>6 DEF RenameStep, pipe_flush

\* Lengths and types after a cycle without flush.
LEMMA CycleShape ==
  ASSUME IInv, NEW d \in Accepted, NEW done, NEW misp, Cycle(d, done, misp)
  PROVE  Shape'
<1>1. /\ rat' \in [Arn -> Prn] /\ arch_rat' \in [Arn -> Prn]
      /\ free_list' \in SUBSET Prn /\ busy_table' \in SUBSET Prn
      /\ recov_arch_st' \in BOOLEAN
  BY RenameStepTypes DEF Cycle
<1>2. pipe_rename_pkt' \in [Lane -> Renamed \cup {None}] /\ Contiguous(pipe_rename_pkt')
  BY RenamedIs DEF Cycle
<1>3. /\ pipe_retire_pkt' \in Seq(Entry) /\ Len(pipe_retire_pkt') = RetireCount
      /\ window' \in Seq(Entry)
      /\ Len(window') = Len(window) - RetireCount + DispatchCount
  BY CycleWindow
<1>4. /\ \A i \in DOMAIN window' : window'[i] \in Entry
      /\ \A i \in DOMAIN pipe_retire_pkt' : pipe_retire_pkt'[i] \in Entry
  BY <1>3, LenProperties, ElementOfSeq
<1>5. Len(pipe_retire_pkt') <= MACHINE_WIDTH /\ Len(window') <= ROB_DEPTH
  <2>1. RetireCount \in 0 .. Len(window) /\ RetireCount <= MACHINE_WIDTH
        /\ Len(window) \in Nat /\ DispatchCount \in Nat
        /\ Len(window) + DispatchCount <= ROB_DEPTH
    BY RetireCountIs, DispatchIs, LenProperties, Sizes DEF IInv, Shape, Room
  <2> QED
    BY <1>3, <2>1, Sizes
<1>6. {branch_misp', recov_arch_st', sys_exception'} \subseteq BOOLEAN
  <2>1. {branch_misp, sys_exception} \subseteq BOOLEAN
    BY DEF IInv, Shape, TypeOK
  <2>2. branch_misp' \in BOOLEAN /\ sys_exception' \in BOOLEAN
    BY <2>1 DEF Cycle
  <2> QED
    BY <1>1, <2>2
<1>7. TypeOK'
  BY <1>1, <1>2, <1>4, <1>5, <1>6 DEF TypeOK
<1> QED
  BY <1>2, <1>3, <1>7 DEF Shape, Contiguous

\* What DispatchIs says, for the next state.
DispatchedGroup ==
  /\ DispatchCount = Cardinality(GroupLanes(pipe_rename_pkt))
  /\ DispatchCount \in 0 .. MACHINE_WIDTH
  /\ \A k \in 1 .. DispatchCount :
       /\ SameNames(DispatchSeq[k],
                    pipe_rename_pkt[MinOf(GroupLanes(pipe_rename_pkt)) + k - 1])
       /\ DispatchSeq[k].kind
            = pipe_rename_pkt[MinOf(GroupLanes(pipe_rename_pkt)) + k - 1].kind
       /\ DispatchSeq[k].complete = (DispatchSeq[k].kind = "halt")

\* The group in the pipeline register is dispatched in order.
LEMMA DispatchedGroupIs == Shape => DispatchedGroup
<1> SUFFICES ASSUME Shape PROVE DispatchedGroup
  OBVIOUS
<1>1. /\ DispatchCount = Cardinality(GroupLanes(pipe_rename_pkt))
      /\ FirstLane = MinOf(GroupLanes(pipe_rename_pkt))
  BY DEF DispatchCount, FirstLane, GroupLanes
<1> QED
  BY <1>1, DispatchIs DEF DispatchedGroup

\* Where the instructions in flight come from after a cycle without flush.
LEMMA CyclePlaces ==
  ASSUME IInv, NEW d \in Accepted, NEW done, NEW misp, Cycle(d, done, misp)
  PROVE  LET s == InFlight'
             n == Len(Rest)
             c == Cardinality(GroupLanes(d))
             f == MinOf(GroupLanes(d))
             w == Len(window)
         IN  /\ w \in Nat /\ n = w + DispatchCount /\ DispatchCount \in Nat
             /\ Len(s) = n + c
             /\ Len(pipe_retire_pkt') + Len(window') = n
             /\ \A i \in 1 .. n :
                  /\ Rest[i] = IF i <= w THEN window[i] ELSE DispatchSeq[i - w]
                  /\ s[i] = IF i <= RetireCount THEN window[i]
                            ELSE IF i <= w THEN Written(done, misp)[i]
                            ELSE DispatchSeq[i - w]
             /\ \A k \in 1 .. c :
                  /\ f + k - 1 \in GroupLanes(d)
                  /\ SameNames(s[n + k], rename_pkt(d, done)[f + k - 1])
                  /\ s[n + k].kind = rename_pkt(d, done)[f + k - 1].kind
                  /\ s[n + k].complete = (s[n + k].kind = "halt")
<1> DEFINE s == InFlight'
           n == Len(Rest)
           c == Cardinality(GroupLanes(d))
           f == MinOf(GroupLanes(d))
           rc == RetireCount
           w == Len(window)
           r == Len(pipe_retire_pkt)
           g == rename_pkt(d, done)
<1>1. InFlightIsSequence' /\ DispatchedGroup'
  <2>1. Shape'
    BY CycleShape
  <2> QED
    BY <2>1, InFlightIs, DispatchedGroupIs, PTL
<1>2. InFlightIsSequence
  BY InFlightIs DEF IInv
<1>3. /\ w \in Nat /\ r \in Nat /\ rc \in 0 .. w /\ DispatchCount \in Nat
      /\ n = w + DispatchCount
      /\ \A i \in 1 .. n : Rest[i] = InFlight[i + r]
      /\ \A i \in 1 .. w : InFlight[r + i] = window[i]
      /\ \A i \in 1 .. DispatchCount : InFlight[r + w + i] = DispatchSeq[i]
  BY <1>2, RestIs, RetireCountIs DEF InFlightIsSequence, IInv
<1>4. /\ Len(pipe_retire_pkt') = rc
      /\ \A i \in 1 .. rc : pipe_retire_pkt'[i] = window[i]
      /\ Len(window') = w - rc + DispatchCount
      /\ \A i \in 1 .. Len(window') :
           IF i + rc <= w THEN window'[i] = Written(done, misp)[i + rc]
                          ELSE window'[i] = DispatchSeq[i + rc - w]
  BY CycleWindow
<1>6. pipe_rename_pkt' = g /\ GroupLanes(g) = GroupLanes(d)
  BY RenamedIs DEF Cycle
<1>7. /\ DispatchCount' = c
      /\ \A k \in 1 .. c : /\ SameNames(DispatchSeq'[k], g[f + k - 1])
                           /\ DispatchSeq'[k].kind = g[f + k - 1].kind
                           /\ DispatchSeq'[k].complete = (DispatchSeq'[k].kind = "halt")
  BY <1>1, <1>6 DEF DispatchedGroup, GroupLanes
<1>8. /\ Len(s) = Len(pipe_retire_pkt') + Len(window') + c
      /\ \A i \in 1 .. Len(pipe_retire_pkt') : s[i] = pipe_retire_pkt'[i]
      /\ \A i \in 1 .. Len(window') : s[Len(pipe_retire_pkt') + i] = window'[i]
      /\ \A k \in 1 .. c : s[Len(pipe_retire_pkt') + Len(window') + k] = DispatchSeq'[k]
  BY <1>1, <1>7 DEF InFlightIsSequence
<1> HIDE DEF s, n, c, f, rc, w, r, g
<1>9. c \in 0 .. MACHINE_WIDTH /\ (c > 0 => f \in Nat /\ GroupLanes(d) = f .. (f + c - 1))
  BY LanesOfGroup, AcceptedIs, Sizes DEF c, f, Lane
<1>10. Len(s) = n + c /\ Len(pipe_retire_pkt') + Len(window') = n
  BY <1>3, <1>4, <1>8, <1>9, Sizes
<1>11. ASSUME NEW i \in 1 .. n
       PROVE  /\ Rest[i] = IF i <= w THEN window[i] ELSE DispatchSeq[i - w]
              /\ s[i] = IF i <= rc THEN window[i]
                        ELSE IF i <= w THEN Written(done, misp)[i]
                        ELSE DispatchSeq[i - w]
  <2>1. CASE i <= rc
    <3>1. i \in 1 .. rc /\ i \in 1 .. w /\ i + r = r + i
      BY <1>3, <2>1
    <3>2. Rest[i] = window[i] /\ i <= w
      BY <1>3, <3>1
    <3>3. pipe_retire_pkt'[i] = window[i] /\ i \in 1 .. Len(pipe_retire_pkt')
      BY <1>4, <3>1
    <3>4. s[i] = pipe_retire_pkt'[i]
      BY <1>8, <3>3
    <3> QED
      BY <2>1, <3>2, <3>3, <3>4
  <2>2. CASE i > rc /\ i <= w
    <3>1. /\ i - rc \in 1 .. Len(window') /\ rc + (i - rc) = i /\ (i - rc) + rc = i
          /\ i \in 1 .. w /\ i + r = r + i /\ ~(i <= rc)
      BY <1>3, <1>4, <2>2
    <3>2. s[i] = window'[i - rc] /\ Rest[i] = window[i]
      BY <1>3, <1>4, <1>8, <3>1
    <3>3. window'[i - rc] = Written(done, misp)[i]
      BY <1>4, <2>2, <3>1
    <3> QED
      BY <2>2, <3>1, <3>2, <3>3
  <2>3. CASE i > w
    <3> DEFINE j == i - rc
               k == i - w
    <3>1. /\ w \in Nat /\ r \in Nat /\ rc \in 0 .. w /\ DispatchCount \in Nat
          /\ i \in 1 .. (w + DispatchCount) /\ Len(window') = w - rc + DispatchCount
      BY <1>3, <1>4
    <3>2. /\ j \in 1 .. Len(window') /\ k \in 1 .. DispatchCount /\ j + rc - w = k
          /\ ~(j + rc <= w) /\ ~(i <= w) /\ ~(i <= rc)
      BY <2>3, <3>1
    <3>3. rc + j = i /\ r + w + k = i + r
      BY <3>1
    <3> HIDE DEF j, k
    <3>4. s[i] = window'[j]
      BY <1>4, <1>8, <3>2, <3>3
    <3>5. Rest[i] = DispatchSeq[k]
      BY <1>3, <3>2, <3>3
    <3>6. window'[j] = DispatchSeq[k]
      BY <1>4, <3>2
    <3> QED
      BY <3>2, <3>4, <3>5, <3>6 DEF k
  <2> QED
    BY <1>3, <2>1, <2>2, <2>3
<1>12. ASSUME NEW k \in 1 .. c
       PROVE  f + k - 1 \in GroupLanes(d) /\ s[n + k] = DispatchSeq'[k]
  <2>1. f + k - 1 \in GroupLanes(d)
    <3>1. c > 0
      BY <1>9, Sizes
    <3> QED
      BY <1>9, <3>1, Sizes
  <2>2. s[n + k] = DispatchSeq'[k]
    BY <1>8, <1>10
  <2> QED
    BY <2>1, <2>2
<1>13. ASSUME NEW k \in 1 .. c
       PROVE  /\ f + k - 1 \in GroupLanes(d)
              /\ SameNames(s[n + k], g[f + k - 1])
              /\ s[n + k].kind = g[f + k - 1].kind
              /\ s[n + k].complete = (s[n + k].kind = "halt")
  BY <1>7, <1>12
<1> QED
  BY <1>3, <1>10, <1>11, <1>13 DEF s, n, c, f, w, rc, g

\* A cycle without flush puts the renamed group behind what is in flight.
LEMMA CycleExtends ==
  ASSUME IInv, NEW d \in Accepted, NEW done, NEW misp, Cycle(d, done, misp)
  PROVE  Extended(InFlight', d)
<1> DEFINE s == InFlight'
           n == Len(Rest)
           c == Cardinality(GroupLanes(d))
           f == MinOf(GroupLanes(d))
           w == Len(window)
           g == rename_pkt(d, done)
<1>1. /\ w \in Nat /\ n = w + DispatchCount /\ DispatchCount \in Nat /\ Len(s) = n + c
  BY CyclePlaces
<1>2. \A i \in 1 .. n :
        /\ Rest[i] = IF i <= w THEN window[i] ELSE DispatchSeq[i - w]
        /\ s[i] = IF i <= RetireCount THEN window[i]
                  ELSE IF i <= w THEN Written(done, misp)[i]
                  ELSE DispatchSeq[i - w]
  BY CyclePlaces
<1>3. \A k \in 1 .. c :
        f + k - 1 \in GroupLanes(d) /\ SameNames(s[n + k], g[f + k - 1])
  BY CyclePlaces
<1>4. RetireCount \in 0 .. w
  BY RetireCountIs DEF IInv
<1>5. \A i \in 1 .. w : SameNames(Written(done, misp)[i], window[i])
  BY WrittenIs DEF IInv
<1>6. \A l \in GroupLanes(d) :
        /\ g[l].dest_arn = d[l].dest /\ g[l].dest_prn = pr_dest(d, l)
        /\ g[l].dest_prn_prev = IF d[l].dest = 0 THEN 0 ELSE Lookup(d, l, d[l].dest)
  BY RenamedIs
<1> HIDE DEF s, n, c, f, w, g
<1>7. ASSUME NEW i \in 1 .. n PROVE SameNames(s[i], Rest[i])
  <2>1. CASE i <= w /\ ~(i <= RetireCount)
    <3>1. i \in 1 .. w
      BY <1>1, <2>1
    <3> QED
      BY <1>2, <1>5, <2>1, <3>1
  <2>2. CASE i <= RetireCount \/ ~(i <= w)
    <3>1. s[i] = Rest[i]
      BY <1>1, <1>2, <1>4, <2>2
    <3> QED
      BY <3>1 DEF SameNames
  <2> QED
    BY <2>1, <2>2
<1>8. ASSUME NEW k \in 1 .. c
      PROVE  LET l == f + k - 1
             IN  /\ s[n + k].dest_arn = d[l].dest
                 /\ s[n + k].dest_prn = pr_dest(d, l)
                 /\ s[n + k].dest_prn_prev
                      = IF d[l].dest = 0 THEN 0 ELSE Lookup(d, l, d[l].dest)
  BY <1>6, <1>3 DEF SameNames
<1> QED
  BY <1>1, <1>7, <1>8, <1>3 DEF Extended, s, n, c, f

\* What a cycle without flush adds fits in the reorder buffer.
LEMMA CycleRoom ==
  ASSUME IInv, NEW d \in Accepted, NEW done, NEW misp, Cycle(d, done, misp)
  PROVE  Room'
<1> DEFINE c == Cardinality(GroupLanes(d))
<1>1. /\ Len(window) \in Nat /\ DispatchCount \in Nat /\ RetireCount \in 0 .. Len(window)
      /\ Len(window) + DispatchCount <= ROB_DEPTH
  BY RetireCountIs, DispatchIs, LenProperties, Sizes DEF IInv, Shape, Room
<1>2. Len(window') = Len(window) - RetireCount + DispatchCount
  BY CycleWindow
<1>3. DispatchCount' = c
  <2>1. DispatchedGroup'
    BY CycleShape, DispatchedGroupIs, PTL
  <2>2. GroupLanes(pipe_rename_pkt') = GroupLanes(d)
    BY RenamedIs DEF Cycle
  <2> QED
    BY <2>1, <2>2 DEF DispatchedGroup, GroupLanes
<1>4. c \in 0 .. MACHINE_WIDTH
  BY LanesOfGroup, AcceptedIs
<1>5. c = 0 \/ rename_pkt_ready
  <2> SUFFICES ASSUME ~rename_pkt_ready PROVE c = 0
    OBVIOUS
  <2>1. GroupLanes(d) = {}
    BY AcceptedIs DEF GroupLanes
  <2> QED
    BY <2>1, FS_EmptySet
<1>6. rename_pkt_ready =>
        ROB_DEPTH - (Len(window) - RetireCount + DispatchCount) >= MACHINE_WIDTH
  BY DEF rename_pkt_ready
<1> HIDE DEF c
<1>7. Len(window') + c <= ROB_DEPTH
  BY <1>1, <1>2, <1>4, <1>5, <1>6, Sizes
<1> QED
  BY <1>3, <1>7 DEF Room

\* A misprediction is known as long as its branch is in flight.
LEMMA CycleMisp ==
  ASSUME IInv, NEW d \in Accepted, NEW done, NEW misp, Cycle(d, done, misp)
  PROVE  MispKnown'
<1>1. /\ pipe_retire_pkt' \in Seq(Entry) /\ Len(pipe_retire_pkt') = RetireCount
      /\ \A i \in 1 .. RetireCount : pipe_retire_pkt'[i] = window[i]
      /\ window' \in Seq(Entry)
      /\ Len(window') = Len(window) - RetireCount + DispatchCount
      /\ \A i \in 1 .. Len(window') :
           IF i + RetireCount <= Len(window)
             THEN window'[i] = Written(done, misp)[i + RetireCount]
             ELSE window'[i] = DispatchSeq[i + RetireCount - Len(window)]
  BY CycleWindow
<1>2. DOMAIN window' = 1 .. Len(window') /\ DOMAIN pipe_retire_pkt' = 1 .. RetireCount
      /\ DOMAIN window = 1 .. Len(window)
  BY <1>1, LenProperties DEF IInv, Shape
<1>3. branch_misp' = (branch_misp \/ misp # {})
  BY DEF Cycle
<1>4. \A i \in 1 .. Len(window) : window[i].branch_misp => branch_misp
  BY <1>2 DEF IInv, MispKnown
<1>5. RetireCount \in 0 .. Len(window) /\ Len(window) \in Nat /\ DispatchCount \in Nat
  BY RetireCountIs, DispatchIs, LenProperties, Sizes DEF IInv, Shape
<1>6. \A i \in 1 .. RetireCount : pipe_retire_pkt'[i].branch_misp => branch_misp'
  <2> TAKE i \in 1 .. RetireCount
  <2>1. i \in 1 .. Len(window)
    BY <1>5
  <2>2. pipe_retire_pkt'[i] = window[i]
    BY <1>1
  <2>3. pipe_retire_pkt'[i].branch_misp = window[i].branch_misp
    BY <2>2
  <2> QED
    BY <1>3, <1>4, <2>1, <2>3
<1>7. ASSUME NEW i \in 1 .. Len(window'), window'[i].branch_misp
      PROVE  branch_misp'
  <2>1. CASE i + RetireCount <= Len(window)
    <3> DEFINE j == i + RetireCount
    <3>1. j \in 1 .. Len(window)
      BY <1>1, <1>5, <2>1
    <3>2. window'[i] = Written(done, misp)[j]
      BY <1>1, <2>1
    <3> HIDE DEF j
    <3>3. Written(done, misp)[j].branch_misp = (window[j].branch_misp \/ j \in misp)
      BY <3>1, WrittenIs DEF IInv
    <3>4. window[j].branch_misp \/ j \in misp
      BY <1>7, <3>2, <3>3
    <3> QED
      BY <1>3, <1>4, <3>1, <3>4
  <2>2. CASE ~(i + RetireCount <= Len(window))
    <3> DEFINE j == i + RetireCount - Len(window)
    <3>1. j \in 1 .. DispatchCount
      BY <1>1, <1>5, <2>2
    <3>2. window'[i] = DispatchSeq[j]
      BY <1>1, <2>2
    <3> HIDE DEF j
    <3>3. DispatchSeq[j].branch_misp = FALSE
      BY <3>1, DispatchIs DEF IInv
    <3> QED
      BY <1>7, <3>2, <3>3
  <2> QED
    BY <2>1, <2>2
<1> QED
  BY <1>2, <1>6, <1>7 DEF MispKnown

\* A cycle in which instructions are renamed.
LEMMA CycleKeeps ==
  ASSUME IInv, ~recov_arch_st, NEW d \in Accepted, NEW done, NEW misp, Cycle(d, done, misp)
  PROVE  IInv'
<1> DEFINE s == InFlight'
<1>1. Shape' /\ Room' /\ MispKnown'
  BY CycleShape, CycleRoom, CycleMisp
<1>2. /\ recov_arch_st' = FALSE /\ rat' = next_rat(d) /\ arch_rat' = next_arch_rat
      /\ free_list' = free_list_retire_fwd \ Allocated(d)
  BY DEF Cycle, RenameStep
<1>3. NothingInRecovery'
  BY <1>2 DEF NothingInRecovery
<1>4. Extended(s, d)
  BY CycleExtends
<1> HIDE DEF s
<1>5. Consistent(next_arch_rat, s)
  BY <1>4, ExtendedConsistent
<1>6. /\ next_rat(d)[0] = 0
      /\ \A p \in free_list' :
           /\ p # 0
           /\ \A a \in Arn : next_arch_rat[a] # p /\ next_rat(d)[a] # p
           /\ \A i \in 1 .. Len(s) : s[i].dest_prn # p
      /\ \A p \in Prn \ {0} : \/ p \in free_list'
                              \/ \E a \in Arn : next_arch_rat[a] = p
                              \/ \E i \in 1 .. Len(s) : s[i].dest_prn = p
  BY <1>2, <1>4, ExtendedDivides
<1>7. \A a \in Arn \ {0} : Names(next_arch_rat, s, Len(s), a, next_rat(d)[a])
  BY <1>4, LaneNames
<1>8. RatNames'
  BY <1>2, <1>6, <1>7 DEF RatNames, s
<1>9. FreeUnused' /\ Covered'
  BY <1>2, <1>6 DEF FreeUnused, Covered, s
<1>10. Consistent(arch_rat', InFlight')
  BY <1>2, <1>5 DEF s
<1> QED
  BY <1>1, <1>3, <1>8, <1>9, <1>10 DEF IInv

\* Without instructions in flight only the maps have names.
LEMMA NothingNames ==
  ASSUME NEW arch, NEW s, Len(s) = 0
  PROVE  /\ ArchDistinct(arch) => Consistent(arch, s)
         /\ \A a : Names(arch, s, Len(s), a, arch[a])
         /\ \A i \in 1 .. Len(s) : FALSE
BY DEF Consistent, Linked, DestDistinct, Names

\* Nothing enters while the maps are restored.
LEMMA RestoresEmpty ==
  ASSUME IInv, recov_arch_st, NEW d \in Accepted, NEW done, NEW misp, Cycle(d, done, misp)
  PROVE  Len(InFlight') = 0 /\ GroupLanes(d) = {}
<1>1. Extended(InFlight', d) /\ GroupLanes(d) = {}
  BY CycleExtends, AcceptedIs DEF GroupLanes
<1>2. Len(Rest) = 0
  <2>1. InFlightIsSequence /\ Shape
    BY InFlightIs DEF IInv
  <2>2. window = <<>> /\ pipe_rename_pkt = NoGroup
    BY DEF IInv, NothingInRecovery
  <2>3. DispatchCount = 0
    <3>1. {l \in Lane : pipe_rename_pkt[l] # None} = {}
      BY <2>2 DEF NoGroup
    <3> QED
      BY <3>1, FS_EmptySet DEF DispatchCount
  <2>4. Len(Rest) = Len(window) + DispatchCount /\ Len(window) = 0
    BY <2>1, <2>2, RestIs, EmptySeq
  <2> QED
    BY <2>3, <2>4
<1> QED
  BY <1>1, <1>2, FS_EmptySet DEF Extended

\* The cycle in which the maps are restored.
LEMMA CycleRestores ==
  ASSUME IInv, recov_arch_st, NEW d \in Accepted, NEW done, NEW misp, Cycle(d, done, misp)
  PROVE  IInv'
<1> DEFINE s == InFlight'
<1>1. Shape' /\ Room' /\ MispKnown'
  BY CycleShape, CycleRoom, CycleMisp
<1>2. /\ recov_arch_st' = FALSE /\ rat' = arch_rat
      /\ arch_rat' = next_arch_rat
      /\ free_list' = Prn \ {arch_rat[a] : a \in Arn}
  BY DEF Cycle, RenameStep
<1>3. next_arch_rat = arch_rat
  <2>1. DOMAIN pipe_retire_pkt = {}
    BY DEF IInv, NothingInRecovery
  <2>2. arch_rat \in [Arn -> Prn]
    BY DEF IInv, Shape, TypeOK
  <2>3. \A a \in Arn : next_arch_rat[a] = arch_rat[a]
    BY <2>1 DEF next_arch_rat
  <2>4. next_arch_rat = [a \in Arn |-> next_arch_rat[a]]
    BY DEF next_arch_rat
  <2> QED
    BY <2>2, <2>3, <2>4
<1>4. ArchDistinct(arch_rat) /\ arch_rat[0] = 0 /\ 0 \in Arn
  BY Sizes DEF IInv, Consistent, ArchDistinct
<1>5. Len(s) = 0
  BY RestoresEmpty
<1> HIDE DEF s
<1>6. Consistent(arch_rat, s) /\ \A i \in 1 .. Len(s) : FALSE
  BY <1>4, <1>5, NothingNames
<1>7. \A a \in Arn \ {0} : Names(arch_rat, s, Len(s), a, arch_rat[a])
  BY <1>5, NothingNames
<1>8. RatNames'
  BY <1>2, <1>3, <1>4, <1>7 DEF RatNames, s
<1>9. FreeUnused' /\ Covered'
  <2>1. \A p \in free_list' : p # 0 /\ \A a \in Arn : arch_rat[a] # p
    BY <1>2, <1>4
  <2>2. \A p \in Prn \ {0} : p \in free_list' \/ \E a \in Arn : arch_rat[a] = p
    BY <1>2
  <2> QED
    BY <1>2, <1>3, <1>6, <2>1, <2>2 DEF FreeUnused, Covered, s
<1>10. Consistent(arch_rat', InFlight')
  BY <1>2, <1>3, <1>6 DEF s
<1>11. NothingInRecovery'
  BY <1>2 DEF NothingInRecovery
<1> QED
  BY <1>1, <1>8, <1>9, <1>10, <1>11 DEF IInv

\* Nothing is in flight when the three stages are empty.
EmptyStages == window = <<>> /\ pipe_retire_pkt = <<>> /\ pipe_rename_pkt = NoGroup

\* The empty stages have the types, and room.
LEMMA StagesEmpty ==
  EmptyStages => /\ window \in Seq(Entry) /\ pipe_retire_pkt \in Seq(Entry)
                 /\ pipe_rename_pkt \in [Lane -> Renamed \cup {None}]
                 /\ Contiguous(pipe_rename_pkt)
                 /\ \A i \in DOMAIN window : FALSE
                 /\ \A i \in DOMAIN pipe_retire_pkt : FALSE
                 /\ Len(window) = 0 /\ Len(pipe_retire_pkt) = 0 /\ DispatchCount = 0
                 /\ Room /\ MispKnown /\ NothingInRecovery
<1> SUFFICES ASSUME EmptyStages
             PROVE  /\ window \in Seq(Entry) /\ pipe_retire_pkt \in Seq(Entry)
                    /\ pipe_rename_pkt \in [Lane -> Renamed \cup {None}]
                    /\ Contiguous(pipe_rename_pkt)
                    /\ \A i \in DOMAIN window : FALSE
                    /\ \A i \in DOMAIN pipe_retire_pkt : FALSE
                    /\ Len(window) = 0 /\ Len(pipe_retire_pkt) = 0 /\ DispatchCount = 0
                    /\ Room /\ MispKnown /\ NothingInRecovery
  OBVIOUS
<1>1. /\ window \in Seq(Entry) /\ Len(window) = 0
      /\ pipe_retire_pkt \in Seq(Entry) /\ Len(pipe_retire_pkt) = 0
  BY EmptySeq DEF EmptyStages
<1>2. (\A i \in DOMAIN window : FALSE) /\ (\A i \in DOMAIN pipe_retire_pkt : FALSE)
  BY DEF EmptyStages
<1>3. \A l \in Lane : pipe_rename_pkt[l] = None
  BY DEF EmptyStages, NoGroup
<1>4. pipe_rename_pkt \in [Lane -> Renamed \cup {None}]
  BY DEF EmptyStages, NoGroup
<1>5. DispatchCount = 0
  <2>1. {l \in Lane : pipe_rename_pkt[l] # None} = {}
    BY <1>3
  <2> QED
    BY <2>1, FS_EmptySet DEF DispatchCount
<1>6. Room
  BY <1>1, <1>5, Sizes DEF Room
<1>7. MispKnown
  BY <1>2 DEF MispKnown
<1>8. NothingInRecovery
  BY DEF NothingInRecovery, EmptyStages
<1> QED
  BY <1>1, <1>2, <1>3, <1>4, <1>5, <1>6, <1>7, <1>8 DEF Contiguous

\* Then only the maps have names.
LEMMA NothingInFlight ==
  Shape /\ EmptyStages =>
    /\ Len(InFlight) = 0
    /\ ArchDistinct(arch_rat) => Consistent(arch_rat, InFlight)
    /\ \A a \in Arn : Names(arch_rat, InFlight, Len(InFlight), a, arch_rat[a])
    /\ \A i \in 1 .. Len(InFlight) : FALSE
<1> SUFFICES ASSUME Shape, EmptyStages
             PROVE  /\ Len(InFlight) = 0
                    /\ ArchDistinct(arch_rat) => Consistent(arch_rat, InFlight)
                    /\ \A a \in Arn : Names(arch_rat, InFlight, Len(InFlight), a, arch_rat[a])
                    /\ \A i \in 1 .. Len(InFlight) : FALSE
  OBVIOUS
<1>1. Len(InFlight) = 0
  BY InFlightIs, StagesEmpty DEF InFlightIsSequence
<1> QED
  BY <1>1, NothingNames

\* Initially every register is free but register 0, which everything is called.
LEMMA InitIInv == Init => IInv
<1> SUFFICES ASSUME Init PROVE IInv
  OBVIOUS
<1>1. EmptyStages
  BY DEF Init, EmptyStages
<1>2. Shape /\ Room /\ MispKnown /\ NothingInRecovery
  <2>1. /\ rat \in [Arn -> Prn] /\ arch_rat \in [Arn -> Prn]
        /\ free_list \subseteq Prn /\ busy_table \subseteq Prn
        /\ {branch_misp, recov_arch_st, sys_exception} \subseteq BOOLEAN
    BY Sizes DEF Init
  <2>2. 0 <= ROB_DEPTH /\ 0 <= MACHINE_WIDTH
    BY Sizes
  <2> QED
    BY <1>1, <2>1, <2>2, StagesEmpty DEF Shape, TypeOK
<1>3. \A a \in Arn : arch_rat[a] = 0 /\ rat[a] = 0
  BY DEF Init
<1>4. ArchDistinct(arch_rat)
  BY <1>3, Sizes DEF ArchDistinct
<1>5. /\ Consistent(arch_rat, InFlight) /\ \A i \in 1 .. Len(InFlight) : FALSE
      /\ \A a \in Arn : Names(arch_rat, InFlight, Len(InFlight), a, arch_rat[a])
  BY <1>1, <1>2, <1>4, NothingInFlight
<1>6. RatNames
  <2>1. \A a \in Arn : rat[a] = arch_rat[a]
    BY <1>3
  <2> QED
    BY <1>3, <1>5, <2>1, Sizes DEF RatNames
<1>7. free_list = Prn \ {0}
  BY DEF Init
<1>8. FreeUnused /\ Covered
  BY <1>3, <1>5, <1>7 DEF FreeUnused, Covered
<1> QED
  BY <1>2, <1>5, <1>6, <1>8 DEF IInv

\* A flush drops everything in flight; what is free stays free.
LEMMA FlushKeeps ==
  ASSUME IInv, NEW d \in Accepted, NEW done, FlushCycle(d, done)
  PROVE  IInv'
<1>1. /\ EmptyStages' /\ pipe_flush /\ RenameStep(d, done)
      /\ branch_misp' = FALSE /\ sys_exception' = (sys_exception \/ retire_exception)
  BY DEF FlushCycle, EmptyStages
<1>2. ~recov_arch_st
  BY <1>1 DEF IInv, NothingInRecovery, pipe_flush
<1>3. \A l \in Lane : ~HasDest(d, l)
  BY <1>1, AcceptedIs DEF HasDest
<1>4. /\ rat' \in [Arn -> Prn] /\ arch_rat' \in [Arn -> Prn]
      /\ free_list' \in SUBSET Prn /\ busy_table' \in SUBSET Prn
      /\ recov_arch_st' = TRUE
  BY <1>1, RenameStepTypes
<1>5. /\ window' \in Seq(Entry) /\ pipe_retire_pkt' \in Seq(Entry)
      /\ pipe_rename_pkt' \in [Lane -> Renamed \cup {None}]
      /\ Contiguous(pipe_rename_pkt')
      /\ \A i \in DOMAIN window' : FALSE
      /\ \A i \in DOMAIN pipe_retire_pkt' : FALSE
      /\ Len(window') = 0 /\ Len(pipe_retire_pkt') = 0
      /\ Room' /\ MispKnown' /\ NothingInRecovery'
  <2>1. (/\ window \in Seq(Entry) /\ pipe_retire_pkt \in Seq(Entry)
         /\ pipe_rename_pkt \in [Lane -> Renamed \cup {None}]
         /\ Contiguous(pipe_rename_pkt)
         /\ \A i \in DOMAIN window : FALSE
         /\ \A i \in DOMAIN pipe_retire_pkt : FALSE
         /\ Len(window) = 0 /\ Len(pipe_retire_pkt) = 0 /\ DispatchCount = 0
         /\ Room /\ MispKnown /\ NothingInRecovery)'
    BY <1>1, StagesEmpty, PTL
  <2> QED
    BY <2>1 DEF Contiguous
<1>6. {branch_misp', recov_arch_st', sys_exception'} \subseteq BOOLEAN
  <2>1. {sys_exception} \subseteq BOOLEAN
    BY DEF IInv, Shape, TypeOK
  <2>2. sys_exception' \in BOOLEAN
    BY <1>1, <2>1
  <2> QED
    BY <1>1, <1>4, <2>2
<1>7. Shape'
  <2>1. 0 <= ROB_DEPTH /\ 0 <= MACHINE_WIDTH
    BY Sizes
  <2>2. TypeOK'
    BY <1>4, <1>5, <1>6, <2>1 DEF TypeOK
  <2> QED
    BY <1>5, <2>2 DEF Shape, Contiguous
<1>8. rat' = next_rat(d) /\ arch_rat' = next_arch_rat
      /\ free_list' = free_list_retire_fwd \ Allocated(d)
  BY <1>1, <1>2 DEF RenameStep
<1>9. \A a \in Arn : next_rat(d)[a] = rat[a]
  BY <1>3 DEF next_rat
<1>10. ArchDistinct(next_arch_rat)
  BY AfterRetirement DEF Consistent
<1>11. Consistent(arch_rat', InFlight') /\ \A i \in 1 .. Len(InFlight') : FALSE
  <2>1. (/\ Len(InFlight) = 0
         /\ ArchDistinct(arch_rat) => Consistent(arch_rat, InFlight)
         /\ \A a \in Arn : Names(arch_rat, InFlight, Len(InFlight), a, arch_rat[a])
         /\ \A i \in 1 .. Len(InFlight) : FALSE)'
    BY <1>1, <1>7, NothingInFlight, PTL
  <2>2. ArchDistinct(arch_rat')
    BY <1>8, <1>10
  <2> QED
    BY <2>1, <2>2
<1>12. RatNames'
  BY <1>4, <1>8, <1>9, Sizes DEF RatNames, IInv
<1>13. FreeUnused'
  <2>1. \A p \in free_list' : p # 0 /\ \A a \in Arn : next_arch_rat[a] # p /\ rat[a] # p
    BY <1>8, AfterRetirement
  <2> QED
    BY <1>8, <1>9, <1>11, <2>1 DEF FreeUnused
<1>14. Covered'
  BY <1>4 DEF Covered
<1> QED
  BY <1>5, <1>7, <1>11, <1>12, <1>13, <1>14 DEF IInv

\* Every step of the clock keeps the invariant.
LEMMA NextIInv == IInv /\ [Next]_vars => IInv'
<1> SUFFICES ASSUME IInv, [Next]_vars PROVE IInv'
  OBVIOUS
<1>1. ASSUME NEW d \in Accepted, NEW done, NEW misp, Cycle(d, done, misp)
      PROVE  IInv'
  <2>1. CASE recov_arch_st
    BY <1>1, <2>1, CycleRestores
  <2>2. CASE ~recov_arch_st
    BY <1>1, <2>2, CycleKeeps
  <2> QED
    BY <2>1, <2>2
<1>2. ASSUME NEW d \in Accepted, NEW done, FlushCycle(d, done)
      PROVE  IInv'
  BY <1>2, FlushKeeps
<1>3. CASE UNCHANGED vars
  <2>1. /\ rat' = rat /\ arch_rat' = arch_rat /\ free_list' = free_list
        /\ busy_table' = busy_table /\ pipe_rename_pkt' = pipe_rename_pkt
        /\ window' = window /\ pipe_retire_pkt' = pipe_retire_pkt
        /\ branch_misp' = branch_misp /\ recov_arch_st' = recov_arch_st
        /\ sys_exception' = sys_exception
    BY <1>3 DEF vars
  <2>2. InFlight' = InFlight /\ DispatchCount' = DispatchCount
    BY <2>1 DEF InFlight, DispatchSeq, DispatchCount, FirstLane
  <2>3. Shape'
    BY <2>1 DEF IInv, Shape, TypeOK, Contiguous
  <2>4. Room' /\ NothingInRecovery' /\ MispKnown'
    BY <2>1, <2>2 DEF IInv, Room, NothingInRecovery, MispKnown
  <2>5. Consistent(arch_rat', InFlight')
    BY <2>1, <2>2 DEF IInv
  <2>6. RatNames' /\ FreeUnused' /\ Covered'
    BY <2>1, <2>2 DEF IInv, RatNames, FreeUnused, Covered
  <2> QED
    BY <2>3, <2>4, <2>5, <2>6 DEF IInv
<1> QED
  BY <1>1, <1>2, <1>3 DEF Next

---------------------------------------------------------------------------
(* Results *)

\* Only completed instructions retire.
RetiredComplete == \A k \in DOMAIN pipe_retire_pkt : pipe_retire_pkt[k].complete

ResultInv == IInv /\ RetiredComplete /\ BusyExactlyPending

\* The busy registers are those of the instructions left after retirement.
LEMMA BusyIsRest ==
  ASSUME ResultInv, ~recov_arch_st, NEW x, x # 0
  PROVE  x \in busy_table <=> \E i \in 1 .. Len(Rest) : Rest[i].dest_prn = x /\ ~Rest[i].complete
<1> DEFINE r == Len(pipe_retire_pkt)
           n == Len(Rest)
           t == Len(InFlight)
<1>1. InFlightIsSequence
  BY InFlightIs DEF ResultInv, IInv
<1>2. /\ r \in Nat /\ t \in Nat /\ n = t - r /\ n \in Nat
      /\ \A i \in 1 .. n : Rest[i] = InFlight[i + r]
      /\ DOMAIN InFlight = 1 .. t
      /\ \A i \in 1 .. r : InFlight[i] = pipe_retire_pkt[i]
  BY <1>1, RestIs, LenProperties DEF InFlightIsSequence
<1>3. DOMAIN pipe_retire_pkt = 1 .. r
  BY LenProperties DEF ResultInv, IInv, Shape
<1>4. \A i \in 1 .. r : InFlight[i].complete
  BY <1>2, <1>3 DEF ResultInv, RetiredComplete
<1>5. x \in busy_table <=> \E j \in 1 .. t : InFlight[j].dest_prn = x /\ ~InFlight[j].complete
  BY <1>2 DEF ResultInv, BusyExactlyPending
<1> HIDE DEF r, n, t
<1>6. ASSUME NEW i \in 1 .. n PROVE i + r \in 1 .. t
  BY <1>2
<1>7. ASSUME NEW j \in 1 .. t, ~InFlight[j].complete
      PROVE  j - r \in 1 .. n /\ (j - r) + r = j
  <2>1. ~(j \in 1 .. r)
    BY <1>4, <1>7
  <2> QED
    BY <1>2, <2>1
<1>8. ASSUME NEW i \in 1 .. n, Rest[i].dest_prn = x, ~Rest[i].complete
      PROVE  x \in busy_table
  BY <1>2, <1>5, <1>6, <1>8
<1>9. ASSUME NEW j \in 1 .. t, InFlight[j].dest_prn = x, ~InFlight[j].complete
      PROVE  \E i \in 1 .. n : Rest[i].dest_prn = x /\ ~Rest[i].complete
  <2>1. j - r \in 1 .. n /\ Rest[j - r] = InFlight[j]
    BY <1>2, <1>7, <1>9
  <2> QED
    BY <1>9, <2>1
<1> QED
  BY <1>5, <1>8, <1>9 DEF n

\* A cycle completes what the results are for, and nothing else.
LEMMA CycleProgress ==
  ASSUME IInv, NEW d \in Accepted, NEW done \in Completions, NEW misp, Cycle(d, done, misp)
  PROVE  LET s == InFlight'
             n == Len(Rest)
             c == Cardinality(GroupLanes(d))
             f == MinOf(GroupLanes(d))
         IN  /\ \A i \in 1 .. n : /\ s[i].dest_prn = Rest[i].dest_prn
                                  /\ s[i].complete <=> Rest[i].complete \/ i \in done
             /\ \A i \in done : i \in 1 .. n /\ ~Rest[i].complete
             /\ CdbPrn(done) = {Rest[i].dest_prn : i \in done}
             /\ \A k \in 1 .. c : s[n + k].complete <=> d[f + k - 1].kind = "halt"
<1> DEFINE s == InFlight'
           n == Len(Rest)
           c == Cardinality(GroupLanes(d))
           f == MinOf(GroupLanes(d))
           w == Len(window)
           g == rename_pkt(d, done)
<1>1. /\ w \in Nat /\ n = w + DispatchCount /\ DispatchCount \in Nat
      /\ \A i \in 1 .. n :
           /\ Rest[i] = IF i <= w THEN window[i] ELSE DispatchSeq[i - w]
           /\ s[i] = IF i <= RetireCount THEN window[i]
                     ELSE IF i <= w THEN Written(done, misp)[i]
                     ELSE DispatchSeq[i - w]
      /\ \A k \in 1 .. c :
           /\ f + k - 1 \in GroupLanes(d)
           /\ s[n + k].kind = g[f + k - 1].kind
           /\ s[n + k].complete = (s[n + k].kind = "halt")
  BY CyclePlaces
<1>2. RetireCount \in 0 .. w /\ \A i \in 1 .. RetireCount : window[i].complete
  BY RetireCountIs DEF IInv
<1>3. \A i \in 1 .. w : /\ SameNames(Written(done, misp)[i], window[i])
                        /\ Written(done, misp)[i].complete = (window[i].complete \/ i \in done)
  BY WrittenIs DEF IInv
<1>4. \A i \in done : i \in 1 .. w /\ ~window[i].complete
  BY LenProperties DEF Completions, Pending, IInv, Shape
<1>5. \A l \in GroupLanes(d) : g[l].kind = d[l].kind
  BY RenamedIs
<1>6. \A i \in 1 .. n : s[i].dest_prn = Rest[i].dest_prn
  BY CycleExtends DEF Extended, SameNames
<1> HIDE DEF s, n, c, f, w, g
<1>7. \A i \in 1 .. w : i \in 1 .. n /\ i <= w
  BY <1>1
<1>8. \A i \in done : i \in 1 .. n /\ ~Rest[i].complete /\ Rest[i] = window[i]
  BY <1>1, <1>4, <1>7
<1>9. CdbPrn(done) = {Rest[i].dest_prn : i \in done}
  BY <1>8 DEF CdbPrn
<1>10. ASSUME NEW i \in 1 .. n
       PROVE  s[i].complete <=> Rest[i].complete \/ i \in done
  <2>1. CASE i <= RetireCount
    <3>1. i \in 1 .. RetireCount /\ i <= w
      BY <1>1, <1>2, <2>1
    <3>2. s[i] = window[i] /\ Rest[i] = window[i] /\ window[i].complete
      BY <1>1, <1>2, <2>1, <3>1
    <3> QED
      BY <3>2
  <2>2. CASE i <= w /\ ~(i <= RetireCount)
    <3>1. i \in 1 .. w
      BY <1>1, <2>2
    <3>2. s[i] = Written(done, misp)[i] /\ Rest[i] = window[i]
      BY <1>1, <2>2
    <3>3. s[i].complete = (window[i].complete \/ i \in done)
      BY <1>3, <3>1, <3>2
    <3> QED
      BY <3>2, <3>3
  <2>3. CASE ~(i <= w)
    <3>1. s[i] = Rest[i] /\ i \notin done
      BY <1>1, <1>2, <1>4, <2>3
    <3> QED
      BY <3>1
  <2> QED
    BY <2>1, <2>2, <2>3
<1>11. ASSUME NEW k \in 1 .. c
       PROVE  s[n + k].complete <=> d[f + k - 1].kind = "halt"
  <2>1. /\ s[n + k].complete = (s[n + k].kind = "halt")
        /\ s[n + k].kind = d[f + k - 1].kind
    BY <1>1, <1>5
  <2> QED
    BY <2>1
<1> QED
  BY <1>6, <1>8, <1>9, <1>10, <1>11 DEF s, n, c, f

\* What is pending of the instructions that were in flight.
LEMMA StillPending ==
  ASSUME ResultInv, ~recov_arch_st, NEW d \in Accepted, NEW done \in Completions, NEW misp,
         Cycle(d, done, misp), NEW x, x # 0
  PROVE  (\E i \in 1 .. Len(Rest) : InFlight'[i].dest_prn = x /\ ~InFlight'[i].complete)
           <=> x \in busy_table /\ x \notin CdbPrn(done)
<1> DEFINE s == InFlight'
           n == Len(Rest)
<1>1. x \in busy_table <=> \E i \in 1 .. n : Rest[i].dest_prn = x /\ ~Rest[i].complete
  BY BusyIsRest
<1>2. /\ \A i \in 1 .. n : /\ s[i].dest_prn = Rest[i].dest_prn
                           /\ s[i].complete <=> Rest[i].complete \/ i \in done
      /\ \A i \in done : i \in 1 .. n
      /\ CdbPrn(done) = {Rest[i].dest_prn : i \in done}
  BY CycleProgress DEF ResultInv
<1>3. \A i, j \in 1 .. n : Rest[i].dest_prn = Rest[j].dest_prn /\ Rest[i].dest_prn # 0 => i = j
  BY AfterRetirement DEF ResultInv, Consistent, DestDistinct
<1> HIDE DEF s, n
<1>4. ASSUME NEW i \in 1 .. n, s[i].dest_prn = x, ~s[i].complete
      PROVE  x \in busy_table /\ x \notin CdbPrn(done)
  <2>1. Rest[i].dest_prn = x /\ ~Rest[i].complete /\ i \notin done
    BY <1>2, <1>4
  <2>2. \A j \in done : Rest[j].dest_prn # x
    BY <1>2, <1>3, <2>1
  <2> QED
    BY <1>1, <1>2, <2>1, <2>2
<1>5. ASSUME NEW i \in 1 .. n, Rest[i].dest_prn = x, ~Rest[i].complete, x \notin CdbPrn(done)
      PROVE  \E j \in 1 .. n : s[j].dest_prn = x /\ ~s[j].complete
  <2>1. i \notin done
    BY <1>2, <1>5
  <2> QED
    BY <1>2, <1>5, <2>1
<1> QED
  BY <1>1, <1>4, <1>5 DEF s, n

\* What is pending of the group that was renamed.
LEMMA NewPending ==
  ASSUME IInv, NEW d \in Accepted, NEW done \in Completions, NEW misp, Cycle(d, done, misp)
  PROVE  LET s == InFlight'
             n == Len(Rest)
             f == MinOf(GroupLanes(d))
         IN  /\ \A i \in (n + 1) .. Len(s) : s[i].dest_prn # 0 =>
                  /\ ~s[i].complete /\ HasDest(d, f + (i - n) - 1)
                  /\ s[i].dest_prn = free_prn(f + (i - n) - 1)
             /\ \A m \in Lane : HasDest(d, m) =>
                  /\ n + (m - f) + 1 \in (n + 1) .. Len(s)
                  /\ s[n + (m - f) + 1].dest_prn = free_prn(m)
                  /\ ~s[n + (m - f) + 1].complete
<1> DEFINE s == InFlight'
           n == Len(Rest)
           c == Cardinality(GroupLanes(d))
           f == MinOf(GroupLanes(d))
           at(m) == n + (m - f) + 1
<1>1. Extended(s, d)
  BY CycleExtends
<1>2. \A k \in 1 .. c : s[n + k].complete <=> d[f + k - 1].kind = "halt"
  BY CycleProgress
<1> HIDE DEF s
<1>3. /\ n \in Nat /\ Len(s) = n + c /\ c \in 0 .. MACHINE_WIDTH
      /\ \A l \in GroupLanes(d) :
           /\ l \in Lane /\ l \in Nat /\ f \in Nat /\ f <= l /\ l - f < c
           /\ at(l) \in 1 .. Len(s) /\ s[at(l)].dest_prn = pr_dest(d, l)
      /\ \A i \in (n + 1) .. Len(s) :
           /\ f + (i - n) - 1 \in GroupLanes(d) /\ at(f + (i - n) - 1) = i
  BY <1>1, GroupPlaces
<1> HIDE DEF n, c, f
<1>4. ASSUME NEW l \in GroupLanes(d)
      PROVE  /\ l \in Lane /\ at(l) \in (n + 1) .. Len(s)
             /\ s[at(l)].dest_prn = pr_dest(d, l)
             /\ s[at(l)].complete <=> d[l].kind = "halt"
  <2> DEFINE k == (l - f) + 1
  <2>1. l \in Nat /\ f \in Nat /\ f <= l /\ l - f < c /\ c \in Nat
    BY <1>3, Sizes
  <2>2. k \in 1 .. c /\ n + k = at(l) /\ f + k - 1 = l /\ at(l) \in (n + 1) .. Len(s)
    BY <1>3, <2>1
  <2> HIDE DEF k, at
  <2>3. s[at(l)].complete <=> d[l].kind = "halt"
    BY <1>2, <2>2
  <2>4. s[at(l)].dest_prn = pr_dest(d, l) /\ l \in Lane
    BY <1>3
  <2> QED
    BY <2>2, <2>3, <2>4
<1>5. \A l \in Lane : HasDest(d, l) =>
        l \in GroupLanes(d) /\ pr_dest(d, l) = free_prn(l) /\ d[l].kind # "halt"
  BY AcceptedIs, DestinationsGranted DEF HasDest, GroupLanes
<1>6. \A l \in Lane : pr_dest(d, l) # 0 => HasDest(d, l)
  BY DEF pr_dest
<1>7. ASSUME NEW m \in Lane, HasDest(d, m)
      PROVE  /\ at(m) \in (n + 1) .. Len(s)
             /\ s[at(m)].dest_prn = free_prn(m) /\ ~s[at(m)].complete
  <2> HIDE DEF at
  <2> QED
    BY <1>4, <1>5, <1>7
<1>8. ASSUME NEW i \in (n + 1) .. Len(s), s[i].dest_prn # 0
      PROVE  /\ ~s[i].complete /\ HasDest(d, f + (i - n) - 1)
             /\ s[i].dest_prn = free_prn(f + (i - n) - 1)
  <2> DEFINE l == f + (i - n) - 1
  <2>1. l \in GroupLanes(d) /\ at(l) = i
    BY <1>3
  <2> HIDE DEF l, at
  <2>2. HasDest(d, l) /\ l \in Lane
    BY <1>4, <1>6, <1>8, <2>1
  <2>3. ~s[i].complete /\ s[i].dest_prn = free_prn(l)
    BY <1>7, <2>1, <2>2
  <2> QED
    BY <2>2, <2>3 DEF l
<1> QED
  BY <1>7, <1>8 DEF s, n, f

\* The busy table follows a cycle in which instructions are renamed.
LEMMA CycleBusy ==
  ASSUME ResultInv, ~recov_arch_st, NEW d \in Accepted, NEW done \in Completions, NEW misp,
         Cycle(d, done, misp)
  PROVE  BusyExactlyPending'
<1> DEFINE s == InFlight'
           n == Len(Rest)
           f == MinOf(GroupLanes(d))
<1>1. busy_table' = (busy_table \cup Allocated(d)) \ CdbPrn(done)
  BY DEF Cycle, RenameStep
<1>2. \A x : x # 0 =>
        ((\E i \in 1 .. n : s[i].dest_prn = x /\ ~s[i].complete)
           <=> x \in busy_table /\ x \notin CdbPrn(done))
  BY StillPending
<1>3. /\ \A i \in (n + 1) .. Len(s) : s[i].dest_prn # 0 =>
           /\ ~s[i].complete /\ HasDest(d, f + (i - n) - 1)
           /\ s[i].dest_prn = free_prn(f + (i - n) - 1)
      /\ \A m \in Lane : HasDest(d, m) =>
           /\ n + (m - f) + 1 \in (n + 1) .. Len(s)
           /\ s[n + (m - f) + 1].dest_prn = free_prn(m)
           /\ ~s[n + (m - f) + 1].complete
  BY NewPending DEF ResultInv
<1>4. n \in Nat /\ Len(s) \in Nat /\ n <= Len(s) /\ DOMAIN s = 1 .. Len(s)
      /\ \A i \in (n + 1) .. Len(s) : f + (i - n) - 1 \in Lane
  <2>1. Extended(s, d)
    BY CycleExtends DEF ResultInv
  <2>2. DOMAIN s = 1 .. Len(s)
    <3>1. InFlightIsSequence'
      BY CycleShape, InFlightIs, PTL DEF ResultInv
    <3> QED
      BY <3>1, LenProperties DEF InFlightIsSequence
  <2> HIDE DEF s
  <2>3. /\ n \in Nat /\ Len(s) = n + Cardinality(GroupLanes(d))
        /\ Cardinality(GroupLanes(d)) \in 0 .. MACHINE_WIDTH
        /\ \A i \in (n + 1) .. Len(s) : f + (i - n) - 1 \in GroupLanes(d)
        /\ \A l \in GroupLanes(d) : l \in Lane
    BY <2>1, GroupPlaces DEF ResultInv
  <2>4. n \in Nat /\ Len(s) \in Nat /\ n <= Len(s)
    <3> HIDE DEF n
    <3> QED
      BY <2>3, Sizes
  <2> QED
    BY <2>2, <2>3, <2>4
<1>5. \A l \in Lane : HasDest(d, l) => /\ free_prn(l) \in Allocated(d)
                                       /\ free_prn(l) \in free_list_retire_fwd
                                       /\ free_prn(l) # 0
  BY DestinationsGranted DEF Allocated, ResultInv
<1>6. \A p \in Allocated(d) : \E l \in Lane : HasDest(d, l) /\ p = free_prn(l)
  BY DEF Allocated
<1>7. \A p \in CdbPrn(done) : p \notin free_list_retire_fwd
  <2>1. /\ CdbPrn(done) = {Rest[i].dest_prn : i \in done}
        /\ \A i \in done : i \in 1 .. Len(Rest)
    BY CycleProgress DEF ResultInv
  <2>2. \A p \in free_list_retire_fwd : \A i \in 1 .. Len(Rest) : Rest[i].dest_prn # p
    BY AfterRetirement DEF ResultInv
  <2> QED
    BY <2>1, <2>2
<1>8. 0 \notin busy_table
  BY DEF ResultInv, BusyExactlyPending
<1> HIDE DEF s, n, f
<1>9. \A i \in 1 .. n : i \in DOMAIN s
  BY <1>4
<1>10. \A i \in (n + 1) .. Len(s) : i \in DOMAIN s
  BY <1>4
<1>11. \A i \in DOMAIN s : i \in 1 .. n \/ i \in (n + 1) .. Len(s)
  BY <1>4
<1>12. ASSUME NEW x, x \in busy_table'
       PROVE  x # 0 /\ \E i \in DOMAIN s : s[i].dest_prn = x /\ ~s[i].complete
  <2>1. CASE x \in busy_table
    <3>1. x # 0 /\ x \notin CdbPrn(done)
      BY <1>1, <1>8, <1>12, <2>1
    <3>2. \E i \in 1 .. n : s[i].dest_prn = x /\ ~s[i].complete
      BY <1>2, <2>1, <3>1
    <3> QED
      BY <1>9, <3>1, <3>2
  <2>2. CASE x \in Allocated(d)
    <3>1. PICK l \in Lane : HasDest(d, l) /\ x = free_prn(l)
      BY <1>6, <2>2
    <3>2. x # 0
      BY <1>5, <3>1
    <3>3. \E i \in (n + 1) .. Len(s) : s[i].dest_prn = x /\ ~s[i].complete
      BY <1>3, <3>1
    <3> QED
      BY <1>10, <3>2, <3>3
  <2> QED
    BY <1>1, <1>12, <2>1, <2>2
<1>13. ASSUME NEW i \in DOMAIN s, ~s[i].complete, s[i].dest_prn # 0
       PROVE  s[i].dest_prn \in busy_table'
  <2>1. CASE i \in 1 .. n
    <3>1. s[i].dest_prn \in busy_table /\ s[i].dest_prn \notin CdbPrn(done)
      BY <1>2, <1>13, <2>1
    <3> QED
      BY <1>1, <3>1
  <2>2. CASE i \in (n + 1) .. Len(s)
    <3> DEFINE l == f + (i - n) - 1
    <3>1. l \in Lane /\ HasDest(d, l) /\ s[i].dest_prn = free_prn(l)
      BY <1>3, <1>4, <1>13, <2>2
    <3> HIDE DEF l
    <3>2. s[i].dest_prn \in Allocated(d) /\ s[i].dest_prn \notin CdbPrn(done)
      BY <1>5, <1>7, <3>1
    <3> QED
      BY <1>1, <3>2
  <2> QED
    BY <1>11, <2>1, <2>2
<1>14. busy_table' = {s[i].dest_prn : i \in {j \in DOMAIN s : ~s[j].complete}} \ {0}
  BY <1>12, <1>13
<1> QED
  BY <1>14 DEF BusyExactlyPending, s

\* The source of a renamed instruction, the at-th after the retirement map, is
\* called what it is called there, and ready unless that is still to be written.
SourceNames ==
  \A l \in GroupLanes(pipe_rename_pkt) :
    LET p == pipe_rename_pkt[l]
        at == Len(pipe_retire_pkt) + Len(window) + (l - MinOf(GroupLanes(pipe_rename_pkt)))
    IN  /\ IF p.src = 0 THEN p.op1_prn = 0 ELSE Names(arch_rat, InFlight, at, p.src, p.op1_prn)
        /\ p.op1_ready <=> ~\E i \in 1 .. at : /\ InFlight[i].dest_prn = p.op1_prn
                                               /\ p.op1_prn # 0
                                               /\ ~InFlight[i].complete

\* A source is ready exactly when no older instruction in flight is to write it.
LEMMA ReadyIs ==
  ASSUME ResultInv, ~recov_arch_st, NEW d \in Accepted, NEW done \in Completions, NEW misp,
         Cycle(d, done, misp), NEW l \in GroupLanes(d), NEW x
  PROVE  data_ready(d, l, x, done)
           <=> ~\E i \in 1 .. (Len(Rest) + (l - MinOf(GroupLanes(d)))) :
                   /\ InFlight'[i].dest_prn = x
                   /\ x # 0
                   /\ ~InFlight'[i].complete
<1> DEFINE s == InFlight'
           n == Len(Rest)
           f == MinOf(GroupLanes(d))
           at == n + (l - f)
<1>1. x # 0 => ((\E i \in 1 .. n : s[i].dest_prn = x /\ ~s[i].complete)
                  <=> x \in busy_table /\ x \notin CdbPrn(done))
  BY StillPending
<1>2. /\ \A i \in (n + 1) .. Len(s) : s[i].dest_prn # 0 =>
           /\ ~s[i].complete /\ HasDest(d, f + (i - n) - 1)
           /\ s[i].dest_prn = free_prn(f + (i - n) - 1)
      /\ \A m \in Lane : HasDest(d, m) =>
           /\ n + (m - f) + 1 \in (n + 1) .. Len(s)
           /\ s[n + (m - f) + 1].dest_prn = free_prn(m)
           /\ ~s[n + (m - f) + 1].complete
  BY NewPending DEF ResultInv
<1>3. Extended(s, d)
  BY CycleExtends DEF ResultInv
<1> HIDE DEF s
<1>4. /\ n \in Nat /\ Len(s) \in Nat /\ l \in Nat /\ f \in Nat /\ f <= l
      /\ n + (l - f) + 1 \in 1 .. Len(s)
      /\ \A i \in (n + 1) .. Len(s) : f + (i - n) - 1 \in GroupLanes(d)
      /\ \A m \in GroupLanes(d) : m \in Lane /\ m \in Nat
  BY <1>3, GroupPlaces DEF ResultInv
<1>5. \A m \in Lane : HasDest(d, m) =>
        free_prn_valid(m) /\ free_prn(m) # 0 /\ m \in GroupLanes(d)
  BY DestinationsGranted DEF ResultInv, HasDest, GroupLanes
<1>6. 0 \notin busy_table
  BY DEF ResultInv, BusyExactlyPending
<1>7. data_ready(d, l, x, done)
        <=> /\ x \notin busy_table \/ x \in CdbPrn(done)
            /\ \A m \in Lane : ~(m < l /\ HasDest(d, m) /\ free_prn(m) = x)
  BY <1>5 DEF data_ready
<1> HIDE DEF n, f
<1>8. at \in Nat /\ n <= at /\ at < Len(s)
  BY <1>4
<1>9. ASSUME NEW i \in (n + 1) .. at
      PROVE  i \in (n + 1) .. Len(s) /\ f + (i - n) - 1 < l
  BY <1>4, <1>8
<1>10. ASSUME NEW m \in GroupLanes(d), m < l
       PROVE  n + (m - f) + 1 <= at
  <2>1. m \in Nat
    BY <1>4
  <2> QED
    BY <1>4, <1>10, <2>1
<1>11. \A i \in 1 .. at : i \in 1 .. n \/ i \in (n + 1) .. at
  BY <1>4, <1>8
<1>12. \A i \in 1 .. n : i \in 1 .. at
  BY <1>4, <1>8
<1> HIDE DEF at
<1>13. ASSUME NEW i \in 1 .. at, s[i].dest_prn = x, x # 0, ~s[i].complete
       PROVE  ~data_ready(d, l, x, done)
  <2>1. CASE i \in 1 .. n
    BY <1>1, <1>7, <1>13, <2>1
  <2>2. CASE i \in (n + 1) .. at
    <3> DEFINE m == f + (i - n) - 1
    <3>1. i \in (n + 1) .. Len(s) /\ m < l
      BY <1>9, <2>2
    <3>2. m \in Lane
      BY <1>4, <3>1
    <3>3. HasDest(d, m) /\ free_prn(m) = x
      BY <1>2, <1>13, <3>1
    <3> HIDE DEF m
    <3> QED
      BY <1>7, <3>1, <3>2, <3>3
  <2> QED
    BY <1>11, <2>1, <2>2
<1>14. ASSUME ~data_ready(d, l, x, done)
       PROVE  \E i \in 1 .. at : s[i].dest_prn = x /\ x # 0 /\ ~s[i].complete
  <2>1. CASE x \in busy_table /\ x \notin CdbPrn(done)
    BY <1>1, <1>6, <1>12, <2>1
  <2>2. ASSUME NEW m \in Lane, m < l, HasDest(d, m), free_prn(m) = x
        PROVE  \E i \in 1 .. at : s[i].dest_prn = x /\ x # 0 /\ ~s[i].complete
    <3> DEFINE j == n + (m - f) + 1
    <3>1. j \in (n + 1) .. Len(s) /\ s[j].dest_prn = x /\ ~s[j].complete
      BY <1>2, <2>2
    <3>2. j <= at /\ x # 0
      BY <1>5, <1>10, <2>2
    <3> HIDE DEF j
    <3>3. j \in 1 .. at
      BY <1>4, <1>8, <3>1, <3>2
    <3> QED
      BY <3>1, <3>2, <3>3
  <2> QED
    BY <1>7, <1>14, <2>1, <2>2
<1> QED
  BY <1>13, <1>14 DEF s, n, f, at

\* A cycle names the sources of the group it renames.
LEMMA CycleSources ==
  ASSUME ResultInv, ~recov_arch_st, NEW d \in Accepted, NEW done \in Completions, NEW misp,
         Cycle(d, done, misp)
  PROVE  SourceNames'
<1> DEFINE s == InFlight'
           n == Len(Rest)
           f == MinOf(GroupLanes(d))
           g == rename_pkt(d, done)
<1>1. /\ pipe_rename_pkt' = g /\ GroupLanes(g) = GroupLanes(d)
      /\ \A l \in GroupLanes(d) :
           /\ g[l].src = d[l].src /\ g[l].op1_prn = Lookup(d, l, d[l].src)
           /\ g[l].op1_ready = data_ready(d, l, Lookup(d, l, d[l].src), done)
  BY RenamedIs DEF Cycle, ResultInv
<1>2. Len(pipe_retire_pkt') + Len(window') = n
  BY CyclePlaces DEF ResultInv
<1>3. arch_rat' = next_arch_rat
  BY DEF Cycle, RenameStep
<1>4. Extended(s, d)
  BY CycleExtends DEF ResultInv
<1>5. ASSUME NEW l \in GroupLanes(d)
      PROVE  LET p == g[l]
                 at == n + (l - f)
             IN  /\ IF p.src = 0 THEN p.op1_prn = 0
                                 ELSE Names(next_arch_rat, s, at, p.src, p.op1_prn)
                 /\ p.op1_ready <=> ~\E i \in 1 .. at : /\ s[i].dest_prn = p.op1_prn
                                                        /\ p.op1_prn # 0
                                                        /\ ~s[i].complete
  <2> DEFINE x == Lookup(d, l, d[l].src)
             at == n + (l - f)
  <2>1. g[l].src = d[l].src /\ g[l].op1_prn = x /\ g[l].op1_ready = data_ready(d, l, x, done)
    BY <1>1
  <2>2. data_ready(d, l, x, done) <=> ~\E i \in 1 .. at : /\ s[i].dest_prn = x
                                                          /\ x # 0
                                                          /\ ~s[i].complete
    <3> HIDE DEF x
    <3> QED
      BY ReadyIs
  <2>3. CASE d[l].src = 0
    <3>1. l \in 0 .. MACHINE_WIDTH /\ l \in Lane
      BY Sizes DEF GroupLanes, Lane
    <3>2. {m \in Lane : m < l /\ HasDest(d, m) /\ d[m].dest = 0} = {}
      BY DEF HasDest
    <3>3. Lookup(d, l, 0) = rat[0]
      BY <3>2 DEF Lookup
    <3>4. x = 0
      BY <2>3, <3>3 DEF ResultInv, IInv, RatNames
    <3> HIDE DEF g, x, s, n, f
    <3> QED
      BY <2>1, <2>2, <2>3, <3>4
  <2>4. CASE d[l].src # 0
    <3>1. d[l].src \in Arn \ {0}
      BY <2>4, AcceptedIs DEF GroupLanes, ResultInv
    <3> DEFINE a == d[l].src
    <3> HIDE DEF a, s
    <3>2. Names(next_arch_rat, s, n + (l - f), a, Lookup(d, l, a))
      <4>1. a \in Arn \ {0}
        BY <3>1 DEF a
      <4> QED
        BY <1>4, <4>1, LaneNames DEF ResultInv
    <3>3. Names(next_arch_rat, s, at, d[l].src, x)
      BY <3>2 DEF a
    <3> HIDE DEF g, x, n, f, at
    <3>4. (IF g[l].src = 0 THEN g[l].op1_prn = 0
                           ELSE Names(next_arch_rat, s, at, g[l].src, g[l].op1_prn))
      BY <2>1, <2>4, <3>3
    <3>5. g[l].op1_ready <=> ~\E i \in 1 .. at : /\ s[i].dest_prn = g[l].op1_prn
                                                 /\ g[l].op1_prn # 0
                                                 /\ ~s[i].complete
      BY <2>1, <2>2
    <3> QED
      BY <3>4, <3>5 DEF at
  <2> QED
    BY <2>3, <2>4
<1>6. GroupLanes(pipe_rename_pkt') = GroupLanes(d)
  BY <1>1
<1> HIDE DEF g
<1>7. \A l \in GroupLanes(pipe_rename_pkt') :
        LET p == pipe_rename_pkt'[l]
            at == Len(pipe_retire_pkt') + Len(window') + (l - MinOf(GroupLanes(pipe_rename_pkt')))
        IN  /\ IF p.src = 0 THEN p.op1_prn = 0
                            ELSE Names(arch_rat', InFlight', at, p.src, p.op1_prn)
            /\ p.op1_ready <=> ~\E i \in 1 .. at : /\ InFlight'[i].dest_prn = p.op1_prn
                                                   /\ p.op1_prn # 0
                                                   /\ ~InFlight'[i].complete
  BY <1>1, <1>2, <1>3, <1>5, <1>6 DEF s, n, f
<1> QED
  BY <1>7 DEF SourceNames, GroupLanes, Names

---------------------------------------------------------------------------
(* The theorems *)

\* The invariant holds throughout.
LEMMA Inductive == Spec => []IInv
BY InitIInv, NextIInv, PTL DEF Spec

\* A name is what Reads finds.
LEMMA NamesRead ==
  ASSUME NEW s, NEW n \in Nat, NEW a \in Arn \ {0}, NEW p, Names(arch_rat, s, n, a, p)
  PROVE  Reads(s, n + 1, a) = p
<1> DEFINE writers == {j \in 1 .. (n + 1 - 1) : s[j].dest_arn = a}
<1>1. n + 1 - 1 = n
  OBVIOUS
<1>2. writers = {j \in 1 .. n : s[j].dest_arn = a}
  BY <1>1
<1>3. Reads(s, n + 1, a) = IF writers # {} THEN s[MaxOf(writers)].dest_prn ELSE arch_rat[a]
  BY DEF Reads
<1>4. CASE p = arch_rat[a] /\ \A j \in 1 .. n : s[j].dest_arn # a
  <2>1. writers = {}
    BY <1>2, <1>4
  <2> QED
    BY <1>3, <1>4, <2>1
<1>5. ASSUME NEW j \in 1 .. n, s[j].dest_arn = a, p = s[j].dest_prn,
             \A m \in (j + 1) .. n : s[m].dest_arn # a
      PROVE  Reads(s, n + 1, a) = p
  <2>1. j \in writers /\ writers \in SUBSET (0 .. n)
    BY <1>2, <1>5
  <2> DEFINE w == MaxOf(writers)
  <2>2. w \in writers /\ \A y \in writers : y <= w
    <3> HIDE DEF writers
    <3> QED
      BY <2>1, MaxOfIs
  <2>3. w \in 1 .. n /\ s[w].dest_arn = a
    BY <1>2, <2>2
  <2>4. ~(w \in (j + 1) .. n) /\ j <= w
    BY <1>5, <2>1, <2>2, <2>3
  <2>5. w = j
    <3> HIDE DEF w
    <3> QED
      BY <2>3, <2>4
  <2> QED
    BY <1>3, <1>5, <2>1, <2>5
<1> QED
  BY <1>4, <1>5 DEF Names

\* What is shown to be inductive of the maps, the free list and the results.
FullInv == ResultInv /\ SourceNames

\* Nothing is busy and nothing renamed at first.
LEMMA InitFullInv == Init => FullInv
<1> SUFFICES ASSUME Init PROVE FullInv
  OBVIOUS
<1>1. IInv
  BY InitIInv
<1>2. EmptyStages
  BY DEF Init, EmptyStages
<1>3. RetiredComplete
  BY <1>2, StagesEmpty DEF RetiredComplete
<1>4. BusyExactlyPending
  <2>1. Len(InFlight) = 0 /\ InFlight \in Seq(Entry)
    BY <1>1, <1>2, NothingInFlight, InFlightIs DEF IInv, InFlightIsSequence
  <2>2. \A i \in DOMAIN InFlight : FALSE
    BY <2>1, LenProperties
  <2>3. busy_table = {}
    BY DEF Init
  <2> QED
    BY <2>2, <2>3 DEF BusyExactlyPending
<1>5. SourceNames
  BY <1>2 DEF SourceNames, EmptyStages, GroupLanes, NoGroup
<1> QED
  BY <1>1, <1>3, <1>4, <1>5 DEF FullInv, ResultInv

\* Every step of the clock keeps the busy table and the names of sources.
LEMMA NextFullInv == FullInv /\ [Next]_vars => FullInv'
<1> SUFFICES ASSUME FullInv, [Next]_vars PROVE FullInv'
  OBVIOUS
<1>1. IInv'
  BY NextIInv DEF FullInv, ResultInv
<1>2. ASSUME NEW d \in Accepted, NEW done \in Completions, NEW misp, Cycle(d, done, misp)
      PROVE  RetiredComplete'
  <2>1. /\ pipe_retire_pkt' \in Seq(Entry) /\ Len(pipe_retire_pkt') = RetireCount
        /\ \A i \in 1 .. RetireCount : pipe_retire_pkt'[i] = window[i]
    BY <1>2, CycleWindow DEF FullInv, ResultInv
  <2>2. \A i \in 1 .. RetireCount : window[i].complete
    BY RetireCountIs DEF FullInv, ResultInv, IInv
  <2>3. DOMAIN pipe_retire_pkt' = 1 .. RetireCount
    BY <2>1, LenProperties
  <2> QED
    BY <2>1, <2>2, <2>3 DEF RetiredComplete
<1>3. ASSUME NEW d \in Accepted, NEW done \in Completions, NEW misp, Cycle(d, done, misp)
      PROVE  BusyExactlyPending' /\ SourceNames'
  <2>1. CASE ~recov_arch_st
    BY <1>3, <2>1, CycleBusy, CycleSources DEF FullInv
  <2>2. CASE recov_arch_st
    <3>1. Len(InFlight') = 0 /\ GroupLanes(d) = {}
      BY <1>3, <2>2, RestoresEmpty DEF FullInv, ResultInv
    <3>2. \A i \in DOMAIN InFlight' : FALSE
      <4>1. InFlightIsSequence'
        BY <1>1, InFlightIs, PTL DEF IInv
      <4> QED
        BY <3>1, <4>1, LenProperties DEF InFlightIsSequence
    <3>3. busy_table' = {}
      BY <1>3, <2>2 DEF Cycle, RenameStep
    <3>4. GroupLanes(pipe_rename_pkt') = {}
      BY <1>3, <3>1, RenamedIs DEF Cycle, FullInv, ResultInv
    <3>5. BusyExactlyPending'
      BY <3>2, <3>3 DEF BusyExactlyPending
    <3>6. SourceNames'
      BY <3>4 DEF SourceNames, GroupLanes
    <3> QED
      BY <3>5, <3>6
  <2> QED
    BY <2>1, <2>2
<1>4. ASSUME NEW d \in Accepted, NEW done, FlushCycle(d, done)
      PROVE  RetiredComplete' /\ BusyExactlyPending' /\ SourceNames'
  <2>1. /\ pipe_retire_pkt' = <<>> /\ pipe_rename_pkt' = NoGroup /\ recov_arch_st'
    BY <1>4 DEF FlushCycle, RenameStep
  <2> QED
    BY <2>1 DEF RetiredComplete, BusyExactlyPending, SourceNames, GroupLanes, NoGroup
<1>5. CASE UNCHANGED vars
  <2>1. /\ arch_rat' = arch_rat /\ busy_table' = busy_table
        /\ pipe_rename_pkt' = pipe_rename_pkt /\ window' = window
        /\ pipe_retire_pkt' = pipe_retire_pkt /\ recov_arch_st' = recov_arch_st
    BY <1>5 DEF vars
  <2>2. InFlight' = InFlight
    BY <2>1 DEF InFlight, DispatchSeq, DispatchCount, FirstLane
  <2>3. RetiredComplete' /\ BusyExactlyPending'
    BY <2>1, <2>2 DEF FullInv, ResultInv, RetiredComplete, BusyExactlyPending
  <2>4. SourceNames'
    BY <2>1, <2>2 DEF FullInv, SourceNames
  <2> QED
    BY <1>1, <2>3, <2>4 DEF FullInv, ResultInv
<1> QED
  BY <1>1, <1>2, <1>3, <1>4, <1>5 DEF Next, FullInv, ResultInv

\* A lane of the group is as far into the program as there are lanes before it.
LEMMA SourcesAre == IInv /\ SourceNames => SourcesNameTheirWriters
<1> SUFFICES ASSUME IInv, SourceNames PROVE SourcesNameTheirWriters
  OBVIOUS
<1> DEFINE g == pipe_rename_pkt
           f == MinOf(GroupLanes(g))
           base == Len(pipe_retire_pkt) + Len(window)
           Position(l) == base + 1 + Cardinality({m \in Lane : m < l /\ g[m] # None})
<1>1. base \in Nat
  BY LenProperties DEF IInv, Shape
<1>2. arch_rat[0] = 0
  BY DEF IInv, Consistent, ArchDistinct
<1>3. ASSUME NEW l \in Lane, g[l] # None
      PROVE  /\ g[l].op1_prn = Reads(InFlight, Position(l), g[l].src)
             /\ g[l].op1_ready <=> ~\E i \in 1 .. (Position(l) - 1) :
                                       /\ InFlight[i].dest_prn = g[l].op1_prn
                                       /\ g[l].op1_prn # 0
                                       /\ ~InFlight[i].complete
  <2> DEFINE at == base + (l - f)
             before == {m \in Lane : m < l /\ g[m] # None}
  <2>1. l \in GroupLanes(g)
    BY <1>3 DEF GroupLanes
  <2>2. f \in Nat /\ l \in Nat /\ f <= l /\ before = f .. (l - 1)
    <3> DEFINE c == Cardinality(GroupLanes(g))
    <3>1. /\ c \in 0 .. MACHINE_WIDTH /\ c # 0
          /\ f \in Lane /\ GroupLanes(g) = f .. (f + c - 1)
      <4>1. Contiguous(g)
        BY DEF IInv, Shape
      <4>2. /\ c \in 0 .. MACHINE_WIDTH /\ (c = 0 => GroupLanes(g) = {})
            /\ (c > 0 => f \in Lane /\ GroupLanes(g) = f .. (f + c - 1))
        <5> HIDE DEF g
        <5> QED
          BY <4>1, LanesOfGroup
      <4>3. c # 0
        BY <2>1, <4>2
      <4>4. c > 0
        <5> HIDE DEF c
        <5> QED
          BY <4>2, <4>3, Sizes
      <4> QED
        BY <4>2, <4>3, <4>4
    <3>2. before = {m \in GroupLanes(g) : m < l}
      BY DEF GroupLanes
    <3> HIDE DEF c, f, before
    <3>3. f \in Nat /\ c \in Nat /\ l \in f .. (f + c - 1)
      BY <2>1, <3>1, Sizes DEF Lane
    <3> QED
      BY <3>1, <3>2, <3>3
  <2>3. Cardinality(before) = l - f
    <3>1. Cardinality(f .. (l - 1)) = l - f
      <4> HIDE DEF f
      <4>1. f \in Int /\ l - 1 \in Int
        BY <2>2
      <4>2. Cardinality(f .. (l - 1)) = IF f > l - 1 THEN 0 ELSE (l - 1) - f + 1
        BY <4>1, FS_Interval
      <4> QED
        BY <2>2, <4>2
    <3> QED
      BY <2>2, <3>1
  <2>4. Position(l) = base + 1 + Cardinality(before)
    OBVIOUS
  <2>5. Position(l) = at + 1 /\ at \in Nat /\ Position(l) - 1 = at
    <3> HIDE DEF base, f, before, Position
    <3> QED
      BY <1>1, <2>2, <2>3, <2>4
  <2>6. /\ IF g[l].src = 0 THEN g[l].op1_prn = 0
                           ELSE Names(arch_rat, InFlight, at, g[l].src, g[l].op1_prn)
        /\ g[l].op1_ready <=> ~\E i \in 1 .. at : /\ InFlight[i].dest_prn = g[l].op1_prn
                                                  /\ g[l].op1_prn # 0
                                                  /\ ~InFlight[i].complete
    BY <2>1 DEF SourceNames
  <2>7. g[l].src \in Arn
    BY <1>3 DEF IInv, Shape, TypeOK, Renamed
  <2>8. g[l].op1_prn = Reads(InFlight, at + 1, g[l].src)
    <3> DEFINE a == g[l].src
               p == g[l].op1_prn
    <3>1. CASE a = 0
      BY <1>2, <2>6, <3>1 DEF Reads
    <3>2. CASE a # 0
      <4>1. a \in Arn \ {0} /\ Names(arch_rat, InFlight, at, a, p)
        BY <2>6, <2>7, <3>2
      <4> HIDE DEF a, p, at
      <4>2. Reads(InFlight, at + 1, a) = p
        BY <2>5, <4>1, NamesRead
      <4> QED
        BY <4>2 DEF a, p
    <3> QED
      BY <3>1, <3>2
  <2> HIDE DEF Position, at, g
  <2> QED
    BY <2>5, <2>6, <2>8
<1> QED
  BY <1>3 DEF SourcesNameTheirWriters

\* What the invariant says of the registers in use.
LEMMA LiveIs ==
  ASSUME IInv
  PROVE  /\ Live \in SUBSET Prn
         /\ \A p \in Live \ {0} : \/ \E a \in Arn : arch_rat[a] = p \/ rat[a] = p
                                  \/ \E i \in 1 .. Len(InFlight) : InFlight[i].dest_prn = p
         /\ \A a \in Arn : arch_rat[a] \in Live
         /\ \A i \in 1 .. Len(InFlight) : InFlight[i].dest_prn \in Live
<1>1. InFlightIsSequence
  BY InFlightIs DEF IInv
<1>2. /\ DOMAIN InFlight = 1 .. Len(InFlight) /\ Len(InFlight) \in Nat
      /\ \A i \in 1 .. Len(InFlight) : InFlight[i] \in Entry
      /\ Len(pipe_retire_pkt) \in Nat
  BY <1>1, LenProperties, ElementOfSeq DEF InFlightIsSequence
<1>3. \A i \in (Len(pipe_retire_pkt) + 1) .. Len(InFlight) : i \in 1 .. Len(InFlight)
  BY <1>2
<1>4. \A i \in 1 .. Len(InFlight) : /\ InFlight[i].dest_prn \in Prn
                                    /\ InFlight[i].dest_prn_prev \in Prn
                                    /\ InFlight[i].dest_arn \in Arn
  BY <1>2 DEF Entry
<1>5. Live \in SUBSET Prn
  BY <1>2, <1>3, <1>4 DEF Live, IInv, Shape, TypeOK
<1>6. ASSUME NEW i \in 1 .. Len(InFlight), InFlight[i].dest_prn_prev # 0
      PROVE  \/ \E a \in Arn : arch_rat[a] = InFlight[i].dest_prn_prev
             \/ \E j \in 1 .. Len(InFlight) : InFlight[j].dest_prn = InFlight[i].dest_prn_prev
  <2>1. Names(arch_rat, InFlight, i - 1, InFlight[i].dest_arn, InFlight[i].dest_prn_prev)
    BY <1>6 DEF IInv, Consistent, Linked
  <2>2. InFlight[i].dest_arn \in Arn
    BY <1>4
  <2>3. \A j \in 1 .. (i - 1) : j \in 1 .. Len(InFlight)
    BY <1>2
  <2> QED
    BY <2>1, <2>2, <2>3 DEF Names
<1>7. \A p \in Live \ {0} : \/ \E a \in Arn : arch_rat[a] = p \/ rat[a] = p
                            \/ \E i \in 1 .. Len(InFlight) : InFlight[i].dest_prn = p
  <2> TAKE p \in Live \ {0}
  <2>1. CASE p \in {rat[a] : a \in Arn} \cup {arch_rat[a] : a \in Arn}
    BY <2>1
  <2>2. CASE p \in {InFlight[i].dest_prn : i \in DOMAIN InFlight}
    BY <1>2, <2>2
  <2>3. CASE p \in {InFlight[i].dest_prn_prev :
                      i \in (Len(pipe_retire_pkt) + 1) .. Len(InFlight)}
    <3>1. PICK i \in 1 .. Len(InFlight) : p = InFlight[i].dest_prn_prev
      BY <1>3, <2>3
    <3> QED
      BY <1>6, <3>1
  <2> QED
    BY <2>1, <2>2, <2>3 DEF Live
<1>8. /\ \A a \in Arn : arch_rat[a] \in Live
      /\ \A i \in 1 .. Len(InFlight) : InFlight[i].dest_prn \in Live
  BY <1>2 DEF Live
<1> QED
  BY <1>5, <1>7, <1>8

\* What holds in every reachable state, by name.
LEMMA IInvImplies ==
  IInv => /\ TypeOK /\ NoLiveRegisterFree /\ DestinationsDistinct
          /\ NoRegisterLeak /\ FreeListSuffices /\ RatIsProgramOrder
<1> SUFFICES ASSUME IInv
             PROVE  /\ TypeOK /\ NoLiveRegisterFree
                    /\ DestinationsDistinct /\ NoRegisterLeak /\ FreeListSuffices
                    /\ RatIsProgramOrder
  OBVIOUS
<1>1. TypeOK
  BY DEF IInv, Shape
<1>2. arch_rat[0] = 0 /\ rat[0] = 0 /\ 0 \notin free_list
  BY DEF IInv, Consistent, ArchDistinct, RatNames, FreeUnused
<1>3. ZeroRegisterFixed
  BY <1>2 DEF ZeroRegisterFixed
<1>4. NoLiveRegisterFree
  <2>1. ASSUME NEW p \in free_list, p \in Live PROVE FALSE
    BY <2>1, LiveIs DEF IInv, FreeUnused
  <2> QED
    BY <2>1 DEF NoLiveRegisterFree
<1>5. DestinationsDistinct
  <2>1. DOMAIN InFlight = 1 .. Len(InFlight)
    BY InFlightIs, LenProperties DEF IInv, InFlightIsSequence
  <2> QED
    BY <2>1 DEF DestinationsDistinct, IInv, Consistent, DestDistinct
<1>6. NoRegisterLeak
  <2> SUFFICES ASSUME ~recov_arch_st PROVE Prn = free_list_retire_fwd \cup Live \cup {0}
    BY DEF NoRegisterLeak
  <2>1. free_list_retire_fwd \in SUBSET Prn /\ Live \in SUBSET Prn /\ 0 \in Prn
    BY AfterRetirement, LiveIs, Sizes
  <2>2. \A p \in Prn \ {0} : p \in free_list \/ p \in Live
    BY LiveIs DEF IInv, Covered
  <2>3. free_list \in SUBSET free_list_retire_fwd
    BY DEF free_list_retire_fwd
  <2> QED
    BY <2>1, <2>2, <2>3
<1>7. FreeListSuffices
  BY Suffices DEF FreeListSuffices
<1>8. RatIsProgramOrder
  <2> SUFFICES ASSUME ~recov_arch_st, NEW a \in Arn
               PROVE  rat[a] = Reads(InFlight, Len(InFlight) + 1, a)
    BY <1>3 DEF RatIsProgramOrder
  <2>1. CASE a = 0
    BY <1>2, <2>1 DEF Reads
  <2>2. CASE a # 0
    <3>1. Names(arch_rat, InFlight, Len(InFlight), a, rat[a])
      BY <2>2 DEF IInv, RatNames
    <3>2. Len(InFlight) \in Nat
      BY InFlightIs, LenProperties DEF IInv, InFlightIsSequence
    <3> QED
      BY <2>2, <3>1, <3>2, NamesRead
  <2> QED
    BY <2>1, <2>2
<1> QED
  BY <1>1, <1>4, <1>5, <1>6, <1>7, <1>8

\* The larger one as well.
LEMMA FullInductive == Spec => []FullInv
BY InitFullInv, NextFullInv, PTL DEF Spec

\* The state keeps its types.
THEOREM RenameTypes == Spec => []TypeOK
BY Inductive, IInvImplies, PTL

\* No register that is still to be read or written is given out again.
THEOREM NothingLiveIsFree == Spec => []NoLiveRegisterFree
BY Inductive, IInvImplies, PTL

\* No two instructions in flight write the same register.
THEOREM DestinationsStayDistinct == Spec => []DestinationsDistinct
BY Inductive, IInvImplies, PTL

\* No register is lost by retirement, misprediction or flush.
THEOREM NoRegisterIsLost == Spec => []NoRegisterLeak
BY Inductive, IInvImplies, PTL

\* The grants rat.sv takes without a check exist.
THEOREM FreeRegistersSuffice == Spec => []FreeListSuffices
BY Inductive, IInvImplies, PTL

\* The speculative map is the program's; x0 is never renamed, and register 0
\* never given out: the assertion of rat.sv.
THEOREM MapFollowsProgram == Spec => []RatIsProgramOrder
BY Inductive, IInvImplies, PTL

\* A result marks its register ready, and nothing else does.
THEOREM BusyTableIsExact == Spec => []BusyExactlyPending
BY FullInductive, PTL DEF FullInv, ResultInv

\* Every source is that of the program, and ready when it has been written.
THEOREM SourcesFollowProgram == Spec => []SourcesNameTheirWriters
<1>1. FullInv => SourcesNameTheirWriters
  BY SourcesAre DEF FullInv, ResultInv
<1> QED
  BY <1>1, FullInductive, PTL
============================================================================
