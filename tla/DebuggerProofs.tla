--------------------------- MODULE DebuggerProofs ---------------------------
(***************************************************************************)
(* The debugger, for every length of the ring, every set of register       *)
(* lines, every length of program and of its reset, and all times the user *)
(* may ask for: the ring holds the latest dumps, each whole, whenever a    *)
(* key can be pressed; the two processes never wait for each other; and    *)
(* the keys walk the ring edge by edge.                                    *)
(***************************************************************************)
EXTENDS VisualDebugger, PselGenTheorems

---------------------------------------------------------------------------
(* Slots of the ring *)

\* Division with remainder.
LEMMA Remainder ==
  ASSUME NEW N \in Nat \ {0}, NEW a \in Nat
  PROVE  /\ a % N \in 0 .. (N - 1)
         /\ a \div N \in Nat
         /\ a = (N * (a \div N)) + (a % N)
<1>1. a % N \in 0 .. (N - 1)
  OBVIOUS
<1>2. a \div N \in Nat
  OBVIOUS
<1>3. a = (N * (a \div N)) + (a % N)
  OBVIOUS
<1> QED
  BY <1>1, <1>2, <1>3

\* There is only one remainder.
LEMMA RemainderUnique ==
  ASSUME NEW N \in Nat \ {0}, NEW p \in Int, NEW q \in Int,
         NEW r \in 0 .. (N - 1), NEW s \in 0 .. (N - 1), (N * p) + r = (N * q) + s
  PROVE  p = q /\ r = s
<1>1. N * (p - q) = s - r
  OBVIOUS
<1>2. p - q >= 1 => N * (p - q) >= N
  OBVIOUS
<1>3. p - q <= -1 => N * (p - q) <= -N
  OBVIOUS
<1> QED
  BY <1>1, <1>2, <1>3

\* The slot after a slot.
LEMMA NextSlot ==
  ASSUME NEW N \in Nat \ {0}, NEW a \in Nat
  PROVE  (a + 1) % N = IF a % N = N - 1 THEN 0 ELSE (a % N) + 1
<1> DEFINE p == (a + 1) \div N
           q == a \div N
           r == (a + 1) % N
           s == a % N
<1>0. a + 1 \in Nat
  OBVIOUS
<1>1. r \in 0 .. (N - 1) /\ p \in Nat /\ a + 1 = (N * p) + r
  BY <1>0, Remainder
<1>2. s \in 0 .. (N - 1) /\ q \in Nat /\ a = (N * q) + s
  BY Remainder
<1> HIDE DEF p, q, r, s
<1>3. CASE s = N - 1
  <2>1. N * (q + 1) = (N * q) + N
    BY <1>2
  <2>2. (N * p) + r = (N * (q + 1)) + 0
    BY <1>1, <1>2, <1>3, <2>1
  <2>3. r = 0
    BY <1>1, <1>2, <2>2, RemainderUnique
  <2> QED
    BY <1>3, <2>3 DEF r, s
<1>4. CASE s # N - 1
  <2>1. (N * p) + r = (N * q) + (s + 1) /\ s + 1 \in 0 .. (N - 1)
    BY <1>1, <1>2, <1>4
  <2>2. r = s + 1
    BY <1>1, <1>2, <2>1, RemainderUnique
  <2> QED
    BY <1>4, <2>2 DEF r, s
<1> QED
  BY <1>3, <1>4

\* Two edges in one slot are at least the length of the ring apart.
LEMMA SameSlot ==
  ASSUME NEW N \in Nat \ {0}, NEW a \in Nat, NEW b \in Nat, a < b, a % N = b % N
  PROVE  b >= a + N
<1> DEFINE p == a \div N
           q == b \div N
           r == a % N
<1>1. r \in 0 .. (N - 1) /\ p \in Nat /\ a = (N * p) + r
  BY Remainder
<1>2. q \in Nat /\ b = (N * q) + r
  BY Remainder
<1> HIDE DEF p, q, r
<1>3. N * (q - p) = b - a
  BY <1>1, <1>2
<1>4. q - p >= 1
  <2>1. q - p <= 0 => N * (q - p) <= 0
    BY <1>1, <1>2
  <2> QED
    BY <1>1, <1>2, <1>3, <2>1
<1>5. N * (q - p) >= N
  BY <1>1, <1>2, <1>4
<1> QED
  BY <1>3, <1>5

\* One round of the ring ends in the same slot.
LEMMA OneRound ==
  ASSUME NEW N \in Nat \ {0}, NEW a \in Nat
  PROVE  (a + N) % N = a % N
<1> DEFINE p == a \div N
           q == (a + N) \div N
           r == a % N
           s == (a + N) % N
<1>1. r \in 0 .. (N - 1) /\ p \in Nat /\ a = (N * p) + r
  BY Remainder
<1>0. a + N \in Nat
  OBVIOUS
<1>2. s \in 0 .. (N - 1) /\ q \in Nat /\ a + N = (N * q) + s
  BY <1>0, Remainder
<1> HIDE DEF p, q, r, s
<1>3. N * (p + 1) = (N * p) + N
  BY <1>1
<1>4. (N * q) + s = (N * (p + 1)) + r
  BY <1>1, <1>2, <1>3
<1>5. r = s
  BY <1>1, <1>2, <1>4, RemainderUnique
<1> QED
  BY <1>5 DEF r, s

\* Numbers below the length of the ring are slots.
LEMMA FirstRound ==
  ASSUME NEW N \in Nat \ {0}, NEW a \in 0 .. (N - 1)
  PROVE  a % N = a
  OBVIOUS

\* The greatest of a set of numbers.
LEMMA MaxIs ==
  ASSUME NEW S, NEW m \in Int, S \subseteq Int, m \in S, \A x \in S : x <= m
  PROVE  Max(S) = m
<1> DEFINE c == CHOOSE x \in S : \A y \in S : x >= y
<1>1. \E x \in S : \A y \in S : x >= y
  OBVIOUS
<1>2. c \in S /\ \A y \in S : c >= y
  BY <1>1, Zenon
<1>3. Max(S) = c
  BY DEF Max
<1> HIDE DEF c
<1>4. c \in Int /\ c <= m /\ c >= m
  BY <1>2
<1> QED
  BY <1>3, <1>4

---------------------------------------------------------------------------
(* What a slot should hold *)

\* The last of the first n edges that is put into slot k.
LatestOf(n, k) ==
  LET held == {e \in 0 .. (n - 1) : e % NUM_HISTORY = k}
  IN  IF held = {} THEN None ELSE Max(held)

\* The ring has slots.
LEMMA RingLength ==
  /\ NUM_HISTORY \in Nat \ {0} /\ NUM_HISTORY > 1
  /\ \A n \in Nat : n % NUM_HISTORY \in Slot
  /\ 0 \in Slot
<1>1. NUM_HISTORY \in Nat \ {0} /\ NUM_HISTORY > 1
  BY VisualAssumption
<1>2. \A n \in Nat : n % NUM_HISTORY \in Slot
  BY <1>1, Remainder DEF Slot
<1> QED
  BY <1>1, <1>2 DEF Slot

\* The edge a slot should hold is one of the last NUM_HISTORY that belongs
\* there, and there is only one.
LEMMA LatestIs ==
  ASSUME NEW n \in Nat, NEW e \in 0 .. (n - 1), e + NUM_HISTORY >= n
  PROVE  LatestOf(n, e % NUM_HISTORY) = e
<1> DEFINE held == {d \in 0 .. (n - 1) : d % NUM_HISTORY = e % NUM_HISTORY}
<1>1. NUM_HISTORY \in Nat \ {0}
  BY RingLength
<1>2. ASSUME NEW d \in held PROVE d <= e
  <2>1. d \in Nat /\ e \in Nat /\ d < n /\ d % NUM_HISTORY = e % NUM_HISTORY
    OBVIOUS
  <2>2. e < d => d >= e + NUM_HISTORY
    BY <1>1, <2>1, SameSlot
  <2> QED
    BY <1>1, <2>1, <2>2
<1>3. held \subseteq Int /\ e \in held /\ e \in Int
  OBVIOUS
<1>4. LatestOf(n, e % NUM_HISTORY) = IF held = {} THEN None ELSE Max(held)
  BY DEF LatestOf
<1> HIDE DEF held
<1> QED
  BY <1>2, <1>3, <1>4, MaxIs

\* A slot for which there is no edge yet holds nothing.
LEMMA LatestNone ==
  ASSUME NEW n \in Nat, NEW k, \A e \in 0 .. (n - 1) : e % NUM_HISTORY # k
  PROVE  LatestOf(n, k) = None
  BY DEF LatestOf

\* If there is an edge for the slot, there is one of the last NUM_HISTORY.
LEMMA LatestFound ==
  ASSUME NEW n \in Nat, NEW k
  PROVE  \/ LatestOf(n, k) = None /\ \A e \in 0 .. (n - 1) : e % NUM_HISTORY # k
         \/ /\ LatestOf(n, k) \in 0 .. (n - 1)
            /\ LatestOf(n, k) % NUM_HISTORY = k
            /\ LatestOf(n, k) + NUM_HISTORY >= n
<1> DEFINE held == {e \in 0 .. (n - 1) : e % NUM_HISTORY = k}
           ages == {a \in 0 .. (n - 1) : (n - 1) - a \in held}
<1>1. CASE held = {}
  BY <1>1, LatestNone
<1>2. CASE held # {}
  <2>1. NUM_HISTORY \in Nat \ {0}
    BY RingLength
  <2>2. ages \in SUBSET Nat /\ ages # {}
    <3>1. PICK e \in held : TRUE
      BY <1>2
    <3>2. (n - 1) - e \in 0 .. (n - 1) /\ (n - 1) - ((n - 1) - e) = e
      OBVIOUS
    <3>3. (n - 1) - e \in ages
      BY <3>2
    <3>4. ages \subseteq Nat
      OBVIOUS
    <3> HIDE DEF ages
    <3> QED
      BY <3>3, <3>4
  <2>3. PICK a \in ages : \A b \in ages : a <= b
    <3> HIDE DEF ages
    <3> QED
      BY <2>2, LeastElement
  <2> DEFINE e == (n - 1) - a
  <2>4. e \in held /\ e \in 0 .. (n - 1) /\ e % NUM_HISTORY = k /\ a = (n - 1) - e
    OBVIOUS
  <2> HIDE DEF e
  <2>5. e + NUM_HISTORY >= n
    <3>1. SUFFICES ASSUME e + NUM_HISTORY < n PROVE FALSE
      BY <2>1, <2>4
    <3>2. (e + NUM_HISTORY) % NUM_HISTORY = k
      <4>1. e \in Nat
        BY <2>4
      <4> QED
        BY <2>1, <2>4, <4>1, OneRound
    <3>3. e + NUM_HISTORY \in held
      BY <2>1, <2>4, <3>1, <3>2
    <3>4. (n - 1) - (e + NUM_HISTORY) \in 0 .. (n - 1) /\ (n - 1) - ((n - 1) - (e + NUM_HISTORY)) = e + NUM_HISTORY
      BY <2>1, <2>4, <3>1
    <3>5. (n - 1) - (e + NUM_HISTORY) \in ages
      BY <3>3, <3>4
    <3>6. a <= (n - 1) - (e + NUM_HISTORY)
      BY <2>3, <3>5
    <3> QED
      BY <2>1, <2>4, <3>6
  <2>6. LatestOf(n, k) = e
    BY <2>4, <2>5, LatestIs
  <2> QED
    BY <2>4, <2>5, <2>6
<1> QED
  BY <1>1, <1>2

\* The next edge is put into its slot, and into no other.
LEMMA LatestNext ==
  ASSUME NEW n \in Nat, NEW k
  PROVE  LatestOf(n + 1, k) = IF k = n % NUM_HISTORY THEN n ELSE LatestOf(n, k)
<1>1. NUM_HISTORY \in Nat \ {0}
  BY RingLength
<1>2. CASE k = n % NUM_HISTORY
  <2>1. LatestOf(n + 1, n % NUM_HISTORY) = n
    BY <1>1, LatestIs
  <2> QED
    BY <1>2, <2>1
<1>3. CASE k # n % NUM_HISTORY
  <2>1. {e \in 0 .. ((n + 1) - 1) : e % NUM_HISTORY = k} = {e \in 0 .. (n - 1) : e % NUM_HISTORY = k}
    BY <1>3
  <2> QED
    BY <1>3, <2>1 DEF LatestOf
<1> QED
  BY <1>2, <1>3

---------------------------------------------------------------------------
(* What is left of a dump, and of the lines that end the program *)

\* What a line can be about.
Kind == Singles \cup {"f", "g", "d", "h", "e", "i", "m", "j", "w", "v"} \cup {"break", "DONE", ""}

\* The lines of a dump and of the end of the program, in their order.
DumpKinds == <<"c", "t", "z", "a", "p">> \o GroupLines \o <<"break">>
DoneKinds == <<"", "DONE", "">>
DumpLen == 6 + Len(GroupLines)

\* The lines of edge e after the first t.
Left(kinds, t, e) == [j \in 1 .. (Len(kinds) - t) |-> [kind |-> kinds[t + j], edge |-> e]]

\* How often a pipe says that a dump is complete.
BreaksIn(s) == Cardinality({n \in DOMAIN s : s[n].kind = "break"})

\* The kinds of the lines.
LEMMA Kinds ==
  /\ Len(GroupLines) \in Nat /\ DOMAIN GroupLines = 1 .. Len(GroupLines)
  /\ DumpKinds \in Seq(Kind) /\ Len(DumpKinds) = DumpLen
  /\ \A n \in 1 .. 5 : DumpKinds[n] = <<"c", "t", "z", "a", "p">>[n]
  /\ \A n \in 6 .. (DumpLen - 1) : n - 5 \in DOMAIN GroupLines /\ DumpKinds[n] = GroupLines[n - 5]
  /\ DumpKinds[DumpLen] = "break"
  /\ DoneKinds \in Seq(Kind) /\ Len(DoneKinds) = 3
<1> DEFINE five == <<"c", "t", "z", "a", "p">>
           last == <<"break">>
<1>1. GroupLines \in Seq(Kind)
  BY VisualAssumption, SeqMonotonic DEF Kind
<1>2. five \in Seq(Kind) /\ Len(five) = 5 /\ last \in Seq(Kind) /\ Len(last) = 1 /\ last[1] = "break"
  BY DEF Kind, Singles
<1>3. Len(GroupLines) \in Nat /\ DOMAIN GroupLines = 1 .. Len(GroupLines)
  BY <1>1, LenProperties
<1> DEFINE front == five \o GroupLines
<1>4. front \in Seq(Kind) /\ Len(front) = 5 + Len(GroupLines)
      /\ \A n \in 1 .. (5 + Len(GroupLines)) : front[n] = IF n <= 5 THEN five[n] ELSE GroupLines[n - 5]
  <2> HIDE DEF five
  <2>1. /\ five \o GroupLines \in Seq(Kind)
        /\ Len(five \o GroupLines) = Len(five) + Len(GroupLines)
        /\ \A n \in 1 .. Len(five) + Len(GroupLines) :
             (five \o GroupLines)[n] = IF n <= Len(five) THEN five[n] ELSE GroupLines[n - Len(five)]
    BY <1>1, <1>2, ConcatProperties
  <2> HIDE DEF front
  <2>2. front = five \o GroupLines
    BY DEF front
  <2> QED
    BY <1>2, <2>1, <2>2
<1>5. DumpKinds = front \o last
  BY DEF DumpKinds
<1> HIDE DEF front, last, five
<1>6. DumpKinds \in Seq(Kind) /\ Len(DumpKinds) = (5 + Len(GroupLines)) + 1
      /\ \A n \in 1 .. ((5 + Len(GroupLines)) + 1) :
           DumpKinds[n] = IF n <= 5 + Len(GroupLines) THEN front[n] ELSE last[n - (5 + Len(GroupLines))]
  <2>1. /\ front \o last \in Seq(Kind)
        /\ Len(front \o last) = Len(front) + Len(last)
        /\ \A n \in 1 .. Len(front) + Len(last) :
             (front \o last)[n] = IF n <= Len(front) THEN front[n] ELSE last[n - Len(front)]
    BY <1>2, <1>4, ConcatProperties
  <2>2. Len(front) = 5 + Len(GroupLines) /\ Len(last) = 1
    BY <1>2, <1>4
  <2> QED
    BY <1>5, <2>1, <2>2
<1>7. Len(DumpKinds) = DumpLen /\ DumpLen \in Nat /\ DumpLen = (5 + Len(GroupLines)) + 1
  BY <1>3, <1>6 DEF DumpLen
<1>8. DumpKinds[DumpLen] = "break"
  <2>1. DumpLen \in 1 .. ((5 + Len(GroupLines)) + 1) /\ ~ (DumpLen <= 5 + Len(GroupLines))
        /\ DumpLen - (5 + Len(GroupLines)) = 1
    BY <1>3, <1>7
  <2> QED
    BY <1>2, <1>6, <2>1
<1>9. \A n \in 1 .. 5 : DumpKinds[n] = five[n]
  <2> SUFFICES ASSUME NEW n \in 1 .. 5 PROVE DumpKinds[n] = five[n]
    OBVIOUS
  <2>1. n \in 1 .. ((5 + Len(GroupLines)) + 1) /\ n <= 5 + Len(GroupLines)
        /\ n \in 1 .. (5 + Len(GroupLines)) /\ n <= 5
    BY <1>3
  <2> QED
    BY <1>4, <1>6, <2>1
<1>10. \A n \in 6 .. (DumpLen - 1) : n - 5 \in DOMAIN GroupLines /\ DumpKinds[n] = GroupLines[n - 5]
  <2> SUFFICES ASSUME NEW n \in 6 .. (DumpLen - 1)
               PROVE  n - 5 \in DOMAIN GroupLines /\ DumpKinds[n] = GroupLines[n - 5]
    OBVIOUS
  <2>1. n \in 1 .. ((5 + Len(GroupLines)) + 1) /\ n <= 5 + Len(GroupLines)
        /\ n \in 1 .. (5 + Len(GroupLines)) /\ ~ (n <= 5) /\ n - 5 \in 1 .. Len(GroupLines)
    BY <1>3, <1>7
  <2> QED
    BY <1>3, <1>4, <1>6, <2>1
<1>11. DoneKinds \in Seq(Kind) /\ Len(DoneKinds) = 3
  BY DEF DoneKinds, Kind
<1> QED
  BY <1>3, <1>6, <1>7, <1>8, <1>9, <1>10, <1>11 DEF five

\* What is left is a sequence of lines.
LEMMA LeftTypes ==
  ASSUME NEW kinds \in Seq(Kind), NEW t \in 0 .. Len(kinds), NEW e \in Nat
  PROVE  /\ Left(kinds, t, e) \in Seq([kind : Kind, edge : Nat])
         /\ Len(Left(kinds, t, e)) = Len(kinds) - t
         /\ DOMAIN Left(kinds, t, e) = 1 .. (Len(kinds) - t)
         /\ \A j \in 1 .. (Len(kinds) - t) : Left(kinds, t, e)[j] = [kind |-> kinds[t + j], edge |-> e]
<1> DEFINE n == Len(kinds) - t
           s == Left(kinds, t, e)
<1>1. n \in Nat /\ Len(kinds) \in Nat /\ t \in Nat
  OBVIOUS
<1>2. s \in [1 .. n -> [kind : Kind, edge : Nat]]
  <2>1. ASSUME NEW j \in 1 .. n PROVE kinds[t + j] \in Kind
    <3>1. t + j \in 1 .. Len(kinds)
      BY <1>1
    <3> QED
      BY <3>1, ElementOfSeq
  <2> QED
    BY <2>1 DEF Left
<1>3. s \in Seq([kind : Kind, edge : Nat]) /\ Len(s) = n
  <2> HIDE DEF s, n
  <2> QED
    BY <1>1, <1>2, LengthIs
<1>4. DOMAIN s = 1 .. n /\ \A j \in 1 .. n : s[j] = [kind |-> kinds[t + j], edge |-> e]
  BY DEF Left
<1> QED
  BY <1>3, <1>4

\* Reading takes one line after the other.
LEMMA LeftShape ==
  ASSUME NEW kinds \in Seq(Kind), NEW t \in 0 .. Len(kinds), NEW e \in Nat
  PROVE  /\ Left(kinds, t, e) = <<>> <=> t = Len(kinds)
         /\ t < Len(kinds) =>
              /\ Head(Left(kinds, t, e)).kind = kinds[t + 1]
              /\ Head(Left(kinds, t, e)).edge = e
              /\ Tail(Left(kinds, t, e)) = Left(kinds, t + 1, e)
<1> DEFINE n == Len(kinds) - t
           Item == [kind : Kind, edge : Nat]
           s == Left(kinds, t, e)
           u == Left(kinds, t + 1, e)
<1>1. n \in Nat /\ Len(kinds) \in Nat /\ t \in Nat
  OBVIOUS
<1>2. s \in Seq(Item) /\ Len(s) = n /\ \A j \in 1 .. n : s[j] = [kind |-> kinds[t + j], edge |-> e]
  BY LeftTypes
<1>3. s = <<>> <=> t = Len(kinds)
  <2> HIDE DEF s, Item
  <2>1. s = <<>> => Len(s) = 0
    OBVIOUS
  <2>2. s # <<>> => Len(s) # 0
    BY <1>2, EmptySeq
  <2> QED
    BY <1>1, <1>2, <2>1, <2>2
<1>4. ASSUME t < Len(kinds)
      PROVE  /\ Head(s).kind = kinds[t + 1]
             /\ Head(s).edge = e
             /\ Tail(s) = u
  <2>1. s # <<>> /\ 1 \in 1 .. n
    BY <1>1, <1>3, <1>4
  <2>2. t + 1 \in 0 .. Len(kinds) /\ Len(kinds) - (t + 1) = n - 1
    BY <1>1, <1>4
  <2>3. u \in Seq(Item) /\ Len(u) = n - 1
        /\ \A j \in 1 .. (n - 1) : u[j] = [kind |-> kinds[(t + 1) + j], edge |-> e]
    <3>1. /\ u \in Seq(Item) /\ Len(u) = Len(kinds) - (t + 1)
          /\ \A j \in 1 .. (Len(kinds) - (t + 1)) : u[j] = [kind |-> kinds[(t + 1) + j], edge |-> e]
      <4>1. ASSUME NEW x \in 0 .. Len(kinds)
            PROVE  /\ Left(kinds, x, e) \in Seq([kind : Kind, edge : Nat])
                   /\ Len(Left(kinds, x, e)) = Len(kinds) - x
                   /\ \A j \in 1 .. (Len(kinds) - x) : Left(kinds, x, e)[j] = [kind |-> kinds[x + j], edge |-> e]
        BY LeftTypes
      <4> QED
        BY <2>2, <4>1
    <3> QED
      BY <2>2, <3>1
  <2> HIDE DEF s, u, n, Item
  <2>4. Head(s) = s[1] /\ s[1] = [kind |-> kinds[t + 1], edge |-> e]
    BY <1>2, <2>1
  <2>5. Tail(s) \in Seq(Item) /\ Len(Tail(s)) = n - 1 /\ \A j \in 1 .. (n - 1) : Tail(s)[j] = s[j + 1]
    BY <1>2, <2>1, HeadTailProperties
  <2>6. ASSUME NEW j \in 1 .. (n - 1) PROVE Tail(s)[j] = u[j]
    <3>1. j + 1 \in 1 .. n /\ t + (j + 1) = (t + 1) + j
      BY <1>1
    <3> QED
      BY <1>2, <2>3, <2>5, <3>1
  <2>7. Tail(s) = u
    BY <2>3, <2>5, <2>6, SeqEqual
  <2> QED
    BY <2>4, <2>7
<1> QED
  BY <1>3, <1>4

\* Only the last line of a dump ends it; nothing ends one elsewhere.
LEMMA BreaksLeft ==
  /\ BreaksIn(<<>>) = 0
  /\ \A e \in Nat : /\ \A t \in 0 .. (DumpLen - 1) : BreaksIn(Left(DumpKinds, t, e)) = 1
                    /\ \A t \in 0 .. 3 : BreaksIn(Left(DoneKinds, t, e)) = 0
<1>1. BreaksIn(<<>>) = 0
  BY FS_EmptySet DEF BreaksIn
<1>2. ASSUME NEW e \in Nat, NEW t \in 0 .. (DumpLen - 1)
      PROVE  BreaksIn(Left(DumpKinds, t, e)) = 1
  <2> DEFINE s == Left(DumpKinds, t, e)
  <2>1. Len(GroupLines) \in Nat /\ DumpLen \in Nat /\ DumpKinds \in Seq(Kind) /\ Len(DumpKinds) = DumpLen
    BY Kinds DEF DumpLen
  <2>2. DOMAIN s = 1 .. (DumpLen - t)
    BY <2>1 DEF Left
  <2>3. \A n \in 1 .. (DumpLen - t) : s[n].kind = DumpKinds[t + n]
    BY <2>1 DEF Left
  <2>4. ASSUME NEW n \in 1 .. (DumpLen - 1) PROVE DumpKinds[n] # "break"
    <3>1. CASE n <= 5
      <4>1. n \in 1 .. 5
        BY <3>1
      <4> QED
        BY <4>1, Kinds
    <3>2. CASE n > 5
      <4>1. n \in 6 .. (DumpLen - 1)
        BY <3>2
      <4>2. DumpKinds[n] \in {"f", "g", "d", "h", "e", "i", "m", "j", "w", "v"}
        <5>1. n - 5 \in 1 .. Len(GroupLines) /\ DumpKinds[n] = GroupLines[n - 5]
          BY <4>1, Kinds
        <5> QED
          BY <5>1, ElementOfSeq, VisualAssumption
      <4> QED
        BY <4>2
    <3> QED
      BY <3>1, <3>2
  <2>5. ASSUME NEW n \in 1 .. (DumpLen - t) PROVE s[n].kind = "break" <=> n = DumpLen - t
    <3>1. t + n \in 1 .. DumpLen /\ (n = DumpLen - t <=> t + n = DumpLen)
      BY <2>1
    <3>2. DumpKinds[DumpLen] = "break"
      BY Kinds
    <3>3. t + n # DumpLen => t + n \in 1 .. (DumpLen - 1)
      BY <2>1, <3>1
    <3> QED
      BY <2>3, <2>4, <3>1, <3>2, <3>3
  <2>6. DumpLen - t \in 1 .. (DumpLen - t)
    BY <2>1
  <2> HIDE DEF s
  <2>7. {n \in DOMAIN s : s[n].kind = "break"} = {DumpLen - t}
    BY <2>2, <2>5, <2>6
  <2> QED
    BY <2>7, FS_Singleton DEF BreaksIn, s
<1>3. ASSUME NEW e \in Nat, NEW t \in 0 .. 3
      PROVE  BreaksIn(Left(DoneKinds, t, e)) = 0
  <2> DEFINE s == Left(DoneKinds, t, e)
  <2>1. DOMAIN s = 1 .. (3 - t)
    BY Kinds DEF Left
  <2>2. ASSUME NEW n \in 1 .. (3 - t) PROVE s[n].kind # "break"
    <3>1. t + n \in 1 .. 3 /\ Len(DoneKinds) = 3
      BY Kinds
    <3>2. s[n].kind = DoneKinds[t + n]
      BY <3>1 DEF Left
    <3>3. DoneKinds[1] = "" /\ DoneKinds[2] = "DONE" /\ DoneKinds[3] = ""
      BY DEF DoneKinds
    <3>4. t + n = 1 \/ t + n = 2 \/ t + n = 3
      BY <3>1
    <3> QED
      BY <3>2, <3>3, <3>4
  <2> HIDE DEF s
  <2>3. {n \in DOMAIN s : s[n].kind = "break"} = {}
    BY <2>1, <2>2
  <2> QED
    BY <2>3, FS_EmptySet DEF BreaksIn, s
<1> QED
  BY <1>1, <1>2, <1>3

---------------------------------------------------------------------------
(* The places a dump fills *)

\* Where the registers of a group are among the register lines.
RegisterLines(g) == {m \in DOMAIN GroupLines : GroupLines[m] = g}

\* Registers of group g before register line m.
Seen(g, m) == Below(m, RegisterLines(g))

\* The place that line n fills, and those the first t lines fill.
PlaceOf(n) == IF n <= 5 THEN <<DumpKinds[n], 0>> ELSE <<DumpKinds[n], Seen(DumpKinds[n], n - 5)>>
Filled(t) == {PlaceOf(n) : n \in 1 .. t}
FilledRegisters(t) == {PlaceOf(n) : n \in 6 .. t}

\* The registers of a group have the ranks of their lines as numbers.
LEMMA GroupRanks ==
  /\ \A g, m : RegisterLines(g) \in SUBSET (0 .. ((Len(GroupLines) + 1) - 1)) /\ Seen(g, m) \in Nat
  /\ \A g : num_regs(g) = Cardinality(RegisterLines(g)) /\ num_regs(g) \in Nat
  /\ \A m \in DOMAIN GroupLines : GroupLines[m] \in Groups /\ m \in RegisterLines(GroupLines[m])
  /\ \A g : \A m \in RegisterLines(g) : m \in DOMAIN GroupLines /\ GroupLines[m] = g /\ Seen(g, m) \in 0 .. (num_regs(g) - 1)
  /\ \A g : \A k \in 0 .. (num_regs(g) - 1) : \E m \in RegisterLines(g) : Seen(g, m) = k
<1>1. Len(GroupLines) + 1 \in Nat /\ DOMAIN GroupLines = 1 .. Len(GroupLines) /\ Len(GroupLines) \in Nat
  BY Kinds
<1>2. \A g : RegisterLines(g) \in SUBSET (0 .. ((Len(GroupLines) + 1) - 1))
  BY <1>1 DEF RegisterLines
<1>3. \A g : num_regs(g) = Cardinality(RegisterLines(g))
  BY DEF num_regs, RegisterLines
<1>4. ASSUME NEW g
      PROVE  /\ Cardinality(RegisterLines(g)) \in Nat
             /\ \A m : Seen(g, m) \in Nat
             /\ \A m \in RegisterLines(g) : Seen(g, m) \in 0 .. (Cardinality(RegisterLines(g)) - 1)
             /\ \A k \in 0 .. (Cardinality(RegisterLines(g)) - 1) : \E m \in RegisterLines(g) : Seen(g, m) = k
  <2> DEFINE S == RegisterLines(g)
  <2>1. S \in SUBSET (0 .. ((Len(GroupLines) + 1) - 1))
    BY <1>2
  <2> HIDE DEF S
  <2>2. IsFiniteSet(S) /\ Cardinality(S) \in Nat
    BY <1>1, <2>1, RequestsFinite
  <2>3. \A m : Below(m, S) \in Nat
    <3> SUFFICES ASSUME NEW m PROVE Below(m, S) \in Nat
      OBVIOUS
    <3>1. IsFiniteSet({q \in S : q < m})
      BY <2>2, FS_Subset
    <3> QED
      BY <3>1, FS_CardinalityType DEF Below
  <2>4. \A m \in S : Below(m, S) \in 0 .. (Cardinality(S) - 1)
    BY <1>1, <2>1, BelowIncreases
  <2>5. \A k \in 0 .. (Cardinality(S) - 1) : \E m \in S : Below(m, S) = k
    BY <1>1, <2>1, EveryRankOccurs
  <2> QED
    BY <2>2, <2>3, <2>4, <2>5 DEF S, Seen
<1>5. \A m \in DOMAIN GroupLines : GroupLines[m] \in Groups /\ m \in RegisterLines(GroupLines[m])
  BY DEF Groups, RegisterLines
<1>6. \A g : \A m \in RegisterLines(g) : m \in DOMAIN GroupLines /\ GroupLines[m] = g
  BY DEF RegisterLines
<1> QED
  BY <1>2, <1>3, <1>4, <1>5, <1>6

\* A register line is one more register of its group, and of no other.
LEMMA SeenNext ==
  /\ \A g : \A m \in Int : m <= 1 => Seen(g, m) = 0
  /\ \A g : \A m \in DOMAIN GroupLines :
       Seen(g, m + 1) = IF GroupLines[m] = g THEN Seen(g, m) + 1 ELSE Seen(g, m)
<1>1. Len(GroupLines) + 1 \in Nat /\ DOMAIN GroupLines = 1 .. Len(GroupLines) /\ Len(GroupLines) \in Nat
  BY Kinds
<1>2. ASSUME NEW g, NEW m \in Int, m <= 1 PROVE Seen(g, m) = 0
  <2>1. {q \in RegisterLines(g) : q < m} = {}
    BY <1>1, <1>2 DEF RegisterLines
  <2> QED
    BY <2>1, FS_EmptySet DEF Seen, Below
<1>3. ASSUME NEW g, NEW m \in DOMAIN GroupLines
      PROVE  Seen(g, m + 1) = IF GroupLines[m] = g THEN Seen(g, m) + 1 ELSE Seen(g, m)
  <2> DEFINE S == RegisterLines(g)
             lower == {q \in S : q < m}
  <2>1. S \in SUBSET (0 .. ((Len(GroupLines) + 1) - 1)) /\ (m \in S <=> GroupLines[m] = g) /\ m \in Nat
    BY <1>1, GroupRanks DEF RegisterLines
  <2> HIDE DEF S
  <2>2. IsFiniteSet(lower) /\ m \notin lower
    <3>1. IsFiniteSet(S)
      BY <1>1, <2>1, RequestsFinite
    <3> QED
      BY <2>1, <3>1, FS_Subset
  <2>3. {q \in S : q < m + 1} = IF m \in S THEN lower \cup {m} ELSE lower
    <3>1. \A q \in S : q < m + 1 <=> (q < m \/ q = m)
      BY <1>1, <2>1
    <3> QED
      BY <3>1
  <2>4. Cardinality(lower \cup {m}) = Cardinality(lower) + 1
    BY <2>2, FS_AddElement
  <2> QED
    BY <2>1, <2>3, <2>4 DEF Seen, Below, S
<1> QED
  BY <1>2, <1>3

\* A dump fills every place, its register lines every register.
LEMMA DumpFills ==
  /\ \A n \in 1 .. 5 : PlaceOf(n) = <<DumpKinds[n], 0>> /\ DumpKinds[n] \in Singles /\ PlaceOf(n) \in Place
  /\ \A n \in 6 .. (DumpLen - 1) :
       /\ DumpKinds[n] \in Groups /\ PlaceOf(n) = <<DumpKinds[n], Seen(DumpKinds[n], n - 5)>>
       /\ PlaceOf(n) \in Registers /\ PlaceOf(n) \in Place
  /\ FilledRegisters(DumpLen - 1) = Registers
  /\ Filled(DumpLen - 1) = Place
<1>1. Len(GroupLines) \in Nat /\ DOMAIN GroupLines = 1 .. Len(GroupLines) /\ DumpLen = 6 + Len(GroupLines)
  BY Kinds DEF DumpLen
<1>2. ASSUME NEW n \in 1 .. 5
      PROVE  PlaceOf(n) = <<DumpKinds[n], 0>> /\ DumpKinds[n] \in Singles /\ PlaceOf(n) \in Place
  <2>1. PlaceOf(n) = <<DumpKinds[n], 0>>
    BY DEF PlaceOf
  <2>2. DumpKinds[n] = <<"c", "t", "z", "a", "p">>[n]
    BY Kinds
  <2>3. DumpKinds[n] \in Singles
    <3>1. n = 1 \/ n = 2 \/ n = 3 \/ n = 4 \/ n = 5
      OBVIOUS
    <3> QED
      BY <2>2, <3>1 DEF Singles
  <2> QED
    BY <2>1, <2>3 DEF Place
<1>3. ASSUME NEW n \in 6 .. (DumpLen - 1)
      PROVE  /\ DumpKinds[n] \in Groups /\ PlaceOf(n) = <<DumpKinds[n], Seen(DumpKinds[n], n - 5)>>
             /\ PlaceOf(n) \in Registers /\ PlaceOf(n) \in Place
  <2> DEFINE g == DumpKinds[n]
  <2>1. n - 5 \in DOMAIN GroupLines /\ g = GroupLines[n - 5] /\ ~ (n <= 5)
    BY <1>1, Kinds
  <2>2. g \in Groups /\ Seen(g, n - 5) \in 0 .. (num_regs(g) - 1)
    BY <2>1, GroupRanks
  <2>3. PlaceOf(n) = <<g, Seen(g, n - 5)>>
    BY <2>1 DEF PlaceOf
  <2> HIDE DEF g
  <2>4. <<g, Seen(g, n - 5)>> \in Registers
    BY <2>2 DEF Registers
  <2> QED
    BY <2>2, <2>3, <2>4 DEF Place, g
<1>4. ASSUME NEW p \in Registers PROVE \E n \in 6 .. (DumpLen - 1) : PlaceOf(n) = p
  <2>1. PICK g \in Groups : p \in {g} \X (0 .. (num_regs(g) - 1))
    BY DEF Registers
  <2>2. PICK k \in 0 .. (num_regs(g) - 1) : p = <<g, k>>
    BY <2>1
  <2>3. PICK m \in RegisterLines(g) : Seen(g, m) = k
    BY GroupRanks
  <2>4. m \in 1 .. Len(GroupLines) /\ GroupLines[m] = g
    BY <1>1, <2>3, GroupRanks
  <2>5. m + 5 \in 6 .. (DumpLen - 1) /\ (m + 5) - 5 = m
    BY <1>1, <2>4
  <2>6. DumpKinds[m + 5] = g
    <3>1. DumpKinds[m + 5] = GroupLines[(m + 5) - 5]
      BY <2>5, Kinds
    <3> QED
      BY <2>4, <2>5, <3>1
  <2>7. PlaceOf(m + 5) = p
    BY <1>3, <2>2, <2>3, <2>5, <2>6
  <2> QED
    BY <2>5, <2>7
<1>5. ASSUME NEW s \in Singles PROVE \E n \in 1 .. 5 : PlaceOf(n) = <<s, 0>>
  <2>1. PlaceOf(1) = <<"c", 0>> /\ PlaceOf(2) = <<"t", 0>> /\ PlaceOf(3) = <<"z", 0>>
        /\ PlaceOf(4) = <<"a", 0>> /\ PlaceOf(5) = <<"p", 0>>
    BY Kinds DEF PlaceOf
  <2> QED
    BY <2>1 DEF Singles
<1>6. FilledRegisters(DumpLen - 1) = Registers
  BY <1>3, <1>4 DEF FilledRegisters
<1>7. Filled(DumpLen - 1) \subseteq Place
  <2> SUFFICES ASSUME NEW n \in 1 .. (DumpLen - 1) PROVE PlaceOf(n) \in Place
    BY DEF Filled
  <2>1. n \in 1 .. 5 \/ n \in 6 .. (DumpLen - 1)
    BY <1>1
  <2> QED
    BY <1>2, <1>3, <2>1
<1>8. Place \subseteq Filled(DumpLen - 1)
  <2> SUFFICES ASSUME NEW p \in Place PROVE \E n \in 1 .. (DumpLen - 1) : PlaceOf(n) = p
    BY DEF Filled
  <2>1. CASE p \in Registers
    <3>1. \A n \in 6 .. (DumpLen - 1) : n \in 1 .. (DumpLen - 1)
      BY <1>1
    <3> QED
      BY <1>4, <2>1, <3>1
  <2>2. CASE p \in Singles \X {0}
    <3>1. PICK s \in Singles : p = <<s, 0>>
      BY <2>2
    <3>2. \A n \in 1 .. 5 : n \in 1 .. (DumpLen - 1)
      BY <1>1
    <3> QED
      BY <1>5, <3>1, <3>2
  <2> QED
    BY <2>1, <2>2 DEF Place
<1> QED
  BY <1>2, <1>3, <1>6, <1>7, <1>8

---------------------------------------------------------------------------
(* The invariant *)

\* How many lines of the current dump the child has read.
Taken == IF sim = "wait" /\ stdout # <<>> THEN DumpLen - Len(stdout) ELSE 0

\* The child is alive.
Watching == child \in {"top", "keys"}

\* Types of what a line changes.
Types ==
  /\ edge \in Nat
  /\ sim \in {"run", "wait", "halted", "exited"}
  /\ child \in {"top", "keys", "exited", "crashed"}
  /\ history \in [Slot -> [Place -> Nat \cup {None}]]
  /\ history_num \in Slot
  /\ reg_num \in [Groups -> Nat]
  /\ setup_registers \in BOOLEAN /\ done_received \in BOOLEAN /\ time_wrapped \in BOOLEAN

\* The two processes take turns.
Turns ==
  \/ sim = "run" /\ replies = <<>> /\ stdout = <<>> /\ ~done_received
  \/ sim = "wait" /\ replies = <<"n">> /\ stdout = <<>> /\ ~done_received
  \/ /\ sim = "wait" /\ replies = <<>> /\ ~done_received /\ edge >= 1
     /\ \E t \in 0 .. (DumpLen - 1) : stdout = Left(DumpKinds, t, edge - 1) /\ (child = "keys" => t = 0)
  \/ /\ sim = "halted" /\ replies = <<>>
     /\ \E t \in 0 .. 2 : stdout = Left(DoneKinds, t, edge) /\ (done_received <=> t = 2)

\* After 'q' the simulation finds the reply that ends it, at once or after the
\* reply the child has sent before.
Quits ==
  /\ BreaksIn(stdout) \in {0, 1}
  /\ replies \in {<<>>, <<"Z">>, <<"n", "Z">>}
  /\ replies = <<"n", "Z">> => sim = "wait"

\* The child is lost when a program ends at slot 0.
Lost ==
  /\ sim = "halted" /\ replies = <<>> /\ BreaksIn(stdout) = 0
  /\ done_received /\ history_num = 0

Pipes ==
  /\ Watching => Turns
  /\ child = "exited" => Quits
  /\ child = "crashed" => Lost

\* Every slot holds its latest dump, and the slot being filled the lines that
\* have been read of the next one.
Ring ==
  Watching =>
    /\ \A k \in Slot, p \in Place :
         history[k][p] = IF k = Complete % NUM_HISTORY /\ p \in Filled(Taken) THEN Complete
                         ELSE LatestOf(Complete, k)
    /\ ~done_received => history_num = Complete % NUM_HISTORY
    /\ \A g \in Groups : reg_num[g] = Seen(g, Taken - 4)
    /\ allocated = IF setup_registers THEN Registers ELSE FilledRegisters(Taken)
    /\ Complete >= NUM_HISTORY => time_wrapped

\* While the user may press any key, the slot shown is on the screen.
Views ==
  /\ hist_num_temp \in Slot /\ running \in BOOLEAN
  /\ echo_data = IF running THEN 0 ELSE 1
  /\ child = "keys" /\ ~running => screen.sample = history[hist_num_temp]
  /\ screen.clock \in {None, screen.cur_clock_val}

DInv == Types /\ Pipes /\ Ring

---------------------------------------------------------------------------
(* The pipes *)

\* The end of a dump is the edge before the one that is printed next.
LEMMA CompleteIs ==
  /\ Complete = edge - BreaksIn(stdout)
  /\ \A k : Latest(k) = LatestOf(Complete, k)
<1>1. Complete = edge - BreaksIn(stdout)
  BY DEF Complete, BreaksIn
<1>2. \A k : Latest(k) = LatestOf(Complete, k)
  BY DEF Latest, LatestOf
<1> QED
  BY <1>1, <1>2

\* How long the two are.
LEMMA DumpSizes ==
  /\ DumpLen \in Nat /\ DumpLen >= 6 /\ DumpKinds \in Seq(Kind) /\ Len(DumpKinds) = DumpLen
  /\ DoneKinds \in Seq(Kind) /\ Len(DoneKinds) = 3
<1>1. Len(GroupLines) \in Nat /\ DumpKinds \in Seq(Kind) /\ Len(DumpKinds) = DumpLen
      /\ DoneKinds \in Seq(Kind) /\ Len(DoneKinds) = 3
  BY Kinds
<1>2. DumpLen \in Nat /\ DumpLen >= 6
  BY <1>1 DEF DumpLen
<1> QED
  BY <1>1, <1>2

\* A dump is on its way, or the end of the program, or nothing is.
LEMMA PipesHold ==
  ASSUME Types, Turns
  PROVE  \/ /\ stdout = <<>> /\ Complete = edge /\ Taken = 0 /\ ~done_received
            /\ \/ sim = "run" /\ replies = <<>>
               \/ sim = "wait" /\ replies = <<"n">>
         \/ /\ sim = "wait" /\ replies = <<>> /\ ~done_received /\ edge >= 1 /\ Complete = edge - 1
            /\ Taken \in 0 .. (DumpLen - 1) /\ stdout = Left(DumpKinds, Taken, edge - 1)
            /\ child = "keys" => Taken = 0
         \/ /\ sim = "halted" /\ replies = <<>> /\ Complete = edge /\ Taken = 0
            /\ \E t \in 0 .. 2 : stdout = Left(DoneKinds, t, edge) /\ (done_received <=> t = 2)
<1>1. edge \in Nat /\ DumpLen \in Nat /\ DumpKinds \in Seq(Kind) /\ Len(DumpKinds) = DumpLen
  BY Kinds DEF Types, DumpLen
<1>2. CASE /\ stdout = <<>> /\ ~done_received
           /\ \/ sim = "run" /\ replies = <<>>
              \/ sim = "wait" /\ replies = <<"n">>
  <2>1. Complete = edge
    BY <1>1, <1>2, CompleteIs, BreaksLeft
  <2>2. Taken = 0
    BY <1>2 DEF Taken
  <2> QED
    BY <1>2, <2>1, <2>2
<1>3. CASE /\ sim = "wait" /\ replies = <<>> /\ ~done_received /\ edge >= 1
           /\ \E t \in 0 .. (DumpLen - 1) : stdout = Left(DumpKinds, t, edge - 1) /\ (child = "keys" => t = 0)
  <2>1. PICK t \in 0 .. (DumpLen - 1) : stdout = Left(DumpKinds, t, edge - 1) /\ (child = "keys" => t = 0)
    BY <1>3
  <2>2. edge - 1 \in Nat /\ t \in 0 .. Len(DumpKinds) /\ t # Len(DumpKinds)
    BY <1>1, <1>3
  <2>3. BreaksIn(stdout) = 1
    BY <2>1, <2>2, BreaksLeft
  <2>4. Len(stdout) = DumpLen - t /\ stdout # <<>>
    <3>1. Len(Left(DumpKinds, t, edge - 1)) = Len(DumpKinds) - t
      BY <1>1, <2>2, LeftTypes
    <3>2. Left(DumpKinds, t, edge - 1) # <<>>
      BY <1>1, <2>2, LeftShape
    <3> QED
      BY <1>1, <2>1, <3>1, <3>2
  <2>5. Taken = t
    BY <1>1, <1>3, <2>4 DEF Taken
  <2> QED
    BY <1>3, <2>1, <2>3, <2>5, CompleteIs
<1>4. CASE /\ sim = "halted" /\ replies = <<>>
           /\ \E t \in 0 .. 2 : stdout = Left(DoneKinds, t, edge) /\ (done_received <=> t = 2)
  <2>1. PICK t \in 0 .. 2 : stdout = Left(DoneKinds, t, edge) /\ (done_received <=> t = 2)
    BY <1>4
  <2>2. t \in 0 .. 3
    OBVIOUS
  <2>3. BreaksIn(stdout) = 0
    BY <1>1, <2>1, <2>2, BreaksLeft
  <2>4. Taken = 0
    BY <1>4 DEF Taken
  <2> QED
    BY <1>1, <1>4, <2>3, <2>4, CompleteIs
<1> QED
  BY <1>2, <1>3, <1>4 DEF Turns

\* What is being printed decides where a line can belong.
LEMMA KindsApart ==
  /\ \A n \in 1 .. DumpLen :
       /\ DumpKinds[n] \in Singles => n \in 1 .. 5
       /\ DumpKinds[n] \in Groups => n \in 6 .. (DumpLen - 1)
       /\ DumpKinds[n] = "break" => n = DumpLen
       /\ DumpKinds[n] # "DONE" /\ DumpKinds[n] # ""
  /\ \A n \in 1 .. 3 : /\ DoneKinds[n] \notin Singles \cup Groups /\ DoneKinds[n] # "break"
                       /\ DoneKinds[n] = "DONE" <=> n = 2
                       /\ DoneKinds[n] = "" <=> n # 2
<1>1. Groups \subseteq {"f", "g", "d", "h", "e", "i", "m", "j", "w", "v"}
  BY VisualAssumption, Kinds, ElementOfSeq DEF Groups
<1>2. Len(GroupLines) \in Nat /\ DumpLen = 6 + Len(GroupLines)
  BY Kinds DEF DumpLen
<1>3. \A n \in 1 .. DumpLen : n \in 1 .. 5 \/ n \in 6 .. (DumpLen - 1) \/ n = DumpLen
  BY <1>2
<1>4. /\ \A n \in 1 .. 5 : DumpKinds[n] \in Singles
      /\ \A n \in 6 .. (DumpLen - 1) : DumpKinds[n] \in Groups
      /\ DumpKinds[DumpLen] = "break"
  BY Kinds, DumpFills
<1>5. ASSUME NEW n \in 1 .. 3
      PROVE  /\ DoneKinds[n] \notin Singles \cup Groups /\ DoneKinds[n] # "break"
             /\ DoneKinds[n] = "DONE" <=> n = 2
             /\ DoneKinds[n] = "" <=> n # 2
  <2>1. DoneKinds[1] = "" /\ DoneKinds[2] = "DONE" /\ DoneKinds[3] = ""
    BY DEF DoneKinds
  <2>2. n = 1 \/ n = 2 \/ n = 3
    OBVIOUS
  <2> QED
    BY <1>1, <2>1, <2>2 DEF Singles
<1>6. /\ "break" \notin Singles \cup Groups
      /\ "DONE" \notin Singles \cup Groups \cup {"break"} /\ "" \notin Singles \cup Groups \cup {"break"}
      /\ \A s \in Singles : s \notin Groups
  BY <1>1 DEF Singles
<1>7. ASSUME NEW n \in 1 .. DumpLen
      PROVE  /\ DumpKinds[n] \in Singles => n \in 1 .. 5
             /\ DumpKinds[n] \in Groups => n \in 6 .. (DumpLen - 1)
             /\ DumpKinds[n] = "break" => n = DumpLen
             /\ DumpKinds[n] # "DONE" /\ DumpKinds[n] # ""
  <2>1. CASE n \in 1 .. 5
    <3>1. DumpKinds[n] \in Singles
      BY <1>4, <2>1
    <3> QED
      BY <1>6, <2>1, <3>1, Zenon
  <2>2. CASE n \in 6 .. (DumpLen - 1)
    <3>1. DumpKinds[n] \in Groups
      BY <1>4, <2>2
    <3> QED
      BY <1>6, <2>2, <3>1, Zenon
  <2>3. CASE n = DumpLen
    <3>1. DumpKinds[n] = "break"
      BY <1>4, <2>3
    <3> QED
      BY <1>6, <2>3, <3>1, Zenon
  <2> QED
    BY <1>3, <2>1, <2>2, <2>3, Zenon
<1> QED
  BY <1>5, <1>7, Zenon

\* The next line, if it belongs to a dump.
LEMMA DumpLine ==
  ASSUME DInv, NEW kinds, Reads(kinds), kinds \subseteq Singles \cup Groups \cup {"break"}
  PROVE  /\ sim = "wait" /\ replies = <<>> /\ ~done_received /\ edge >= 1 /\ Complete = edge - 1
         /\ Taken \in 0 .. (DumpLen - 1) /\ Taken + 1 \in 1 .. DumpLen
         /\ Head(stdout).kind = DumpKinds[Taken + 1] /\ Head(stdout).kind \in kinds
         /\ Head(stdout).edge = Complete
         /\ stdout' = Left(DumpKinds, Taken + 1, edge - 1)
<1>1. child = "top" /\ ~done_received /\ stdout # <<>> /\ Head(stdout).kind \in kinds /\ stdout' = Tail(stdout)
  BY DEF Reads
<1>2. Types /\ Turns /\ edge \in Nat
  BY <1>1 DEF DInv, Pipes, Watching, Types
<1>3. DumpLen \in Nat /\ DumpKinds \in Seq(Kind) /\ Len(DumpKinds) = DumpLen
      /\ DoneKinds \in Seq(Kind) /\ Len(DoneKinds) = 3
  BY DumpSizes
<1>4. CASE /\ sim = "halted"
           /\ \E t \in 0 .. 2 : stdout = Left(DoneKinds, t, edge)
  <2>1. PICK t \in 0 .. 2 : stdout = Left(DoneKinds, t, edge)
    BY <1>4
  <2>2. t \in 0 .. Len(DoneKinds) /\ t < Len(DoneKinds) /\ t + 1 \in 1 .. 3
    BY <1>3
  <2>3. Head(stdout).kind = DoneKinds[t + 1]
    BY <1>2, <1>3, <2>1, <2>2, LeftShape
  <2>4. FALSE
    BY <1>1, <2>2, <2>3, KindsApart
  <2> QED
    BY <2>4
<1>5. CASE /\ sim = "wait" /\ replies = <<>> /\ ~done_received /\ edge >= 1 /\ Complete = edge - 1
           /\ Taken \in 0 .. (DumpLen - 1) /\ stdout = Left(DumpKinds, Taken, edge - 1)
  <2> DEFINE t == Taken
  <2>1. edge - 1 \in Nat /\ t \in 0 .. Len(DumpKinds) /\ t < Len(DumpKinds) /\ t + 1 \in 1 .. DumpLen
    BY <1>2, <1>3, <1>5
  <2> HIDE DEF t
  <2>2. /\ Head(Left(DumpKinds, t, edge - 1)).kind = DumpKinds[t + 1]
        /\ Head(Left(DumpKinds, t, edge - 1)).edge = edge - 1
        /\ Tail(Left(DumpKinds, t, edge - 1)) = Left(DumpKinds, t + 1, edge - 1)
    <3>1. ASSUME NEW e \in Nat
          PROVE  /\ Head(Left(DumpKinds, t, e)).kind = DumpKinds[t + 1]
                 /\ Head(Left(DumpKinds, t, e)).edge = e
                 /\ Tail(Left(DumpKinds, t, e)) = Left(DumpKinds, t + 1, e)
      BY <1>3, <2>1, LeftShape
    <3> QED
      BY <2>1, <3>1
  <2> QED
    BY <1>1, <1>5, <2>1, <2>2 DEF t
<1> QED
  BY <1>1, <1>2, <1>4, <1>5, PipesHold

\* The kinds of the lines that end the program.
EndKinds == {"DONE", ""}

\* The next line, if it belongs to the end of the program.
LEMMA DoneLine ==
  ASSUME DInv, NEW kinds, Reads(kinds), kinds \subseteq EndKinds
  PROVE  /\ sim = "halted" /\ replies = <<>> /\ ~done_received /\ Complete = edge /\ Taken = 0
         /\ \E t \in 0 .. 1 : /\ Head(stdout).kind \in kinds
                              /\ Head(stdout).kind = "DONE" <=> t = 1
                              /\ Head(stdout).kind = "" <=> t = 0
                              /\ stdout' = Left(DoneKinds, t + 1, edge)
<1>1. child = "top" /\ ~done_received /\ stdout # <<>> /\ Head(stdout).kind \in kinds /\ stdout' = Tail(stdout)
  BY DEF Reads
<1>2. Types /\ Turns /\ edge \in Nat
  BY <1>1 DEF DInv, Pipes, Watching, Types
<1>3. DumpLen \in Nat /\ DumpKinds \in Seq(Kind) /\ Len(DumpKinds) = DumpLen
      /\ DoneKinds \in Seq(Kind) /\ Len(DoneKinds) = 3
  BY DumpSizes
<1>4. CASE /\ sim = "halted" /\ replies = <<>> /\ Complete = edge /\ Taken = 0
           /\ \E t \in 0 .. 2 : stdout = Left(DoneKinds, t, edge) /\ (done_received <=> t = 2)
  <2>1. PICK t \in 0 .. 2 : stdout = Left(DoneKinds, t, edge) /\ (done_received <=> t = 2)
    BY <1>4
  <2>0. t # 2
    BY <1>1, <2>1
  <2>2. t \in 0 .. Len(DoneKinds) /\ t < Len(DoneKinds) /\ t + 1 \in 1 .. 3 /\ t \in 0 .. 1
    BY <1>3, <2>0
  <2>3. Head(stdout).kind = DoneKinds[t + 1] /\ Tail(stdout) = Left(DoneKinds, t + 1, edge)
    BY <1>2, <1>3, <2>1, <2>2, LeftShape
  <2>4. /\ Head(stdout).kind = "DONE" <=> t = 1
        /\ Head(stdout).kind = "" <=> t = 0
    <3>1. t + 1 = 2 <=> t = 1
      BY <2>2
    <3>2. t # 1 <=> t = 0
      BY <2>2
    <3> QED
      BY <2>2, <2>3, <3>1, <3>2, KindsApart
  <2> QED
    BY <1>1, <1>4, <2>2, <2>3, <2>4
<1>5. CASE /\ sim = "wait" /\ edge >= 1
           /\ Taken \in 0 .. (DumpLen - 1) /\ stdout = Left(DumpKinds, Taken, edge - 1)
  <2> DEFINE t == Taken
  <2>1. edge - 1 \in Nat /\ t \in 0 .. Len(DumpKinds) /\ t < Len(DumpKinds) /\ t + 1 \in 1 .. DumpLen
    BY <1>2, <1>3, <1>5
  <2> HIDE DEF t
  <2>2. Head(Left(DumpKinds, t, edge - 1)).kind = DumpKinds[t + 1]
    BY <1>3, <2>1, LeftShape
  <2>3. Head(stdout).kind = DumpKinds[t + 1]
    BY <1>5, <2>2 DEF t
  <2>4. FALSE
    BY <1>1, <2>1, <2>3, KindsApart DEF EndKinds
  <2> QED
    BY <2>4
<1> QED
  BY <1>1, <1>2, <1>4, <1>5, PipesHold

---------------------------------------------------------------------------
(* The simulation *)

\* Nothing of the child changes.
ChildRests ==
  UNCHANGED <<history, reg_num, setup_registers, allocated, history_num, time_wrapped,
              done_received, child>>

\* What the ring holds does not change with the pipes while the dumps that
\* are complete, and the lines that were read, are the same.
LEMMA RingRests ==
  ASSUME DInv, ChildRests, Watching => Complete' = Complete /\ Taken' = Taken
  PROVE  Ring'
<1>1. CASE Watching
  <2>1. Complete' = Complete /\ Taken' = Taken
    BY <1>1
  <2> QED
    BY <1>1, <2>1 DEF DInv, Ring, ChildRests, Watching
<1>2. CASE ~Watching
  BY <1>2 DEF Ring, Watching, ChildRests
<1> QED
  BY <1>1, <1>2

\* An edge is printed whole, when everything before it has been read.
LEMMA DumpEdgeKeeps ==
  ASSUME DInv, DumpEdge
  PROVE  DInv'
<1>1. sim = "run" /\ edge' = edge + 1 /\ edge \in Nat /\ ChildRests /\ replies' = replies
  BY DEF DumpEdge, DInv, Types, inputVars, ringVars, ChildRests
<1>2. CASE NoReader
  <2>1. sim' = "exited" /\ stdout' = stdout /\ child' = child /\ ~Watching
    BY <1>1, <1>2 DEF DumpEdge, NoReader, Watching, ChildRests
  <2>2. Types'
    BY <1>1, <2>1 DEF DInv, Types, ChildRests
  <2>3. child # "crashed"
    BY <1>1 DEF DInv, Pipes, Lost
  <2>4. Pipes'
    BY <1>1, <2>1, <2>3 DEF DInv, Pipes, Watching, Quits, BreaksIn
  <2>5. Ring'
    BY <1>1, <2>1, RingRests
  <2> QED
    BY <2>2, <2>4, <2>5 DEF DInv
<1>3. CASE ~NoReader
  <2>1. sim' = "wait" /\ stdout' = stdout \o Dump /\ Watching /\ Watching'
    BY <1>1, <1>3 DEF DumpEdge, NoReader, Watching, ChildRests, DInv, Types
  <2>2. /\ stdout = <<>> /\ replies = <<>> /\ ~done_received /\ Complete = edge /\ Taken = 0
    BY <1>1, <2>1, PipesHold DEF DInv, Pipes
  <2>3. stdout' = Left(DumpKinds, 0, edge)
    <3>0. 0 \in 0 .. Len(DumpKinds)
      BY DumpSizes
    <3>1. Left(DumpKinds, 0, edge) \in Seq([kind : Kind, edge : Nat])
      BY <1>1, <3>0, DumpSizes, LeftTypes
    <3>2. Dump = Left(DumpKinds, 0, edge)
      BY DumpSizes DEF Dump, Left, Line, DumpKinds, DumpLen
    <3> QED
      BY <2>1, <2>2, <3>1, <3>2, ConcatEmptySeq
  <2>4. Types'
    BY <1>1, <2>1 DEF DInv, Types, ChildRests
  <2>5. edge' - 1 = edge /\ edge' >= 1 /\ 0 \in 0 .. (DumpLen - 1)
    BY <1>1, DumpSizes
  <2>6. Turns'
    BY <1>1, <2>1, <2>2, <2>3, <2>5 DEF Turns, ChildRests
  <2>7. Pipes'
    BY <2>1, <2>6 DEF Pipes, Watching
  <2>8. Complete' = edge /\ Taken' = 0
    <3>1. BreaksIn(stdout') = 1
      BY <1>1, <2>3, <2>5, BreaksLeft
    <3>2. Complete' = edge' - BreaksIn(stdout')
      BY CompleteIs DEF Complete, BreaksIn
    <3>3. Len(stdout') = DumpLen
      <4>0. 0 \in 0 .. Len(DumpKinds)
        BY DumpSizes
      <4>1. Len(Left(DumpKinds, 0, edge)) = Len(DumpKinds) - 0
        BY <1>1, <4>0, DumpSizes, LeftTypes
      <4> QED
        BY <2>3, <4>1, DumpSizes
    <3> QED
      BY <1>1, <3>1, <3>2, <3>3, DumpSizes DEF Taken
  <2>9. Ring'
    BY <1>1, <2>2, <2>8, RingRests
  <2> QED
    BY <2>4, <2>7, <2>9 DEF DInv
<1> QED
  BY <1>2, <1>3

\* So are the lines that end the program.
LEMMA HaltKeeps ==
  ASSUME DInv, Halt
  PROVE  DInv'
<1>1. sim = "run" /\ edge' = edge /\ edge \in Nat /\ ChildRests /\ replies' = replies
  BY DEF Halt, DInv, Types, inputVars, ringVars, ChildRests
<1>2. CASE NoReader
  <2>1. sim' = "exited" /\ stdout' = stdout /\ child' = child /\ ~Watching
    BY <1>1, <1>2 DEF Halt, NoReader, Watching, ChildRests
  <2>2. Types'
    BY <1>1, <2>1 DEF DInv, Types, ChildRests
  <2>3. child # "crashed"
    BY <1>1 DEF DInv, Pipes, Lost
  <2>4. Pipes'
    BY <1>1, <2>1, <2>3 DEF DInv, Pipes, Watching, Quits, BreaksIn
  <2>5. Ring'
    BY <1>1, <2>1, RingRests
  <2> QED
    BY <2>2, <2>4, <2>5 DEF DInv
<1>3. CASE ~NoReader
  <2>1. sim' = "halted" /\ stdout' = stdout \o Done /\ Watching /\ Watching'
    BY <1>1, <1>3 DEF Halt, NoReader, Watching, ChildRests, DInv, Types
  <2>2. /\ stdout = <<>> /\ replies = <<>> /\ ~done_received /\ Complete = edge /\ Taken = 0
    BY <1>1, <2>1, PipesHold DEF DInv, Pipes
  <2>3. stdout' = Left(DoneKinds, 0, edge)
    <3> DEFINE item == [kind : Kind, edge : Nat]
               s == Left(DoneKinds, 0, edge)
    <3>0. 0 \in 0 .. Len(DoneKinds)
      BY DumpSizes
    <3>1. s \in Seq(item) /\ Len(s) = 3 /\ \A j \in 1 .. 3 : s[j] = [kind |-> DoneKinds[0 + j], edge |-> edge]
      <4>1. /\ s \in Seq(item) /\ Len(s) = Len(DoneKinds) - 0
            /\ \A j \in 1 .. (Len(DoneKinds) - 0) : s[j] = [kind |-> DoneKinds[0 + j], edge |-> edge]
        BY <1>1, <3>0, DumpSizes, LeftTypes
      <4> QED
        BY <4>1, DumpSizes
    <3> HIDE DEF s
    <3>2. Done = s
      <4> DEFINE a == Line(DoneKinds[1])
                 b == Line(DoneKinds[2])
                 c == Line(DoneKinds[3])
      <4>0. Done = <<a, b, c>>
        <5>1. DoneKinds[1] = "" /\ DoneKinds[2] = "DONE" /\ DoneKinds[3] = ""
          BY DEF DoneKinds
        <5> QED
          BY <5>1 DEF Done
      <4>a. a \in item /\ b \in item /\ c \in item
        <5>1. DoneKinds[1] \in Kind /\ DoneKinds[2] \in Kind /\ DoneKinds[3] \in Kind
          <6>1. 1 \in 1 .. Len(DoneKinds) /\ 2 \in 1 .. Len(DoneKinds) /\ 3 \in 1 .. Len(DoneKinds)
            BY DumpSizes
          <6> QED
            BY <6>1, DumpSizes, ElementOfSeq
        <5> QED
          BY <1>1, <5>1 DEF Line
      <4>b. s[1] = a /\ s[2] = b /\ s[3] = c
        <5>1. 1 \in 1 .. 3 /\ 2 \in 1 .. 3 /\ 3 \in 1 .. 3 /\ 0 + 1 = 1 /\ 0 + 2 = 2 /\ 0 + 3 = 3
          OBVIOUS
        <5> QED
          BY <3>1, <5>1 DEF Line
      <4> HIDE DEF a, b, c, item
      <4>1. Done \in Seq(item) /\ Len(Done) = 3
        BY <4>0, <4>a
      <4>2. ASSUME NEW j \in 1 .. 3 PROVE Done[j] = s[j]
        <5>1. j = 1 \/ j = 2 \/ j = 3
          OBVIOUS
        <5> QED
          BY <4>0, <4>b, <5>1
      <4> QED
        BY <3>1, <4>1, <4>2, SeqEqual
    <3> QED
      BY <2>1, <2>2, <3>1, <3>2, ConcatEmptySeq DEF s
  <2>4. Types'
    BY <1>1, <2>1 DEF DInv, Types, ChildRests
  <2>6. Turns'
    <3>1. 0 \in 0 .. 2 /\ 0 # 2 /\ ~done_received'
      BY <1>1, <2>2 DEF ChildRests
    <3>2. stdout' = Left(DoneKinds, 0, edge') /\ (done_received' <=> 0 = 2)
      BY <1>1, <2>3, <3>1
    <3> QED
      BY <1>1, <2>1, <2>2, <3>1, <3>2 DEF Turns
  <2>7. Pipes'
    BY <2>1, <2>6 DEF Pipes, Watching
  <2>8. Complete' = edge /\ Taken' = 0
    <3>1. BreaksIn(stdout') = 0
      <4>1. 0 \in 0 .. 3
        OBVIOUS
      <4> QED
        BY <1>1, <2>3, <4>1, BreaksLeft
    <3>2. Complete' = edge' - BreaksIn(stdout')
      BY CompleteIs DEF Complete, BreaksIn
    <3> QED
      BY <1>1, <2>1, <3>1, <3>2 DEF Taken
  <2>9. Ring'
    BY <1>1, <2>2, <2>8, RingRests
  <2> QED
    BY <2>4, <2>7, <2>9 DEF DInv
<1> QED
  BY <1>2, <1>3

\* The simulation goes on after the reply to a dump that has been read.
LEMMA ResponseKeeps ==
  ASSUME DInv, waitforresponse
  PROVE  DInv'
<1>1. /\ sim \in {"wait", "halted"} /\ replies # <<>> /\ replies' = Tail(replies)
      /\ sim' = IF Head(replies) = "Z" THEN "exited" ELSE IF sim = "halted" THEN "finished" ELSE "run"
      /\ edge' = edge /\ edge \in Nat /\ stdout' = stdout /\ ChildRests
  BY DEF waitforresponse, DInv, Types, inputVars, ringVars, ChildRests
<1>2. CASE Watching
  <2>1. /\ sim = "wait" /\ stdout = <<>> /\ replies = <<"n">> /\ ~done_received
        /\ Complete = edge /\ Taken = 0
    BY <1>1, <1>2, PipesHold DEF DInv, Pipes
  <2>2. replies' = <<>> /\ sim' = "run"
    BY <1>1, <2>1
  <2>3. Types'
    BY <1>1, <2>2 DEF DInv, Types, ChildRests
  <2>4. Turns'
    BY <1>1, <2>1, <2>2 DEF Turns, ChildRests
  <2>5. Pipes'
    BY <1>1, <1>2, <2>4 DEF Pipes, Watching, ChildRests
  <2>6. Complete' = Complete /\ Taken' = Taken
    BY <1>1, <2>1, <2>2 DEF Complete, Taken
  <2>7. Ring'
    BY <1>1, <2>6, RingRests
  <2> QED
    BY <2>3, <2>5, <2>7 DEF DInv
<1>3. CASE ~Watching
  <2>1. child = "exited" /\ Quits
    BY <1>1, <1>3 DEF DInv, Types, Pipes, Lost, Watching
  <2>2. \/ replies = <<"Z">> /\ replies' = <<>> /\ sim' = "exited"
        \/ replies = <<"n", "Z">> /\ replies' = <<"Z">> /\ sim' = "run"
    <3>1. CASE replies = <<"Z">>
      BY <1>1, <3>1
    <3>2. CASE replies = <<"n", "Z">>
      <4>1. sim = "wait" /\ Head(replies) = "n" /\ Tail(replies) = <<"Z">>
        BY <2>1, <3>2 DEF Quits
      <4> QED
        BY <1>1, <3>2, <4>1
    <3> QED
      BY <1>1, <2>1, <3>1, <3>2 DEF Quits
  <2>3. Types'
    BY <1>1, <2>2 DEF DInv, Types, ChildRests
  <2>4. Quits'
    BY <1>1, <2>1, <2>2 DEF Quits, BreaksIn
  <2>5. Pipes'
    BY <1>1, <2>1, <2>4 DEF Pipes, Watching, ChildRests
  <2>6. Ring'
    BY <1>1, <1>3, RingRests
  <2> QED
    BY <2>3, <2>5, <2>6 DEF DInv
<1> QED
  BY <1>2, <1>3

---------------------------------------------------------------------------
(* Reading *)

\* The first t + 1 lines fill one place more than the first t.
LEMMA FilledNext ==
  ASSUME NEW t \in Nat
  PROVE  /\ Filled(t + 1) = Filled(t) \cup {PlaceOf(t + 1)}
         /\ FilledRegisters(t + 1) = IF t >= 5 THEN FilledRegisters(t) \cup {PlaceOf(t + 1)}
                                     ELSE FilledRegisters(t)
         /\ Filled(0) = {} /\ FilledRegisters(0) = {}
<1>1. 1 .. (t + 1) = (1 .. t) \cup {t + 1}
  OBVIOUS
<1>2. t >= 5 => 6 .. (t + 1) = (6 .. t) \cup {t + 1}
  OBVIOUS
<1>3. ~ (t >= 5) => 6 .. (t + 1) = {} /\ 6 .. t = {}
  OBVIOUS
<1>4. 1 .. 0 = {} /\ 6 .. 0 = {}
  OBVIOUS
<1>5. Filled(t + 1) = Filled(t) \cup {PlaceOf(t + 1)}
  BY <1>1 DEF Filled
<1>6. t >= 5 => FilledRegisters(t + 1) = FilledRegisters(t) \cup {PlaceOf(t + 1)}
  BY <1>2 DEF FilledRegisters
<1>7. ~ (t >= 5) => FilledRegisters(t + 1) = FilledRegisters(t)
  BY <1>3 DEF FilledRegisters
<1>8. Filled(0) = {} /\ FilledRegisters(0) = {}
  BY <1>4 DEF Filled, FilledRegisters
<1> QED
  BY <1>5, <1>6, <1>7, <1>8

\* A line that does not end the dump.
LEMMA LineTaken ==
  ASSUME DInv, NEW kinds, Reads(kinds), kinds \subseteq Singles \cup Groups \cup {"break"},
         UNCHANGED <<edge, sim, replies, done_received>>, child' = "top", Taken + 1 < DumpLen
  PROVE  Taken' = Taken + 1 /\ Complete' = Complete /\ Pipes'
<1>1. /\ sim = "wait" /\ replies = <<>> /\ ~done_received /\ edge >= 1 /\ Complete = edge - 1
      /\ Taken \in 0 .. (DumpLen - 1)
      /\ stdout' = Left(DumpKinds, Taken + 1, edge - 1)
  BY DumpLine
<1>2. edge \in Nat
  BY DEF DInv, Types
<1> DEFINE t == Taken + 1
<1>3. t \in 0 .. (DumpLen - 1) /\ edge - 1 \in Nat /\ t \in 0 .. Len(DumpKinds) /\ t # Len(DumpKinds)
  BY <1>1, <1>2, DumpSizes
<1> HIDE DEF t
<1>4. stdout' = Left(DumpKinds, t, edge - 1)
  BY <1>1 DEF t
<1>5. Complete' = Complete
  <2>1. BreaksIn(stdout') = 1
    BY <1>3, <1>4, BreaksLeft
  <2>2. Complete' = edge' - BreaksIn(stdout')
    BY DEF Complete, BreaksIn
  <2> QED
    BY <1>1, <1>2, <2>1, <2>2
<1>6. Taken' = t
  <2>1. Len(Left(DumpKinds, t, edge - 1)) = Len(DumpKinds) - t
    BY <1>3, DumpSizes, LeftTypes
  <2>2. Left(DumpKinds, t, edge - 1) # <<>>
    BY <1>3, DumpSizes, LeftShape
  <2> QED
    BY <1>1, <1>3, <1>4, <2>1, <2>2, DumpSizes DEF Taken
<1>7. Turns'
  BY <1>1, <1>3, <1>4 DEF Turns
<1>8. Pipes'
  BY <1>7 DEF Pipes, Watching
<1> QED
  BY <1>5, <1>6, <1>8 DEF t

\* The line is put into its place in the slot being filled.
LEMMA LineStored ==
  ASSUME DInv, Watching, ~done_received, Taken \in Nat, Complete \in Nat,
         PlaceOf(Taken + 1) \in Place,
         history' = [history EXCEPT ![history_num][PlaceOf(Taken + 1)] = Complete]
  PROVE  /\ history' \in [Slot -> [Place -> Nat \cup {None}]]
         /\ \A k \in Slot, p \in Place :
              history'[k][p] = IF k = Complete % NUM_HISTORY /\ p \in Filled(Taken + 1) THEN Complete
                               ELSE LatestOf(Complete, k)
<1> DEFINE q == PlaceOf(Taken + 1)
           c == Complete
<1>1. /\ history \in [Slot -> [Place -> Nat \cup {None}]] /\ history_num \in Slot
      /\ history_num = c % NUM_HISTORY
      /\ \A k \in Slot, p \in Place :
           history[k][p] = IF k = c % NUM_HISTORY /\ p \in Filled(Taken) THEN c ELSE LatestOf(c, k)
  BY DEF DInv, Types, Ring
<1>2. Filled(Taken + 1) = Filled(Taken) \cup {q} /\ q \in Place
  BY FilledNext
<1> HIDE DEF q, c
<1>3. history' = [history EXCEPT ![history_num][q] = c] /\ c \in Nat
  BY DEF q, c
<1>4. history' \in [Slot -> [Place -> Nat \cup {None}]]
  BY <1>1, <1>2, <1>3
<1>5. \A k \in Slot, p \in Place : history'[k][p] = IF k = history_num /\ p = q THEN c ELSE history[k][p]
  BY <1>1, <1>2, <1>3
<1>6. \A k \in Slot, p \in Place :
        history'[k][p] = IF k = c % NUM_HISTORY /\ p \in Filled(Taken + 1) THEN c ELSE LatestOf(c, k)
  BY <1>1, <1>2, <1>5
<1> QED
  BY <1>4, <1>6 DEF c

\* Reading a line about the clock, the time, reset or the program.
LEMMA ReadSingleKeeps ==
  ASSUME DInv, ReadSingle
  PROVE  DInv'
<1>1. /\ Reads(Singles) /\ child = "top" /\ child' = "top" /\ Watching /\ Watching'
      /\ history' = [history EXCEPT ![history_num][<<Head(stdout).kind, 0>>] = Head(stdout).edge]
      /\ UNCHANGED <<edge, sim, replies, done_received>>
      /\ UNCHANGED <<reg_num, setup_registers, allocated, history_num, time_wrapped>>
  BY DEF ReadSingle, Reads, simVars, ringVars, Watching
<1>2. /\ ~done_received /\ Taken \in 0 .. (DumpLen - 1) /\ Complete = edge - 1 /\ edge >= 1
      /\ Head(stdout).kind = DumpKinds[Taken + 1] /\ Head(stdout).kind \in Singles
      /\ Head(stdout).edge = Complete /\ Taken + 1 \in 1 .. DumpLen
  BY <1>1, DumpLine
<1>3. Taken + 1 \in 1 .. 5 /\ Taken \in Nat /\ Taken + 1 < DumpLen /\ Complete \in Nat
  <2>1. Taken + 1 \in 1 .. 5
    BY <1>2, KindsApart
  <2>2. edge \in Nat
    BY DEF DInv, Types
  <2> QED
    BY <1>2, <2>1, <2>2, DumpSizes
<1>4. PlaceOf(Taken + 1) = <<Head(stdout).kind, 0>> /\ PlaceOf(Taken + 1) \in Place
  BY <1>2, <1>3, DumpFills
<1>5. Taken' = Taken + 1 /\ Complete' = Complete /\ Pipes'
  BY <1>1, <1>3, LineTaken
<1>6. /\ history' \in [Slot -> [Place -> Nat \cup {None}]]
      /\ \A k \in Slot, p \in Place :
           history'[k][p] = IF k = Complete % NUM_HISTORY /\ p \in Filled(Taken + 1) THEN Complete
                            ELSE LatestOf(Complete, k)
  BY <1>1, <1>2, <1>3, <1>4, LineStored
<1>7. Types'
  BY <1>1, <1>6 DEF DInv, Types
<1>8. Ring'
  <2>1. \A g \in Groups : reg_num'[g] = Seen(g, Taken' - 4)
    <3>1. \A g \in Groups : reg_num[g] = Seen(g, Taken - 4)
      BY <1>1 DEF DInv, Ring
    <3>2. Taken - 4 \in Int /\ Taken - 4 <= 1 /\ Taken' - 4 \in Int /\ Taken' - 4 <= 1
      BY <1>3, <1>5
    <3>3. \A g : Seen(g, Taken - 4) = 0 /\ Seen(g, Taken' - 4) = 0
      BY <3>2, SeenNext
    <3> QED
      BY <1>1, <3>1, <3>3
  <2>2. allocated' = IF setup_registers' THEN Registers ELSE FilledRegisters(Taken')
    <3>1. allocated = IF setup_registers THEN Registers ELSE FilledRegisters(Taken)
      BY <1>1 DEF DInv, Ring
    <3>2. FilledRegisters(Taken + 1) = FilledRegisters(Taken)
      <4>1. ~ (Taken >= 5)
        BY <1>3
      <4> QED
        BY <1>3, <4>1, FilledNext
    <3> QED
      BY <1>1, <1>5, <3>1, <3>2
  <2>3. /\ ~done_received' => history_num' = Complete' % NUM_HISTORY
        /\ Complete' >= NUM_HISTORY => time_wrapped'
    BY <1>1, <1>5 DEF DInv, Ring
  <2> QED
    BY <1>5, <1>6, <2>1, <2>2, <2>3 DEF Ring
<1> QED
  BY <1>5, <1>7, <1>8 DEF DInv

\* Reading a register, for which there always is room.
LEMMA ReadRegisterKeeps ==
  ASSUME DInv, ReadRegister
  PROVE  DInv'
<1> DEFINE g == Head(stdout).kind
           p == <<Head(stdout).kind, reg_num[Head(stdout).kind]>>
<1>1. /\ Reads(Groups) /\ child = "top" /\ Watching
      /\ allocated' = parse_register(p)
      /\ reg_num' = [reg_num EXCEPT ![p[1]] = @ + 1]
      /\ IF p \in allocated' \cap Registers
         THEN history' = [history EXCEPT ![history_num][p] = Head(stdout).edge] /\ UNCHANGED child
         ELSE child' = "crashed" /\ UNCHANGED history
      /\ UNCHANGED <<edge, sim, replies, done_received>>
      /\ UNCHANGED <<setup_registers, history_num, time_wrapped>>
  BY DEF ReadRegister, Reads, simVars, ringVars, Watching
<1>2. /\ ~done_received /\ Taken \in 0 .. (DumpLen - 1) /\ Complete = edge - 1 /\ edge >= 1
      /\ Head(stdout).kind = DumpKinds[Taken + 1] /\ Head(stdout).kind \in Groups
      /\ Head(stdout).edge = Complete /\ Taken + 1 \in 1 .. DumpLen
  BY <1>1, DumpLine
<1>3. Taken + 1 \in 6 .. (DumpLen - 1) /\ Taken \in Nat /\ Taken + 1 < DumpLen /\ Complete \in Nat
  <2>1. Taken + 1 \in 6 .. (DumpLen - 1)
    BY <1>2, KindsApart
  <2>2. edge \in Nat
    BY DEF DInv, Types
  <2> QED
    BY <1>2, <2>1, <2>2, DumpSizes
<1>4. /\ \A h \in Groups : reg_num[h] = Seen(h, Taken - 4)
      /\ allocated = IF setup_registers THEN Registers ELSE FilledRegisters(Taken)
      /\ reg_num \in [Groups -> Nat]
  BY <1>1 DEF DInv, Ring, Types
<1>5. p = PlaceOf(Taken + 1) /\ p \in Registers /\ p \in Place
  <2>1. (Taken + 1) - 5 = Taken - 4
    BY <1>3
  <2>2. PlaceOf(Taken + 1) = <<DumpKinds[Taken + 1], Seen(DumpKinds[Taken + 1], (Taken + 1) - 5)>>
        /\ PlaceOf(Taken + 1) \in Registers /\ PlaceOf(Taken + 1) \in Place
    BY <1>3, DumpFills
  <2> QED
    BY <1>2, <1>4, <2>1, <2>2
<1>6. allocated' = (IF setup_registers THEN Registers ELSE FilledRegisters(Taken + 1)) /\ p \in allocated'
  <2>1. FilledRegisters(Taken + 1) = FilledRegisters(Taken) \cup {p}
    <3>1. Taken >= 5
      BY <1>3
    <3> QED
      BY <1>3, <1>5, <3>1, FilledNext
  <2> HIDE DEF p
  <2> QED
    BY <1>1, <1>4, <1>5, <2>1 DEF parse_register
<1>7. history' = [history EXCEPT ![history_num][PlaceOf(Taken + 1)] = Complete] /\ child' = "top"
  <2> HIDE DEF p
  <2> QED
    BY <1>1, <1>2, <1>5, <1>6
<1>8. Taken' = Taken + 1 /\ Complete' = Complete /\ Pipes'
  BY <1>1, <1>3, <1>7, LineTaken
<1>9. /\ history' \in [Slot -> [Place -> Nat \cup {None}]]
      /\ \A k \in Slot, r \in Place :
           history'[k][r] = IF k = Complete % NUM_HISTORY /\ r \in Filled(Taken + 1) THEN Complete
                            ELSE LatestOf(Complete, k)
  BY <1>1, <1>2, <1>3, <1>5, <1>7, LineStored
<1>10. reg_num' = [reg_num EXCEPT ![g] = @ + 1] /\ g \in Groups /\ g = DumpKinds[Taken + 1]
  BY <1>1, <1>2
<1> HIDE DEF p, g
<1>11. reg_num' \in [Groups -> Nat] /\ \A h \in Groups : reg_num'[h] = IF h = g THEN reg_num[g] + 1 ELSE reg_num[h]
  BY <1>4, <1>10
<1>12. Types'
  BY <1>1, <1>7, <1>9, <1>11 DEF DInv, Types
<1>13. Ring'
  <2>1. \A h \in Groups : reg_num'[h] = Seen(h, Taken' - 4)
    <3>1. (Taken + 1) - 5 \in DOMAIN GroupLines /\ GroupLines[(Taken + 1) - 5] = g
      BY <1>3, <1>10, Kinds
    <3>2. (Taken + 1) - 5 = Taken - 4 /\ Taken' - 4 = (Taken - 4) + 1
      BY <1>3, <1>8
    <3>3. \A h : Seen(h, (Taken - 4) + 1) = IF g = h THEN Seen(h, Taken - 4) + 1 ELSE Seen(h, Taken - 4)
      BY <3>1, <3>2, SeenNext
    <3> QED
      BY <1>4, <1>10, <1>11, <3>2, <3>3
  <2>2. allocated' = IF setup_registers' THEN Registers ELSE FilledRegisters(Taken')
    BY <1>1, <1>6, <1>8
  <2>3. /\ ~done_received' => history_num' = Complete' % NUM_HISTORY
        /\ Complete' >= NUM_HISTORY => time_wrapped'
    BY <1>1, <1>8 DEF DInv, Ring
  <2> QED
    BY <1>8, <1>9, <2>1, <2>2, <2>3 DEF Ring
<1> QED
  BY <1>8, <1>12, <1>13 DEF DInv

\* The newest slot is shown, and the next one will be filled; a program that
\* ends at slot 0 has no newest slot.
LEMMA NewestShown ==
  ASSUME Types, NEW done \in BOOLEAN, ShowNewest(done)
  PROVE  /\ done_received' = done
         /\ \/ /\ done /\ child' = "crashed" /\ history_num = 0
               /\ UNCHANGED <<history_num, time_wrapped, replies>>
            \/ /\ child' = "keys" /\ history_num' \in Slot /\ time_wrapped' \in BOOLEAN
               /\ time_wrapped => time_wrapped'
               /\ done => replies' = replies
               /\ ~done => /\ history_num' = (history_num + 1) % NUM_HISTORY
                           /\ history_num + 1 = NUM_HISTORY => time_wrapped'
                           /\ replies' = Append(replies, "n")
<1> DEFINE newest == IF Ended(done) THEN history_num - 1 ELSE history_num
<1>1. /\ done_received' = done
      /\ \/ newest < 0 /\ child' = "crashed" /\ UNCHANGED <<history_num, time_wrapped, replies>>
         \/ /\ ~ (newest < 0) /\ child' = "keys"
            /\ history_num' = (newest + 1) % NUM_HISTORY
            /\ time_wrapped' = (time_wrapped \/ newest + 1 = NUM_HISTORY)
            /\ replies' = Reply(done)
  BY DEF ShowNewest
<1>2. history_num \in Slot /\ history_num \in 0 .. (NUM_HISTORY - 1) /\ time_wrapped \in BOOLEAN
  BY DEF Types, Slot
<1>3. newest \in Int /\ (newest < 0 => Ended(done) /\ history_num = 0) /\ (~Ended(done) => newest = history_num)
  BY <1>2, RingLength
<1> HIDE DEF newest
<1>4. Ended(done) => done
  BY DEF Ended
<1>5. CASE newest < 0
  BY <1>1, <1>3, <1>4, <1>5
<1>6. CASE ~ (newest < 0)
  <2>1. newest + 1 \in Nat
    BY <1>3, <1>6
  <2>2. history_num' \in Slot
    BY <1>1, <1>6, <2>1, RingLength
  <2>3. /\ done => replies' = replies
        /\ ~done => replies' = Append(replies, "n")
    BY <1>1, <1>6 DEF Reply
  <2>4. time_wrapped' \in BOOLEAN /\ (time_wrapped => time_wrapped') /\ (newest + 1 = NUM_HISTORY => time_wrapped')
    BY <1>1, <1>2, <1>6
  <2> QED
    BY <1>1, <1>3, <1>4, <1>6, <2>2, <2>3, <2>4
<1> QED
  BY <1>5, <1>6

\* The end of a dump: the slot is whole, and the simulation may go on.
LEMMA ReadBreakKeeps ==
  ASSUME DInv, ReadBreak
  PROVE  DInv'
<1>1. /\ Reads({"break"}) /\ Watching /\ ShowNewest(FALSE) /\ setup_registers' = TRUE
      /\ reg_num' = ResetCounters
      /\ UNCHANGED <<edge, sim, history, allocated>>
  BY DEF ReadBreak, Reads, simVars, Watching
<1>2. /\ ~done_received /\ Taken \in 0 .. (DumpLen - 1) /\ Complete = edge - 1 /\ edge >= 1
      /\ sim = "wait" /\ replies = <<>>
      /\ Head(stdout).kind = DumpKinds[Taken + 1] /\ Head(stdout).kind \in {"break"}
      /\ Taken + 1 \in 1 .. DumpLen
      /\ stdout' = Left(DumpKinds, Taken + 1, edge - 1)
  <2>1. {"break"} \subseteq Singles \cup Groups \cup {"break"}
    OBVIOUS
  <2> QED
    BY <1>1, <2>1, DumpLine
<1>3. Taken + 1 = DumpLen /\ Taken = DumpLen - 1
  <2>1. DumpKinds[Taken + 1] = "break"
    BY <1>2
  <2>2. Taken + 1 = DumpLen
    BY <1>2, <2>1, KindsApart
  <2> QED
    BY <1>2, <2>2, DumpSizes
<1>4. edge \in Nat /\ edge - 1 \in Nat /\ Complete \in Nat
  BY <1>2 DEF DInv, Types
<1>5. stdout' = <<>>
  <2>1. DumpLen \in 0 .. Len(DumpKinds) /\ DumpLen = Len(DumpKinds)
    BY DumpSizes
  <2>2. Left(DumpKinds, DumpLen, edge - 1) = <<>>
    BY <1>4, <2>1, DumpSizes, LeftShape
  <2> QED
    BY <1>2, <1>3, <2>2
<1>6. /\ done_received' = FALSE /\ child' = "keys" /\ history_num' \in Slot /\ time_wrapped' \in BOOLEAN
      /\ time_wrapped => time_wrapped'
      /\ history_num' = (history_num + 1) % NUM_HISTORY
      /\ history_num + 1 = NUM_HISTORY => time_wrapped'
      /\ replies' = Append(replies, "n")
  BY <1>1, NewestShown DEF DInv
<1>7. Complete' = Complete + 1 /\ Taken' = 0
  <2>1. Complete' = edge' - BreaksIn(stdout')
    BY DEF Complete, BreaksIn
  <2>2. BreaksIn(stdout') = 0
    BY <1>5, BreaksLeft
  <2> QED
    BY <1>1, <1>2, <1>4, <1>5, <2>1, <2>2 DEF Taken
<1>8. Types'
  BY <1>1, <1>6 DEF DInv, Types, ResetCounters
<1>9. Pipes'
  <2>1. replies' = <<"n">>
    BY <1>2, <1>6
  <2>2. Turns'
    BY <1>1, <1>2, <1>5, <1>6, <2>1 DEF Turns
  <2> QED
    BY <1>6, <2>2 DEF Pipes, Watching
<1>10. Ring'
  <2>1. /\ \A k \in Slot, p \in Place :
             history[k][p] = IF k = Complete % NUM_HISTORY /\ p \in Filled(Taken) THEN Complete
                             ELSE LatestOf(Complete, k)
        /\ history_num = Complete % NUM_HISTORY
        /\ allocated = IF setup_registers THEN Registers ELSE FilledRegisters(Taken)
        /\ Complete >= NUM_HISTORY => time_wrapped
    BY <1>1, <1>2 DEF DInv, Ring
  <2>2. \A k \in Slot, p \in Place :
          history'[k][p] = IF k = Complete' % NUM_HISTORY /\ p \in Filled(Taken') THEN Complete'
                           ELSE LatestOf(Complete', k)
    <3> SUFFICES ASSUME NEW k \in Slot, NEW p \in Place
                 PROVE  history'[k][p] = LatestOf(Complete + 1, k)
      BY <1>7, FilledNext
    <3>1. p \in Filled(Taken)
      BY <1>3, DumpFills
    <3>2. LatestOf(Complete + 1, k) = IF k = Complete % NUM_HISTORY THEN Complete ELSE LatestOf(Complete, k)
      BY <1>4, LatestNext
    <3> QED
      BY <1>1, <2>1, <3>1, <3>2
  <2>3. history_num' = Complete' % NUM_HISTORY
    <3> DEFINE h == history_num
    <3>1. h \in 0 .. (NUM_HISTORY - 1) /\ h \in Nat /\ NUM_HISTORY \in Nat \ {0}
      BY RingLength DEF DInv, Types, Slot
    <3>2. (Complete + 1) % NUM_HISTORY = IF h = NUM_HISTORY - 1 THEN 0 ELSE h + 1
      BY <1>4, <2>1, <3>1, NextSlot
    <3> HIDE DEF h
    <3>3. h % NUM_HISTORY = h
      BY <3>1, FirstRound
    <3>4. (h + 1) % NUM_HISTORY = IF h = NUM_HISTORY - 1 THEN 0 ELSE h + 1
      BY <3>1, <3>3, NextSlot
    <3> QED
      BY <1>6, <1>7, <3>2, <3>4 DEF h
  <2>4. \A g \in Groups : reg_num'[g] = Seen(g, Taken' - 4)
    <3>1. Taken' - 4 \in Int /\ Taken' - 4 <= 1
      BY <1>7
    <3> QED
      BY <1>1, <3>1, SeenNext DEF ResetCounters
  <2>5. allocated' = Registers
    BY <1>1, <1>3, <2>1, DumpFills
  <2>6. Complete' >= NUM_HISTORY => time_wrapped'
    <3>1. CASE Complete >= NUM_HISTORY
      BY <1>6, <2>1, <3>1
    <3>2. CASE Complete + 1 = NUM_HISTORY
      <4>1. Complete \in 0 .. (NUM_HISTORY - 1)
        BY <1>4, <3>2
      <4>2. history_num = Complete
        BY <2>1, <4>1, FirstRound, RingLength
      <4> QED
        BY <1>6, <3>2, <4>2
    <3> QED
      BY <1>4, <1>7, <3>1, <3>2, RingLength
  <2> QED
    BY <1>1, <1>6, <2>2, <2>3, <2>4, <2>5, <2>6 DEF Ring
<1> QED
  BY <1>8, <1>9, <1>10 DEF DInv

\* What the child does once the program has ended.
LEMMA AfterTheEnd ==
  ASSUME DInv, Watching, sim = "halted", Taken = 0, replies = <<>>, ShowNewest(TRUE),
         UNCHANGED <<edge, sim, history, reg_num, setup_registers, allocated>>,
         Complete' = Complete, stdout' = Left(DoneKinds, 2, edge)
  PROVE  DInv'
<1>1. /\ done_received' = TRUE
      /\ \/ /\ child' = "crashed" /\ history_num = 0
            /\ UNCHANGED <<history_num, time_wrapped, replies>>
         \/ /\ child' = "keys" /\ history_num' \in Slot /\ time_wrapped' \in BOOLEAN
            /\ time_wrapped => time_wrapped'
            /\ replies' = replies
  BY NewestShown DEF DInv
<1>2. edge \in Nat /\ 2 \in 0 .. 3 /\ BreaksIn(stdout') = 0
  <2>1. edge \in Nat /\ 2 \in 0 .. 3
    BY DEF DInv, Types
  <2> QED
    BY <2>1, BreaksLeft
<1>3. Types'
  BY <1>1 DEF DInv, Types
<1>4. Pipes'
  <2>1. CASE child' = "crashed"
    BY <1>1, <1>2, <2>1 DEF Pipes, Watching, Lost
  <2>2. CASE child' = "keys"
    <3>1. replies' = <<>>
      BY <1>1, <2>2
    <3>2. 2 \in 0 .. 2 /\ stdout' = Left(DoneKinds, 2, edge') /\ (done_received' <=> 2 = 2)
      BY <1>1
    <3>3. Turns'
      BY <3>1, <3>2 DEF Turns
    <3> QED
      BY <2>2, <3>3 DEF Pipes, Watching
  <2> QED
    BY <1>1, <2>1, <2>2
<1>5. Ring'
  <2>1. Taken' = 0
    BY DEF Taken
  <2>2. Complete >= NUM_HISTORY => time_wrapped'
    BY <1>1 DEF DInv, Ring
  <2> QED
    BY <1>1, <2>1, <2>2 DEF DInv, Ring, Watching
<1> QED
  BY <1>3, <1>4, <1>5 DEF DInv

\* DONE.
LEMMA ReadDoneKeeps ==
  ASSUME DInv, ReadDone
  PROVE  DInv'
<1>1. /\ Reads({"DONE"}) /\ Watching /\ ShowNewest(TRUE)
      /\ UNCHANGED <<edge, sim, history, reg_num, setup_registers, allocated>>
  BY DEF ReadDone, Reads, simVars, inputVars, Watching
<1>2. {"DONE"} \subseteq EndKinds
  BY DEF EndKinds
<1>3. /\ sim = "halted" /\ replies = <<>> /\ Complete = edge /\ Taken = 0
      /\ \E t \in 0 .. 1 : /\ Head(stdout).kind \in {"DONE"}
                           /\ Head(stdout).kind = "DONE" <=> t = 1
                           /\ stdout' = Left(DoneKinds, t + 1, edge)
  BY <1>1, <1>2, DoneLine
<1>4. stdout' = Left(DoneKinds, 2, edge)
  <2>1. PICK t \in 0 .. 1 : /\ Head(stdout).kind \in {"DONE"}
                            /\ Head(stdout).kind = "DONE" <=> t = 1
                            /\ stdout' = Left(DoneKinds, t + 1, edge)
    BY <1>3
  <2>2. t = 1 /\ t + 1 = 2
    BY <2>1
  <2> QED
    BY <2>1, <2>2
<1>5. Complete' = Complete
  <2>1. edge \in Nat /\ 2 \in 0 .. 3
    BY DEF DInv, Types
  <2>2. BreaksIn(stdout') = 0
    BY <1>4, <2>1, BreaksLeft
  <2>3. Complete' = edge' - BreaksIn(stdout')
    BY DEF Complete, BreaksIn
  <2> QED
    BY <1>1, <1>3, <2>1, <2>2, <2>3
<1> QED
  BY <1>1, <1>3, <1>4, <1>5, AfterTheEnd

\* The empty line before it.
LEMMA ReadBlankKeeps ==
  ASSUME DInv, ReadBlank
  PROVE  DInv'
<1> DEFINE blank == {""}
<1>1. /\ Reads(blank) /\ Watching /\ child = "top" /\ child' = child
      /\ UNCHANGED <<edge, sim, replies>> /\ ChildRests
  BY DEF ReadBlank, Reads, simVars, inputVars, ringVars, Watching, ChildRests
<1>2. blank \subseteq EndKinds /\ "DONE" \notin blank
  BY DEF EndKinds
<1> HIDE DEF blank
<1>3. /\ sim = "halted" /\ replies = <<>> /\ ~done_received /\ Complete = edge /\ Taken = 0
      /\ \E t \in 0 .. 1 : /\ Head(stdout).kind \in blank
                           /\ Head(stdout).kind = "DONE" <=> t = 1
                           /\ stdout' = Left(DoneKinds, t + 1, edge)
  BY <1>1, <1>2, DoneLine
<1>4. stdout' = Left(DoneKinds, 1, edge)
  <2>1. PICK t \in 0 .. 1 : /\ Head(stdout).kind \in blank
                            /\ Head(stdout).kind = "DONE" <=> t = 1
                            /\ stdout' = Left(DoneKinds, t + 1, edge)
    BY <1>3
  <2>2. t = 0 /\ t + 1 = 1
    BY <1>2, <2>1
  <2> QED
    BY <2>1, <2>2
<1>5. Complete' = Complete /\ Taken' = 0
  <2>1. edge \in Nat /\ 1 \in 0 .. 3
    BY DEF DInv, Types
  <2>2. BreaksIn(stdout') = 0
    BY <1>4, <2>1, BreaksLeft
  <2>3. Complete' = edge' - BreaksIn(stdout')
    BY DEF Complete, BreaksIn
  <2> QED
    BY <1>1, <1>3, <2>1, <2>2, <2>3 DEF Taken
<1>6. Types'
  BY <1>1 DEF DInv, Types, ChildRests
<1>7. Pipes'
  <2>1. 1 \in 0 .. 2 /\ 1 # 2 /\ ~done_received'
    BY <1>1, <1>3 DEF ChildRests
  <2>2. stdout' = Left(DoneKinds, 1, edge') /\ (done_received' <=> 1 = 2)
    BY <1>1, <1>4, <2>1
  <2>3. Turns'
    BY <1>1, <1>3, <2>1, <2>2 DEF Turns
  <2> QED
    BY <1>1, <2>3 DEF Pipes, Watching
<1>8. Ring'
  BY <1>1, <1>3, <1>5, RingRests
<1> QED
  BY <1>6, <1>7, <1>8 DEF DInv

\* Nothing is read after DONE.
LEMMA AgainKeeps ==
  ASSUME DInv, Again
  PROVE  DInv'
<1>1. /\ child = "top" /\ done_received /\ Watching /\ ShowNewest(TRUE)
      /\ UNCHANGED <<edge, sim, stdout, history, reg_num, setup_registers, allocated>>
  BY DEF Again, simVars, inputVars, Watching
<1>2. /\ sim = "halted" /\ replies = <<>> /\ Complete = edge /\ Taken = 0
      /\ \E t \in 0 .. 2 : stdout = Left(DoneKinds, t, edge) /\ (done_received <=> t = 2)
  BY <1>1, PipesHold DEF DInv, Pipes
<1>3. stdout' = Left(DoneKinds, 2, edge)
  BY <1>1, <1>2
<1>4. Complete' = Complete
  BY <1>1 DEF Complete
<1> QED
  BY <1>1, <1>2, <1>3, <1>4, AfterTheEnd

---------------------------------------------------------------------------
(* The keys *)

\* A key that only moves the view, or leaves the key loop.
LEMMA KeysKeep ==
  ASSUME DInv, child = "keys", child' \in {"keys", "top"}, UNCHANGED KeyVars
  PROVE  DInv'
<1>1. UNCHANGED <<edge, sim, stdout, replies, history, reg_num, setup_registers, allocated,
                  history_num, time_wrapped, done_received>> /\ Watching /\ Watching'
  BY DEF KeyVars, simVars, inputVars, ringVars, Watching
<1>2. Types'
  BY <1>1 DEF DInv, Types
<1>3. Turns'
  BY <1>1 DEF DInv, Pipes, Turns
<1>4. Pipes'
  BY <1>1, <1>3 DEF Pipes, Watching
<1>5. Ring'
  BY <1>1 DEF DInv, Ring, Complete, Taken
<1> QED
  BY <1>2, <1>4, <1>5 DEF DInv

\* 'q': the reply that ends the simulation follows the one that may be under way.
LEMMA KeyQuitKeeps ==
  ASSUME DInv, KeyQuit
  PROVE  DInv'
<1>1. /\ child = "keys" /\ child' = "exited" /\ Watching /\ replies' = Append(replies, "Z")
      /\ UNCHANGED <<edge, sim, stdout, history, reg_num, setup_registers, allocated,
                     history_num, time_wrapped, done_received>>
  BY DEF KeyQuit, simVars, inputVars, ringVars, Watching
<1>2. Types'
  BY <1>1 DEF DInv, Types
<1>3. edge \in Nat /\ Turns
  BY <1>1 DEF DInv, Types, Pipes
<1>4. BreaksIn(stdout) \in {0, 1} /\ (replies = <<>> \/ (replies = <<"n">> /\ sim = "wait"))
  <2>1. CASE stdout = <<>>
    BY <1>3, <2>1, BreaksLeft DEF Turns
  <2>2. CASE sim = "wait" /\ replies = <<>> /\ edge >= 1 /\ \E t \in 0 .. (DumpLen - 1) : stdout = Left(DumpKinds, t, edge - 1)
    <3>1. edge - 1 \in Nat
      BY <1>3, <2>2
    <3> QED
      BY <2>2, <3>1, BreaksLeft
  <2>3. CASE replies = <<>> /\ \E t \in 0 .. 2 : stdout = Left(DoneKinds, t, edge)
    <3>1. \A t \in 0 .. 2 : t \in 0 .. 3
      OBVIOUS
    <3> QED
      BY <1>3, <2>3, <3>1, BreaksLeft
  <2> QED
    BY <1>3, <2>1, <2>2, <2>3 DEF Turns
<1>5. Quits'
  <2>1. BreaksIn(stdout') = BreaksIn(stdout)
    BY <1>1
  <2>2. \/ replies' = <<"Z">>
        \/ replies' = <<"n", "Z">> /\ sim = "wait"
    <3>1. Append(<<>>, "Z") = <<"Z">>
      OBVIOUS
    <3>2. Append(<<"n">>, "Z") = <<"n", "Z">>
      <4> DEFINE s == Append(<<"n">>, "Z")
                 u == <<"n", "Z">>
      <4>1. s \in Seq({"n", "Z"}) /\ Len(s) = 2 /\ s[1] = "n" /\ s[2] = "Z"
        OBVIOUS
      <4>2. u \in Seq({"n", "Z"}) /\ Len(u) = 2 /\ u[1] = "n" /\ u[2] = "Z"
        OBVIOUS
      <4> HIDE DEF s, u
      <4>3. \A j \in 1 .. 2 : s[j] = u[j]
        BY <4>1, <4>2
      <4>4. s = u
        BY <4>1, <4>2, <4>3, SeqEqual
      <4> QED
        BY <4>4 DEF s, u
    <3> QED
      BY <1>1, <1>4, <3>1, <3>2
  <2>3. <<"Z">> # <<"n", "Z">>
    OBVIOUS
  <2> QED
    BY <1>1, <1>4, <2>1, <2>2, <2>3 DEF Quits
<1>6. Pipes'
  BY <1>1, <1>5 DEF Pipes, Watching
<1>7. Ring'
  BY <1>1 DEF Ring, Watching
<1> QED
  BY <1>2, <1>6, <1>7 DEF DInv

---------------------------------------------------------------------------
(* What the ring holds *)

\* The invariant holds before the first edge.
LEMMA InitHolds == Init => DInv
<1> SUFFICES ASSUME Init PROVE DInv
  OBVIOUS
<1>1. NUM_HISTORY \in Nat \ {0} /\ 0 \in Slot /\ 0 % NUM_HISTORY = 0
  <2>1. 0 \in 0 .. (NUM_HISTORY - 1)
    BY RingLength DEF Slot
  <2> QED
    BY <2>1, RingLength, FirstRound
<1>2. Complete = 0 /\ Taken = 0
  <2>1. edge = 0 /\ sim = "run" /\ stdout = <<>>
    BY DEF Init
  <2> QED
    BY <2>1, CompleteIs, BreaksLeft DEF Taken
<1>3. Types
  BY <1>1 DEF Init, Types, Unfilled
<1>4. Pipes
  BY DEF Init, Pipes, Watching, Turns
<1>5. Ring
  <2>1. \A k : LatestOf(0, k) = None
    BY DEF LatestOf
  <2>2. \A g : Seen(g, Taken - 4) = 0
    <3>1. Taken - 4 \in Int /\ Taken - 4 <= 1
      BY <1>2
    <3> QED
      BY <3>1, SeenNext
  <2>3. Filled(Taken) = {} /\ FilledRegisters(Taken) = {}
    BY <1>2, FilledNext
  <2>4. ~ (Complete >= NUM_HISTORY)
    BY <1>1, <1>2
  <2> QED
    BY <1>1, <1>2, <2>1, <2>2, <2>3, <2>4 DEF Init, Ring, Unfilled
<1> QED
  BY <1>3, <1>4, <1>5 DEF DInv

\* Every step keeps it.
LEMMA StepKeeps == DInv /\ [Next]_vars => DInv'
<1> SUFFICES ASSUME DInv, [Next]_vars PROVE DInv'
  OBVIOUS
<1>1. CASE Simulation
  BY <1>1, DumpEdgeKeeps, HaltKeeps, ResponseKeeps DEF Simulation
<1>2. CASE MainLoop
  <2>1. ASSUME NoKey PROVE DInv'
    BY <2>1, KeysKeep DEF NoKey, LeaveKeys
  <2> QED
    BY <1>2, <2>1, ReadSingleKeeps, ReadRegisterKeeps, ReadBreakKeeps, ReadDoneKeeps, ReadBlankKeeps,
       AgainKeeps DEF MainLoop
<1>3. CASE Keys
  <2>1. ASSUME KeyPause PROVE DInv'
    BY <2>1, KeysKeep DEF KeyPause, LeaveKeys
  <2>2. ASSUME KeyNextEdge PROVE DInv'
    BY <2>2, KeysKeep DEF KeyNextEdge, LeaveKeys
  <2>3. ASSUME KeyForward PROVE DInv'
    BY <2>3, KeysKeep DEF KeyForward
  <2>4. ASSUME KeyBack PROVE DInv'
    BY <2>4, KeysKeep DEF KeyBack
  <2>5. ASSUME KeyRun PROVE DInv'
    BY <2>5, KeysKeep DEF KeyRun, LeaveKeys
  <2>6. ASSUME KeyGoto PROVE DInv'
    <3>1. child = "keys" /\ child' \in {"keys", "top"} /\ UNCHANGED KeyVars
      BY <2>6 DEF KeyGoto, LeaveKeys
    <3> QED
      BY <3>1, KeysKeep
  <2> QED
    BY <1>3, <2>1, <2>2, <2>3, <2>4, <2>5, <2>6, KeyQuitKeeps DEF Keys
<1>4. CASE UNCHANGED vars
  <2>1. UNCHANGED <<edge, sim, stdout, replies, history, reg_num, setup_registers, allocated,
                    history_num, time_wrapped, done_received, child>>
    BY <1>4 DEF vars, simVars, inputVars, ringVars
  <2>2. Types'
    BY <2>1 DEF DInv, Types
  <2>3. Pipes'
    BY <2>1 DEF DInv, Pipes, Watching, Turns, Quits, Lost, BreaksIn
  <2>4. Ring'
    BY <2>1 DEF DInv, Ring, Watching, Complete, Taken
  <2> QED
    BY <2>2, <2>3, <2>4 DEF DInv
<1> QED
  BY <1>1, <1>2, <1>3, <1>4 DEF Next

\* The invariant of the two processes and the ring.
LEMMA DebuggerInvariant == Spec => []DInv
  BY InitHolds, StepKeeps, PTL DEF Spec

\* The invariant says what every slot holds while a key can be pressed.
LEMMA DumpsHeld == DInv => HistoryHoldsLatest
<1> SUFFICES ASSUME DInv PROVE HistoryHoldsLatest
  OBVIOUS
<1>1. child = "crashed" => done_received /\ history_num = 0
  BY DEF DInv, Pipes, Lost
<1>2. ASSUME child = "keys"
      PROVE  /\ \A k \in Slot, p \in Place : history[k][p] = Latest(k)
             /\ done_received \/ history_num = Complete % NUM_HISTORY
  <2>1. Watching /\ Types /\ Turns
    BY <1>2 DEF Watching, DInv, Pipes
  <2>2. Taken = 0
    BY <1>2, <2>1, PipesHold
  <2>3. Filled(Taken) = {}
    BY <2>2, FilledNext
  <2> QED
    BY <2>1, <2>3, CompleteIs DEF DInv, Ring
<1> QED
  BY <1>1, <1>2 DEF HistoryHoldsLatest

\* Whenever a key can be pressed every slot holds the latest whole dump that
\* belongs there, and the child leaves its arrays only when a program ends at slot 0.
THEOREM RingHoldsLatest == Spec => []HistoryHoldsLatest
  BY DumpsHeld, DebuggerInvariant, PTL

\* The simulation is at most one dump ahead of the child, and neither waits for
\* the other.
THEOREM NeitherWaits == Spec => []OneDumpAhead
<1>1. DInv => OneDumpAhead
  <2> SUFFICES ASSUME DInv PROVE OneDumpAhead
    OBVIOUS
  <2>1. sim # "finished" /\ edge \in Nat
    BY DEF DInv, Types
  <2>2. edge - Complete <= 1
    <3>1. CASE Watching
      BY <2>1, <3>1, PipesHold DEF DInv, Pipes
    <3>2. CASE ~Watching
      <4>1. BreaksIn(stdout) \in {0, 1}
        BY <3>2 DEF DInv, Types, Pipes, Watching, Quits, Lost
      <4> QED
        BY <2>1, <4>1, CompleteIs
    <3> QED
      BY <3>1, <3>2
  <2>3. (child = "top" /\ ~done_received) => sim = "run" \/ stdout # <<>> \/ replies # <<>>
    <3> SUFFICES ASSUME child = "top", ~done_received, sim # "run", stdout = <<>>, replies = <<>> PROVE FALSE
      OBVIOUS
    <3>1. Turns /\ Types
      BY DEF DInv, Pipes, Watching
    <3>2. CASE \E t \in 0 .. (DumpLen - 1) : stdout = Left(DumpKinds, t, edge - 1) /\ edge >= 1
      <4>1. PICK t \in 0 .. (DumpLen - 1) : stdout = Left(DumpKinds, t, edge - 1) /\ edge >= 1
        BY <3>2
      <4>2. edge - 1 \in Nat /\ t \in 0 .. Len(DumpKinds) /\ t # Len(DumpKinds)
        BY <2>1, <4>1, DumpSizes
      <4> QED
        BY <4>1, <4>2, DumpSizes, LeftShape
    <3>3. CASE \E t \in 0 .. 2 : stdout = Left(DoneKinds, t, edge)
      <4>1. PICK t \in 0 .. 2 : stdout = Left(DoneKinds, t, edge)
        BY <3>3
      <4>2. t \in 0 .. Len(DoneKinds) /\ t # Len(DoneKinds)
        BY DumpSizes
      <4>3. Left(DoneKinds, t, edge) # <<>>
        BY <2>1, <4>2, DumpSizes, LeftShape
      <4> QED
        BY <4>1, <4>3
    <3> QED
      BY <3>1, <3>2, <3>3 DEF Turns
  <2>4. Cardinality({n \in DOMAIN replies : replies[n] = "n"}) <= 1
    <3>1. replies = <<>> \/ replies = <<"n">> \/ replies = <<"Z">> \/ replies = <<"n", "Z">>
      BY DEF DInv, Types, Pipes, Watching, Turns, Quits, Lost
    <3>2. \/ {n \in DOMAIN replies : replies[n] = "n"} = {}
          \/ {n \in DOMAIN replies : replies[n] = "n"} = {1}
      <4>1. CASE replies = <<>>
        BY <4>1
      <4>2. CASE replies = <<"n">>
        BY <4>2
      <4>3. CASE replies = <<"Z">>
        BY <4>3
      <4>4. CASE replies = <<"n", "Z">>
        <5>1. DOMAIN replies = 1 .. 2 /\ replies[1] = "n" /\ replies[2] = "Z"
          BY <4>4
        <5> QED
          BY <5>1
      <4> QED
        BY <3>1, <4>1, <4>2, <4>3, <4>4
    <3>3. Cardinality({}) = 0 /\ Cardinality({1}) = 1
      BY FS_EmptySet, FS_Singleton
    <3> QED
      BY <3>2, <3>3
  <2> QED
    BY <2>1, <2>2, <2>3, <2>4 DEF OneDumpAhead
<1> QED
  BY <1>1, DebuggerInvariant, PTL

---------------------------------------------------------------------------
(* What is on the screen *)

\* A slot that is drawn is on the screen, with its clock.
LEMMA Drawn ==
  ASSUME Views, NEW k, NEW h, NEW done, screen' = parsedata(k, h, done)
  PROVE  /\ screen'.sample = history[k]
         /\ screen'.cur_clock_val = IF history[k][<<"c", 0>>] = None THEN 0 ELSE Clock(history[k][<<"c", 0>>])
         /\ screen'.clock \in {None, screen'.cur_clock_val}
<1> DEFINE val == IF history[k][<<"c", 0>>] = None THEN 0 ELSE Clock(history[k][<<"c", 0>>])
<1>1. screen'.sample = history[k] /\ screen'.cur_clock_val = val /\ screen'.clock = update_clock(val, h)
  BY DEF parsedata
<1> HIDE DEF val
<1>2. update_clock(val, h) = val \/ (update_clock(val, h) = screen.clock /\ val = screen.cur_clock_val)
  BY DEF update_clock
<1>3. screen.clock \in {None, screen.cur_clock_val}
  BY DEF Views
<1>4. screen'.clock \in {None, screen'.cur_clock_val}
  BY <1>1, <1>2, <1>3
<1> QED
  BY <1>1, <1>4 DEF val

\* A step that leaves the view alone, and the key loop if it was there.
LEMMA ViewsRest ==
  ASSUME Views, UNCHANGED <<viewVars, runVars>>,
         child' # "keys" \/ (UNCHANGED child /\ UNCHANGED history)
  PROVE  Views'
<1>1. UNCHANGED <<hist_num_temp, screen, echo_data, running>>
  BY DEF viewVars, runVars
<1> QED
  BY <1>1 DEF Views

\* Leaving the key loop ends or starts a run, and shows nothing.
LEMMA LeavingKeeps ==
  ASSUME Views, NEW echo, NEW run \in BOOLEAN, NEW goto, NEW cycle, NEW stop,
         echo = IF run THEN 0 ELSE 1, LeaveKeys(echo, run, goto, cycle, stop),
         \/ UNCHANGED viewVars
         \/ \E k \in Slot : \E h, done : hist_num_temp' = k /\ screen' = parsedata(k, h, done)
  PROVE  Views'
<1>1. child' = "top" /\ running' \in BOOLEAN /\ echo_data' = IF running' THEN 0 ELSE 1
  <2> DEFINE there == goto /\ (TimeAt(hist_num_temp, cycle, 0) >= stop \/ done_received)
  <2>1. /\ child' = "top" /\ echo_data' = IF there THEN 1 ELSE echo
        /\ running' = (run /\ ~there)
    BY DEF LeaveKeys
  <2> HIDE DEF there
  <2>2. CASE there
    BY <2>1, <2>2
  <2>3. CASE ~there
    BY <2>1, <2>3
  <2> QED
    BY <2>1, <2>2, <2>3
<1>2. hist_num_temp' \in Slot /\ screen'.clock \in {None, screen'.cur_clock_val}
  <2>1. CASE UNCHANGED viewVars
    BY <2>1 DEF viewVars, Views
  <2>2. CASE \E k \in Slot : \E h, done : hist_num_temp' = k /\ screen' = parsedata(k, h, done)
    BY <2>2, Drawn
  <2> QED
    BY <2>1, <2>2
<1> QED
  BY <1>1, <1>2 DEF Views

\* Showing a slot in the key loop.
LEMMA ShowingKeeps ==
  ASSUME Views, NEW k \in Slot, Show(k), ~running, ~running', echo_data' = 1, UNCHANGED history, running' \in BOOLEAN
  PROVE  Views'
<1>1. /\ hist_num_temp' = k /\ screen'.sample = history[k]
      /\ screen'.clock \in {None, screen'.cur_clock_val}
  BY Drawn DEF Show
<1> QED
  BY <1>1 DEF Views

\* The newest slot is on the screen unless the child runs.
LEMMA NewestKeeps ==
  ASSUME DInv, Views, NEW done \in BOOLEAN, ShowNewest(done), UNCHANGED history
  PROVE  Views'
<1> DEFINE newest == IF Ended(done) THEN history_num - 1 ELSE history_num
           next == (newest + 1) % NUM_HISTORY
           time == IF done THEN history_num - 1 ELSE done_time
<1>1. \/ child' = "crashed" /\ UNCHANGED <<viewVars, runVars>>
      \/ /\ ~ (newest < 0) /\ child' = "keys"
         /\ echo_data' = IF Ended(done) THEN 1 ELSE echo_data
         /\ running' = (running /\ ~Ended(done))
         /\ screen' = IF echo_data' = 1 THEN parsedata(newest, newest, time) ELSE screen
         /\ hist_num_temp' = IF next = 0 THEN NUM_HISTORY - 1 ELSE next - 1
  BY DEF ShowNewest
<1>2. /\ NUM_HISTORY \in Nat \ {0} /\ history_num \in 0 .. (NUM_HISTORY - 1)
  BY RingLength DEF DInv, Types, Slot
<1>3. ASSUME ~ (newest < 0)
      PROVE  newest \in Slot /\ newest = IF next = 0 THEN NUM_HISTORY - 1 ELSE next - 1
  <2>1. newest \in 0 .. (NUM_HISTORY - 1) /\ newest \in Nat
    BY <1>2, <1>3
  <2> HIDE DEF newest
  <2>2. newest % NUM_HISTORY = newest
    BY <1>2, <2>1, FirstRound
  <2>3. next = IF newest = NUM_HISTORY - 1 THEN 0 ELSE newest + 1
    BY <1>2, <2>1, <2>2, NextSlot
  <2> HIDE DEF next
  <2> QED
    BY <1>2, <2>1, <2>3 DEF Slot
<1> HIDE DEF newest, next, time
<1>4. CASE child' = "crashed" /\ UNCHANGED <<viewVars, runVars>>
  BY <1>4, ViewsRest
<1>5. CASE /\ ~ (newest < 0) /\ child' = "keys"
           /\ echo_data' = IF Ended(done) THEN 1 ELSE echo_data
           /\ running' = (running /\ ~Ended(done))
           /\ screen' = IF echo_data' = 1 THEN parsedata(newest, newest, time) ELSE screen
           /\ hist_num_temp' = IF next = 0 THEN NUM_HISTORY - 1 ELSE next - 1
  <2>1. running' \in BOOLEAN /\ echo_data' = IF running' THEN 0 ELSE 1
    <3>1. running \in BOOLEAN /\ echo_data = IF running THEN 0 ELSE 1
      BY DEF Views
    <3>2. CASE Ended(done)
      BY <1>5, <3>1, <3>2
    <3>3. CASE ~Ended(done)
      BY <1>5, <3>1, <3>3
    <3> QED
      BY <3>2, <3>3
  <2>2. hist_num_temp' = newest /\ newest \in Slot
    BY <1>3, <1>5
  <2>3. screen'.clock \in {None, screen'.cur_clock_val}
    BY <1>5, Drawn DEF Views
  <2>4. ~running' => screen'.sample = history[newest]
    BY <1>5, <2>1, Drawn
  <2> QED
    BY <2>1, <2>2, <2>3, <2>4 DEF Views
<1> QED
  BY <1>1, <1>4, <1>5

\* Going around the ring from a slot ends at a slot.
LEMMA BesideIsSlot ==
  ASSUME hist_num_temp \in Slot, NEW d \in {1, -1}, NEW n \in Int
  PROVE  Beside(d, n) \in Slot
<1>1. hist_num_temp \in Int /\ NUM_HISTORY \in Nat \ {0}
  BY RingLength DEF Slot
<1>2. hist_num_temp + d * n \in Int
  BY <1>1
<1>3. \A a \in Int : a % NUM_HISTORY \in 0 .. (NUM_HISTORY - 1)
  BY <1>1
<1> QED
  BY <1>2, <1>3 DEF Beside, Slot

\* The search of the history stops at a slot.
LEMMA HitIsSlot ==
  ASSUME hist_num_temp \in Slot, NEW d \in {1, -1}, NEW cycle, NEW stop, NEW cur,
         Hits(d, cycle, stop, cur) # {}
  PROVE  LastVisited(d, Hits(d, cycle, stop, cur)) \in Slot
<1> DEFINE hits == Hits(d, cycle, stop, cur)
<1>1. PICK all : all \subseteq Visited(d) /\ hits = IF all = {} THEN {} ELSE {Min(all)}
  BY DEF Hits
<1>2. all # {} /\ hits = {Min(all)}
  BY <1>1
<1>3. all \in SUBSET Nat
  BY <1>1 DEF Visited
<1>4. Min(all) \in Nat
  <2> DEFINE c == CHOOSE x \in all : \A y \in all : x =< y
  <2>1. \E x \in all : \A y \in all : x =< y
    BY <1>2, <1>3, LeastElement
  <2>2. c \in all
    BY <2>1, Zenon
  <2>3. Min(all) = c
    BY DEF Min
  <2> HIDE DEF c
  <2> QED
    BY <1>3, <2>2, <2>3
<1> HIDE DEF hits
<1>5. Max(hits) = Min(all)
  BY <1>2, <1>4, MaxIs
<1>6. LastVisited(d, hits) = Beside(d, Max(hits))
  BY <1>2 DEF LastVisited
<1> QED
  BY <1>4, <1>5, <1>6, BesideIsSlot DEF hits

\* A line, or the end of a dump.
LEMMA MainLoopViews ==
  ASSUME DInv, Views, MainLoop
  PROVE  Views'
<1>1. CASE ReadSingle \/ ReadRegister
  <2>1. UNCHANGED <<viewVars, runVars>> /\ child' # "keys"
    BY <1>1 DEF ReadSingle, ReadRegister, Reads
  <2> QED
    BY <2>1, ViewsRest
<1>2. CASE ReadBlank
  <2> DEFINE blank == {""}
  <2>1. UNCHANGED <<viewVars, runVars>> /\ child' # "keys"
    <3>1. Reads(blank) /\ UNCHANGED <<viewVars, runVars, child>>
      BY <1>2 DEF ReadBlank
    <3> HIDE DEF blank
    <3> QED
      BY <3>1 DEF Reads
  <2> QED
    BY <2>1, ViewsRest
<1>3. CASE ReadBreak \/ ReadDone \/ Again
  <2>1. UNCHANGED history /\ (ShowNewest(TRUE) \/ ShowNewest(FALSE))
    BY <1>3 DEF ReadBreak, ReadDone, Again, inputVars
  <2> QED
    BY <2>1, NewestKeeps
<1>4. CASE NoKey
  <2>1. LeaveKeys(echo_data, running, goto_flag, cycle_flag, stop_time) /\ UNCHANGED viewVars
    BY <1>4 DEF NoKey
  <2>2. running \in BOOLEAN /\ echo_data = IF running THEN 0 ELSE 1
    BY DEF Views
  <2> QED
    BY <2>1, <2>2, LeavingKeeps
<1> QED
  BY <1>1, <1>2, <1>3, <1>4 DEF MainLoop

\* A key.
LEMMA KeysViews ==
  ASSUME Views, Keys
  PROVE  Views'
<1>1. /\ hist_num_temp \in Slot /\ running \in BOOLEAN /\ echo_data = IF running THEN 0 ELSE 1
      /\ NUM_HISTORY \in Nat \ {0} /\ NUM_HISTORY > 1
  BY RingLength DEF Views
<1>2. CASE KeyPause
  <2>1. Show(hist_num_temp) /\ UNCHANGED history
    BY <1>2 DEF KeyPause, KeyVars, inputVars
  <2>2. CASE running
    <3>1. LeaveKeys(1, FALSE, goto_flag, cycle_flag, stop_time)
      BY <1>2, <2>2 DEF KeyPause
    <3>2. \E k \in Slot : \E h, done : hist_num_temp' = k /\ screen' = parsedata(k, h, done)
      BY <1>1, <2>1 DEF Show
    <3> QED
      BY <3>1, <3>2, LeavingKeeps
  <2>3. CASE ~running
    <3>1. echo_data' = 1 /\ running' = running
      BY <1>2, <2>3 DEF KeyPause
    <3> QED
      BY <1>1, <2>1, <2>3, <3>1, ShowingKeeps
  <2> QED
    BY <2>2, <2>3
<1>3. CASE KeyNextEdge \/ KeyRun
  <2>1. /\ UNCHANGED viewVars
        /\ \/ LeaveKeys(echo_data, running, goto_flag, cycle_flag, stop_time)
           \/ LeaveKeys(0, TRUE, goto_flag, cycle_flag, stop_time)
    BY <1>3 DEF KeyNextEdge, KeyRun
  <2> QED
    BY <1>1, <2>1, LeavingKeeps
<1>4. CASE KeyForward \/ KeyBack
  <2>1. ~running /\ UNCHANGED <<running, echo_data, history>>
    BY <1>4 DEF KeyForward, KeyBack, runVars, KeyVars, inputVars
  <2>2. \E k \in Slot : Show(k)
    <3>1. hist_num_temp \in 0 .. (NUM_HISTORY - 1)
      BY <1>1 DEF Slot
    <3>2. (hist_num_temp + 1) % NUM_HISTORY \in Slot
      BY <1>1, <3>1, RingLength
    <3>3. hist_num_temp > 0 => hist_num_temp - 1 \in Slot
      BY <1>1, <3>1 DEF Slot
    <3>4. NUM_HISTORY - 1 \in Slot
      BY <1>1 DEF Slot
    <3> QED
      BY <1>4, <3>2, <3>3, <3>4 DEF KeyForward, KeyBack
  <2> QED
    BY <1>1, <2>1, <2>2, ShowingKeeps
<1>5. CASE KeyQuit
  <2>1. UNCHANGED <<viewVars, runVars>> /\ child' # "keys"
    BY <1>5 DEF KeyQuit
  <2> QED
    BY <2>1, ViewsRest
<1>6. CASE KeyGoto
  <2>1. child = "keys" /\ ~running /\ UNCHANGED history
    BY <1>6 DEF KeyGoto, KeyVars, inputVars
  <2>2. \E d \in {1, -1} : \E cycle, asked, cur, stop :
          LET hits == Hits(d, cycle, asked, cur)
              last == LastVisited(d, hits)
          IN /\ IF hits # {} THEN Show(last)
                ELSE IF Searches(d) /\ GivesUp(d) THEN Show(hist_num_temp)
                ELSE UNCHANGED viewVars
             /\ \/ LeaveKeys(0, TRUE, TRUE, cycle, stop)
                \/ UNCHANGED <<child, runVars>>
    <3>1. PICK cycle \in BOOLEAN, asked \in get_time, junk \in get_time :
            LET cur == TimeAt(hist_num_temp, cycle, junk)
                d == IF asked > cur THEN 1 ELSE -1
                hits == Hits(d, cycle, asked, cur)
                last == LastVisited(d, hits)
                forget == \/ hits # {} \/ (Searches(d) /\ GivesUp(d))
                          \/ last = history_num /\ (d = -1 \/ done_received)
                stop == IF forget THEN 0 ELSE asked
            IN
            /\ i' = last
            /\ IF hits # {} THEN Show(last)
               ELSE IF Searches(d) /\ GivesUp(d) THEN Show(hist_num_temp)
               ELSE UNCHANGED viewVars
            /\ IF stop > 0 THEN LeaveKeys(0, TRUE, TRUE, cycle, stop)
               ELSE /\ cycle_flag' = cycle /\ stop_time' = stop
                    /\ UNCHANGED <<child, runVars, goto_flag>>
      BY <1>6, Zenon DEF KeyGoto
    <3> DEFINE cur == TimeAt(hist_num_temp, cycle, junk)
               d == IF asked > cur THEN 1 ELSE -1
               hits == Hits(d, cycle, asked, cur)
               last == LastVisited(d, hits)
               forget == \/ hits # {} \/ (Searches(d) /\ GivesUp(d))
                         \/ last = history_num /\ (d = -1 \/ done_received)
               stop == IF forget THEN 0 ELSE asked
    <3>2. d \in {1, -1}
      OBVIOUS
    <3>3. /\ IF hits # {} THEN Show(last)
             ELSE IF Searches(d) /\ GivesUp(d) THEN Show(hist_num_temp)
             ELSE UNCHANGED viewVars
          /\ \/ LeaveKeys(0, TRUE, TRUE, cycle, stop)
             \/ UNCHANGED <<child, runVars>>
      BY <3>1, Zenon
    <3> HIDE DEF d, cur, stop
    <3> QED
      BY <3>2, <3>3, Zenon
  <2>3. PICK d \in {1, -1} : \E cycle, asked, cur, stop :
          LET hits == Hits(d, cycle, asked, cur)
              last == LastVisited(d, hits)
          IN /\ IF hits # {} THEN Show(last)
                ELSE IF Searches(d) /\ GivesUp(d) THEN Show(hist_num_temp)
                ELSE UNCHANGED viewVars
             /\ \/ LeaveKeys(0, TRUE, TRUE, cycle, stop)
                \/ UNCHANGED <<child, runVars>>
    BY <2>2, Zenon
  <2>4. PICK cycle, asked, cur, stop :
          LET hits == Hits(d, cycle, asked, cur)
              last == LastVisited(d, hits)
          IN /\ IF hits # {} THEN Show(last)
                ELSE IF Searches(d) /\ GivesUp(d) THEN Show(hist_num_temp)
                ELSE UNCHANGED viewVars
             /\ \/ LeaveKeys(0, TRUE, TRUE, cycle, stop)
                \/ UNCHANGED <<child, runVars>>
    BY <2>3, Zenon
  <2> DEFINE hits == Hits(d, cycle, asked, cur)
  <2>5. hits # {} => LastVisited(d, hits) \in Slot
    BY <1>1, HitIsSlot
  <2> HIDE DEF hits
  <2>6. (\E k \in Slot : Show(k)) \/ UNCHANGED viewVars
    BY <1>1, <2>4, <2>5 DEF hits
  <2>7. CASE LeaveKeys(0, TRUE, TRUE, cycle, stop)
    <3>1. UNCHANGED viewVars \/ \E k \in Slot : \E h, done : hist_num_temp' = k /\ screen' = parsedata(k, h, done)
      BY <2>6 DEF Show
    <3> QED
      BY <2>7, <3>1, LeavingKeeps
  <2>8. CASE UNCHANGED <<child, runVars>>
    <3>1. CASE \E k \in Slot : Show(k)
      <4>1. UNCHANGED <<running, echo_data>>
        BY <2>8 DEF runVars
      <4> QED
        BY <1>1, <2>1, <3>1, <4>1, ShowingKeeps
    <3>2. CASE UNCHANGED viewVars
      BY <2>1, <2>8, <3>2, ViewsRest
    <3> QED
      BY <2>6, <3>1, <3>2
  <2> QED
    BY <2>4, <2>7, <2>8
<1> QED
  BY <1>2, <1>3, <1>4, <1>5, <1>6 DEF Keys

\* The slot shown is on the screen whenever a key can be pressed.
LEMMA ViewsInvariant == Spec => [](DInv /\ Views)
<1>1. Init => Views
  <2> SUFFICES ASSUME Init PROVE Views
    OBVIOUS
  <2>1. /\ child = "top" /\ hist_num_temp = 0 /\ screen.clock = None
        /\ echo_data = 1 /\ running = FALSE
    BY DEF Init
  <2> QED
    BY <2>1, RingLength DEF Views
<1>2. DInv /\ Views /\ [Next]_vars => Views'
  <2> SUFFICES ASSUME DInv, Views, [Next]_vars PROVE Views'
    OBVIOUS
  <2>1. CASE Simulation
    <3>1. UNCHANGED <<viewVars, runVars, child, history>>
      BY <2>1 DEF Simulation, DumpEdge, Halt, waitforresponse, inputVars
    <3> QED
      BY <3>1, ViewsRest
  <2>2. CASE UNCHANGED vars
    <3>1. UNCHANGED <<viewVars, runVars, child, history>>
      BY <2>2 DEF vars, inputVars
    <3> QED
      BY <3>1, ViewsRest
  <2> QED
    BY <2>1, <2>2, MainLoopViews, KeysViews DEF Next
<1> QED
  BY <1>1, <1>2, InitHolds, StepKeeps, PTL DEF Spec

---------------------------------------------------------------------------
(* Walking the ring *)

\* The edge before an edge of the ring is in the slot before its slot, or that
\* slot has gone to the newest edge.
LEMMA SlotBefore ==
  ASSUME NEW n \in Nat, NEW h \in Slot, LatestOf(n, h) # None, h = 0 => n >= NUM_HISTORY
  PROVE  /\ h = n % NUM_HISTORY => n >= NUM_HISTORY /\ LatestOf(n, h) = n - NUM_HISTORY
         /\ LatestOf(n, IF h = 0 THEN NUM_HISTORY - 1 ELSE h - 1)
              = IF h = n % NUM_HISTORY THEN n - 1 ELSE LatestOf(n, h) - 1
         /\ LatestOf(n, IF h = 0 THEN NUM_HISTORY - 1 ELSE h - 1) \in Nat
<1> DEFINE e == LatestOf(n, h)
           p == IF h = 0 THEN NUM_HISTORY - 1 ELSE h - 1
<1>1. NUM_HISTORY \in Nat \ {0} /\ NUM_HISTORY > 1 /\ h \in 0 .. (NUM_HISTORY - 1)
  BY RingLength DEF Slot
<1>2. e \in 0 .. (n - 1) /\ e % NUM_HISTORY = h /\ e + NUM_HISTORY >= n
  BY LatestFound
<1>3. \A a \in Nat : (a + 1) % NUM_HISTORY = h => a % NUM_HISTORY = p
  <2> SUFFICES ASSUME NEW a \in Nat, (a + 1) % NUM_HISTORY = h PROVE a % NUM_HISTORY = p
    OBVIOUS
  <2>1. (a + 1) % NUM_HISTORY = IF a % NUM_HISTORY = NUM_HISTORY - 1 THEN 0 ELSE (a % NUM_HISTORY) + 1
    BY <1>1, NextSlot
  <2>2. a % NUM_HISTORY \in 0 .. (NUM_HISTORY - 1)
    BY <1>1, Remainder
  <2> QED
    BY <1>1, <2>1, <2>2
<1> HIDE DEF e, p
<1>4. CASE h = n % NUM_HISTORY
  <2>1. n >= e + NUM_HISTORY
    <3>1. e \in Nat /\ e < n /\ e % NUM_HISTORY = n % NUM_HISTORY
      BY <1>2, <1>4
    <3> QED
      BY <1>1, <3>1, SameSlot
  <2>2. n - 1 \in 0 .. (n - 1) /\ (n - 1) + NUM_HISTORY >= n /\ n >= NUM_HISTORY /\ n - 1 \in Nat
        /\ (n - 1) + 1 = n /\ e = n - NUM_HISTORY
    BY <1>1, <1>2, <2>1
  <2>3. (n - 1) % NUM_HISTORY = p
    BY <1>3, <1>4, <2>2
  <2>4. LatestOf(n, (n - 1) % NUM_HISTORY) = n - 1
    BY <2>2, LatestIs
  <2> QED
    BY <1>4, <2>2, <2>3, <2>4 DEF e, p
<1>5. CASE h # n % NUM_HISTORY
  <2>1. e + NUM_HISTORY # n
    <3>1. e \in Nat
      BY <1>2
    <3> QED
      BY <1>1, <1>2, <1>5, <3>1, OneRound
  <2>2. e >= 1
    <3>1. CASE h = 0
      BY <1>1, <1>2, <2>1, <3>1
    <3>2. CASE h # 0
      <4>1. 0 % NUM_HISTORY = 0
        <5>1. 0 \in 0 .. (NUM_HISTORY - 1)
          BY <1>1
        <5> QED
          BY <1>1, <5>1, FirstRound
      <4> QED
        BY <1>2, <3>2, <4>1
    <3> QED
      BY <3>1, <3>2
  <2>3. e - 1 \in 0 .. (n - 1) /\ (e - 1) + NUM_HISTORY >= n /\ e - 1 \in Nat /\ (e - 1) + 1 = e
    BY <1>1, <1>2, <2>1, <2>2
  <2>4. (e - 1) % NUM_HISTORY = p
    BY <1>2, <1>3, <2>3
  <2>5. LatestOf(n, (e - 1) % NUM_HISTORY) = e - 1
    BY <2>3, LatestIs
  <2> QED
    BY <1>5, <2>3, <2>4, <2>5 DEF e, p
<1> QED
  BY <1>4, <1>5

\* The edge after an edge of the ring, unless that is the newest, is in the slot
\* after its slot.
LEMMA SlotAfter ==
  ASSUME NEW n \in Nat, NEW h \in Slot, LatestOf(n, h) # None, h # (n % NUM_HISTORY) - 1
  PROVE  /\ LatestOf(n, (h + 1) % NUM_HISTORY)
           = IF n % NUM_HISTORY = 0 /\ h = NUM_HISTORY - 1 THEN n - NUM_HISTORY
             ELSE LatestOf(n, h) + 1
         /\ n % NUM_HISTORY = 0 /\ h = NUM_HISTORY - 1 => LatestOf(n, h) = n - 1
         /\ LatestOf(n, (h + 1) % NUM_HISTORY) \in Nat
<1> DEFINE e == LatestOf(n, h)
           q == (h + 1) % NUM_HISTORY
           r == n % NUM_HISTORY
<1>1. NUM_HISTORY \in Nat \ {0} /\ NUM_HISTORY > 1 /\ h \in 0 .. (NUM_HISTORY - 1)
      /\ r \in 0 .. (NUM_HISTORY - 1)
  BY RingLength DEF Slot
<1>2. e \in 0 .. (n - 1) /\ e % NUM_HISTORY = h /\ e + NUM_HISTORY >= n
  BY LatestFound
<1>3. q = IF h = NUM_HISTORY - 1 THEN 0 ELSE h + 1
  <2>1. h % NUM_HISTORY = h /\ h \in Nat
    BY <1>1, FirstRound
  <2> QED
    BY <1>1, <2>1, NextSlot
<1>4. (e + 1) % NUM_HISTORY = q
  <2>1. e \in Nat
    BY <1>2
  <2> QED
    BY <1>1, <1>2, <1>3, <2>1, NextSlot
<1> HIDE DEF e, q
<1>5. CASE r = 0 /\ h = NUM_HISTORY - 1
  <2>1. n >= NUM_HISTORY
    <3>1. 0 % NUM_HISTORY = 0
      <4>1. 0 \in 0 .. (NUM_HISTORY - 1)
        BY <1>1
      <4> QED
        BY <1>1, <4>1, FirstRound
    <3>2. 0 \in Nat /\ 0 < n /\ 0 % NUM_HISTORY = n % NUM_HISTORY
      BY <1>2, <1>5, <3>1
    <3>3. n >= 0 + NUM_HISTORY
      BY <1>1, <3>2, SameSlot
    <3> QED
      BY <1>1, <3>3
  <2>2. n - NUM_HISTORY \in 0 .. (n - 1) /\ (n - NUM_HISTORY) + NUM_HISTORY = n /\ n - NUM_HISTORY \in Nat
        /\ (n - NUM_HISTORY) + NUM_HISTORY >= n
    BY <1>1, <2>1
  <2>3. (n - NUM_HISTORY) % NUM_HISTORY = 0
    <3>1. ((n - NUM_HISTORY) + NUM_HISTORY) % NUM_HISTORY = (n - NUM_HISTORY) % NUM_HISTORY
      BY <1>1, <2>2, OneRound
    <3> QED
      BY <1>5, <2>2, <3>1
  <2>4. LatestOf(n, (n - NUM_HISTORY) % NUM_HISTORY) = n - NUM_HISTORY
    BY <2>2, LatestIs
  <2>5. LatestOf(n, h) = n - 1
    <3>1. n - 1 \in Nat /\ n - 1 \in 0 .. (n - 1) /\ (n - 1) + NUM_HISTORY >= n /\ (n - 1) + 1 = n
      BY <1>1, <2>1
    <3>2. (n - 1) % NUM_HISTORY = h
      <4>1. ((n - 1) + 1) % NUM_HISTORY = IF (n - 1) % NUM_HISTORY = NUM_HISTORY - 1 THEN 0
                                          ELSE ((n - 1) % NUM_HISTORY) + 1
        BY <1>1, <3>1, NextSlot
      <4>2. (n - 1) % NUM_HISTORY \in 0 .. (NUM_HISTORY - 1)
        BY <1>1, <3>1, Remainder
      <4> QED
        BY <1>1, <1>5, <3>1, <4>1, <4>2
    <3>3. LatestOf(n, (n - 1) % NUM_HISTORY) = n - 1
      BY <3>1, LatestIs
    <3> QED
      BY <3>2, <3>3
  <2> QED
    BY <1>3, <1>5, <2>2, <2>3, <2>4, <2>5 DEF q
<1>6. CASE ~ (r = 0 /\ h = NUM_HISTORY - 1)
  <2>1. e # n - 1
    <3>1. SUFFICES ASSUME e = n - 1 PROVE FALSE
      OBVIOUS
    <3>2. e + 1 = n
      BY <1>2, <3>1
    <3>3. q = r
      BY <1>4, <3>2
    <3> QED
      BY <1>1, <1>3, <1>6, <3>3
  <2>2. e + 1 \in 0 .. (n - 1) /\ (e + 1) + NUM_HISTORY >= n
    BY <1>1, <1>2, <2>1
  <2>3. LatestOf(n, (e + 1) % NUM_HISTORY) = e + 1
    BY <2>2, LatestIs
  <2> QED
    BY <1>4, <1>6, <2>2, <2>3 DEF e, q
<1> QED
  BY <1>5, <1>6

\* What the keys may do to the edge on the screen.
Walk ==
  OnlySamples /\ child = "keys" /\ OnScreen # None =>
    /\ (KeyBack /\ OnScreen > Oldest => OnScreen' = OnScreen - 1)
    /\ (KeyForward /\ OnScreen < Complete - 1 => OnScreen' = OnScreen + 1)
    /\ (KeyBack \/ KeyForward => /\ OnScreen' \in Oldest .. (Complete - 1)
                                 /\ screen'.clock \in {Clock(OnScreen'), None})

\* A slot that a key shows is on the screen, with the edge it holds.
LEMMA KeyShows ==
  ASSUME DInv, Views, child = "keys", NEW k \in Slot, Show(k)
  PROVE  /\ OnScreen' = LatestOf(Complete, k)
         /\ OnScreen' # None => screen'.clock \in {Clock(OnScreen'), None}
<1>1. /\ screen'.sample = history[k]
      /\ screen'.cur_clock_val = IF history[k][<<"c", 0>>] = None THEN 0 ELSE Clock(history[k][<<"c", 0>>])
      /\ screen'.clock \in {None, screen'.cur_clock_val}
  BY Drawn DEF Show
<1>2. <<"t", 0>> \in Place /\ <<"c", 0>> \in Place
  BY DEF Place, Singles
<1>3. history[k][<<"t", 0>>] = LatestOf(Complete, k) /\ history[k][<<"c", 0>>] = LatestOf(Complete, k)
  BY <1>2, DumpsHeld, CompleteIs DEF HistoryHoldsLatest
<1>4. OnScreen' = LatestOf(Complete, k)
  BY <1>1, <1>3 DEF OnScreen
<1> QED
  BY <1>1, <1>3, <1>4

\* Every step walks the ring edge by edge.
LEMMA StepWalks == DInv /\ Views /\ [Next]_vars => [Walk]_vars
<1> SUFFICES ASSUME DInv, Views, OnlySamples, child = "keys", OnScreen # None, KeyBack \/ KeyForward
             PROVE  /\ (KeyBack /\ OnScreen > Oldest => OnScreen' = OnScreen - 1)
                    /\ (KeyForward /\ OnScreen < Complete - 1 => OnScreen' = OnScreen + 1)
                    /\ OnScreen' \in Oldest .. (Complete - 1)
                    /\ screen'.clock \in {Clock(OnScreen'), None}
  BY DEF Walk
<1> DEFINE h == hist_num_temp
<1>1. /\ ~running /\ screen.sample = history[h] /\ h \in Slot
      /\ NUM_HISTORY \in Nat \ {0} /\ NUM_HISTORY > 1 /\ h \in 0 .. (NUM_HISTORY - 1)
  BY RingLength DEF KeyBack, KeyForward, Views, Slot
<1>2. OnScreen = LatestOf(Complete, h)
  <2>1. <<"t", 0>> \in Place
    BY DEF Place, Singles
  <2>2. history[h][<<"t", 0>>] = LatestOf(Complete, h)
    BY <1>1, <2>1, DumpsHeld, CompleteIs DEF HistoryHoldsLatest
  <2> QED
    BY <1>1, <2>2 DEF OnScreen
<1>3. /\ Complete \in Nat /\ history_num = Complete % NUM_HISTORY
      /\ time_wrapped <=> Complete >= NUM_HISTORY
  <2>1. Complete \in Nat
    <3>1. Watching /\ Types /\ Turns /\ edge \in Nat
      BY DEF Watching, DInv, Pipes, Types
    <3> QED
      BY <3>1, PipesHold
  <2>2. Complete >= NUM_HISTORY => time_wrapped
    BY DEF DInv, Ring, Watching
  <2> QED
    BY <2>1, <2>2 DEF OnlySamples
<1> HIDE DEF h
<1>4. LatestOf(Complete, h) \in Nat /\ LatestOf(Complete, h) \in 0 .. (Complete - 1)
  BY <1>2, <1>3, LatestFound
<1>5. ASSUME KeyBack
      PROVE  /\ OnScreen > Oldest => OnScreen' = OnScreen - 1
             /\ OnScreen' # None
             /\ \E k \in Slot : OnScreen' = LatestOf(Complete, k)
  <2> DEFINE p == IF h = 0 THEN NUM_HISTORY - 1 ELSE h - 1
  <2>1. Show(p) /\ (h = 0 => time_wrapped)
    BY <1>1, <1>5 DEF KeyBack, h
  <2>2. p \in Slot
    BY <1>1 DEF Slot
  <2>3. OnScreen' = LatestOf(Complete, p)
    BY <2>1, <2>2, KeyShows
  <2>4. /\ h = Complete % NUM_HISTORY
             => Complete >= NUM_HISTORY /\ LatestOf(Complete, h) = Complete - NUM_HISTORY
        /\ LatestOf(Complete, p) = IF h = Complete % NUM_HISTORY THEN Complete - 1 ELSE LatestOf(Complete, h) - 1
        /\ LatestOf(Complete, p) \in Nat
    <3>1. h = 0 => Complete >= NUM_HISTORY
      BY <1>3, <2>1
    <3>2. LatestOf(Complete, h) # None
      BY <1>2
    <3> QED
      BY <1>1, <1>3, <3>1, <3>2, SlotBefore
  <2>5. OnScreen > Oldest => h # Complete % NUM_HISTORY
    BY <1>1, <1>2, <1>3, <2>4 DEF Oldest
  <2>6. LatestOf(Complete, p) # None
    BY <2>4, VisualAssumption
  <2> QED
    BY <1>2, <2>2, <2>3, <2>4, <2>5, <2>6
<1>6. ASSUME KeyForward
      PROVE  /\ OnScreen < Complete - 1 => OnScreen' = OnScreen + 1
             /\ OnScreen' # None
             /\ \E k \in Slot : OnScreen' = LatestOf(Complete, k)
  <2> DEFINE q == (h + 1) % NUM_HISTORY
  <2>1. Show(q) /\ h # history_num - 1
    BY <1>6 DEF KeyForward, AtNewest, h
  <2>2. q \in Slot
    BY <1>1, RingLength
  <2>3. OnScreen' = LatestOf(Complete, q)
    BY <2>1, <2>2, KeyShows
  <2>4. /\ LatestOf(Complete, q) = IF Complete % NUM_HISTORY = 0 /\ h = NUM_HISTORY - 1 THEN Complete - NUM_HISTORY
                                   ELSE LatestOf(Complete, h) + 1
        /\ Complete % NUM_HISTORY = 0 /\ h = NUM_HISTORY - 1 => LatestOf(Complete, h) = Complete - 1
        /\ LatestOf(Complete, q) \in Nat
    <3>1. LatestOf(Complete, h) # None /\ h # (Complete % NUM_HISTORY) - 1
      BY <1>2, <1>3, <2>1
    <3> QED
      BY <1>1, <1>3, <3>1, SlotAfter
  <2>5. OnScreen < Complete - 1 => ~ (Complete % NUM_HISTORY = 0 /\ h = NUM_HISTORY - 1)
    BY <1>2, <1>3, <2>4
  <2>6. LatestOf(Complete, q) # None
    BY <2>4, VisualAssumption
  <2> QED
    BY <1>2, <2>2, <2>3, <2>4, <2>5, <2>6
<1>7. OnScreen' # None /\ \E k \in Slot : OnScreen' = LatestOf(Complete, k)
  BY <1>5, <1>6
<1>8. OnScreen' \in Oldest .. (Complete - 1)
  <2>1. PICK k \in Slot : OnScreen' = LatestOf(Complete, k)
    BY <1>7
  <2>2. OnScreen' \in 0 .. (Complete - 1) /\ OnScreen' + NUM_HISTORY >= Complete
    BY <1>3, <1>7, <2>1, LatestFound
  <2>3. Complete \in Nat /\ NUM_HISTORY \in Nat
    BY <1>1, <1>3
  <2>4. \A c, n, x : c \in Nat /\ n \in Nat /\ x \in 0 .. (c - 1) /\ x + n >= c
                       => x \in (IF c >= n THEN c - n ELSE 0) .. (c - 1)
    OBVIOUS
  <2>5. OnScreen' \in (IF Complete >= NUM_HISTORY THEN Complete - NUM_HISTORY ELSE 0) .. (Complete - 1)
    BY <2>2, <2>3, <2>4, Zenon
  <2> QED
    BY <2>5, Zenon DEF Oldest
<1>9. screen'.clock \in {Clock(OnScreen'), None}
  <2>1. \E k \in Slot : Show(k)
    BY <1>1, RingLength DEF KeyBack, KeyForward, h, Slot
  <2> QED
    BY <1>7, <2>1, KeyShows
<1> QED
  BY <1>5, <1>6, <1>8, <1>9

\* Between the oldest and the newest edge of the ring 'b' and 'n' walk it edge by
\* edge, and neither shows a slot without a sample or another edge's clock.
THEOREM KeysWalk == Spec => KeysWalkByEdges
  BY StepWalks, ViewsInvariant, PTL DEF Spec, KeysWalkByEdges, Walk
===========================================================================
