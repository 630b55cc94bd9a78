--------------------------- MODULE ArrayPrograms ---------------------------
(***************************************************************************)
(* The test programs that sort: sort_search.c, insertionsort.c,            *)
(* no_passing/quicksort.c, no_passing/mergesort.c and the linked list of   *)
(* no_passing/graph.c.  A C array is a function on its indices; a for loop *)
(* is a fold over the sequence of its indices.                             *)
(***************************************************************************)
EXTENDS Integers, Sequences, SequencesExt

(* The indices of for (i = lo; i <= hi; i++).                              *)
Upto(lo, hi) == [i \in 1..(hi - lo + 1) |-> lo + i - 1]

Exchange(arr, i, j) == [arr EXCEPT ![i] = arr[j], ![j] = arr[i]]

-----------------------------------------------------------------------------
(* sort_search.c *)

bubble(arr, size) ==
    FoldLeft(LAMBDA a, i :
                 FoldLeft(LAMBDA b, j : IF b[j] < b[i] THEN Exchange(b, i, j) ELSE b,
                          a, Upto(i + 1, size - 1)),
             arr, Upto(0, size - 2))

RECURSIVE binarySearch(_, _, _, _)
binarySearch(arr, l, r, x) ==
    LET mid == l + (r - l) \div 2
    IN CASE r < l                      -> -1
         [] r >= l /\ arr[mid] = x     -> mid
         [] r >= l /\ arr[mid] > x     -> binarySearch(arr, l, mid - 1, x)
         [] r >= l /\ arr[mid] < x     -> binarySearch(arr, mid + 1, r, x)

(* main: bubble, then one search.                                          *)
sort_search(arr, size, x) ==
    LET sorted == bubble(arr, size)
    IN [arr |-> sorted, result |-> binarySearch(sorted, 0, size - 1, x)]

-----------------------------------------------------------------------------
(* insertionsort.c (a selection sort) *)

insertion(arr, size) ==
    FoldLeft(LAMBDA a, i :
                 LET least == FoldLeft(LAMBDA m, j : IF a[j] < m.min
                                                     THEN [idx |-> j, min |-> a[j]] ELSE m,
                                       [idx |-> i, min |-> a[i]], Upto(i + 1, size - 1))
                 IN [a EXCEPT ![i] = least.min, ![least.idx] = a[i]],
             arr, Upto(0, size - 2))

-----------------------------------------------------------------------------
(* quicksort.c *)

(* Mutant of partition: the last element before the pivot is not looked at. *)
PartitionShort(arr, low, high) ==
    LET swept == FoldLeft(LAMBDA s, j : IF s.arr[j] <= arr[high]
                                        THEN [arr |-> Exchange(s.arr, s.i + 1, j),
                                              i   |-> s.i + 1]
                                        ELSE s,
                          [arr |-> arr, i |-> low - 1], Upto(low, high - 2))
    IN [arr |-> Exchange(swept.arr, swept.i + 1, high), i |-> swept.i + 1]

(* partition: the array with arr[high] at its place, and the place.        *)
partition(arr, low, high) ==
    LET swept == FoldLeft(LAMBDA s, j : IF s.arr[j] <= arr[high]
                                        THEN [arr |-> Exchange(s.arr, s.i + 1, j),
                                              i   |-> s.i + 1]
                                        ELSE s,
                          [arr |-> arr, i |-> low - 1], Upto(low, high - 1))
    IN [arr |-> Exchange(swept.arr, swept.i + 1, high), i |-> swept.i + 1]

RECURSIVE quickSort(_, _, _)
quickSort(arr, low, high) ==
    IF low < high
    THEN LET split == partition(arr, low, high)
         IN quickSort(quickSort(split.arr, low, split.i - 1), split.i + 1, high)
    ELSE arr

-----------------------------------------------------------------------------
(* mergesort.c *)

(* merge: the two halves are copied to L and R, then the smaller head of   *)
(* the two is taken, L's when they are equal, until both are used up.      *)
merge(arr, l, m, r) ==
    LET L == [i \in 0..(m - l) |-> arr[l + i]]
        R == [j \in 0..(r - m - 1) |-> arr[m + 1 + j]]
        FromL(s) == s.i <= m - l /\ (s.j <= r - m - 1 => L[s.i] <= R[s.j])
    IN FoldLeft(LAMBDA s, k : IF FromL(s)
                              THEN [s EXCEPT !.arr[k] = L[s.i], !.i = @ + 1]
                              ELSE [s EXCEPT !.arr[k] = R[s.j], !.j = @ + 1],
                [arr |-> arr, i |-> 0, j |-> 0], Upto(l, r)).arr

RECURSIVE mergeSort(_, _, _)
mergeSort(arr, l, r) ==
    IF l < r
    THEN LET m == l + (r - l) \div 2
         IN merge(mergeSort(mergeSort(arr, l, m), m + 1, r), l, m, r)
    ELSE arr

-----------------------------------------------------------------------------
(* The list of graph.c: insertAtTheBegin for each element, then bubbleSort *)
(* of the list.  The list is the sequence of its data, an address the      *)
(* position of its node, and NULL the position after the last.             *)

insertAtTheBegin(start, data) == <<data>> \o start

SwapPass(list, lptr) ==
    FoldLeft(LAMBDA s, p : IF s.list[p] > s.list[p + 1]
                           THEN [list |-> Exchange(s.list, p, p + 1), swapped |-> TRUE]
                           ELSE s,
             [list |-> list, swapped |-> FALSE], Upto(1, lptr - 2))

RECURSIVE BubblePasses(_, _)
BubblePasses(list, lptr) ==
    LET pass == SwapPass(list, lptr)
    IN IF pass.swapped THEN BubblePasses(pass.list, lptr - 1) ELSE pass.list

bubbleSort(start) ==
    IF start = <<>> THEN start ELSE BubblePasses(start, Len(start) + 1)

link_list(elements) == bubbleSort(FoldLeft(insertAtTheBegin, <<>>, elements))
=============================================================================
