---------------------------- MODULE TestPrograms ----------------------------
(***************************************************************************)
(* The programs under src/test_progs, run on every small input.  A         *)
(* behaviour takes one job; a job is one call of a program, which sets     *)
(* result, or a run of a program that allocates, which goes on until the   *)
(* bounds stop it.  One job more is the words the programs are made of,    *)
(* which the readers of InstructionTables take apart.                      *)
(***************************************************************************)
EXTENDS InstructionTables, HeapPrograms, SequencesExt, FiniteSetsExt

CONSTANTS
    MAX, ItemsMax,  \* the capacities of GraphPrograms
    Arrays,         \* arrays to sort, functions on 0..size-1
    Keys,           \* values to search for, or to find behind an array
    Graphs,         \* [vertices, edges]: graphs given by a set of pairs
    EdgeLists,      \* [vertices, edges]: graphs given by a sequence of pairs
    Boards,         \* sides of the knight's board
    Factors,        \* operands of mult
    Layers,         \* [lfsr, pad, stride, af, pool]: small convolution layers
    Iterations,     \* passes of alexnet's main
    Vectors,        \* operands of fc_forward's kernel
    Matrices,       \* [row1, col1, A, row2, col2, B]: factors of the matrix programs
    Priorities,     \* priorities of queue nodes
    Sizes           \* request sizes of the programs that never free

ASSUME CapacitiesArePositive == MAX \in Nat \ {0} /\ ItemsMax \in Nat \ {0}

VARIABLES job, result

vars == <<job, result, heap, objs, head, word, readings>>

Array  == INSTANCE ArrayPrograms
Graph  == INSTANCE GraphPrograms
Kernel == INSTANCE KernelPrograms

Size(arr) == Cardinality(DOMAIN arr)
Pending   == [done |-> FALSE]

-----------------------------------------------------------------------------
(* One pass of the loop of alexnet's main, from a state of the shift       *)
(* register: a convolution of 5 channels, a pooling, the conversion, and a *)
(* full layer whose inputs are drawn anew over the converted ones.         *)
alexnet(lfsr) ==
    LET drawn1   == Kernel!Draws(lfsr, 125)
        inputs   == Kernel!cnn_input_generator(drawn1, 5, 5)
        drawn2   == Kernel!Draws(Last(drawn1), 105)
        cnn      == Kernel!cnn_weight_generator(drawn2, 5, 5, 2)
        outputs  == Kernel!cnn_layer(cnn.weights, cnn.biasses, inputs, 5, 5, 5, 2, 1, 0, 2)
        pooled   == Kernel!cnn_pool(outputs, 5, 4, 2, 2, 0, 0)
        drawn3   == Kernel!Draws(Last(drawn2), 5)
        drawn4   == Kernel!Draws(Last(drawn3), 30)
        fc       == Kernel!fc_weight_generator(drawn4, 5, 5)
        features == Kernel!fc_input_generator(drawn3, 5)
    IN [inputs |-> inputs, cnn |-> cnn, outputs |-> outputs, pooled |-> pooled,
        converted |-> Kernel!cnn_to_fc(pooled, 5, 1), features |-> features, fc |-> fc,
        scores |-> Kernel!fc_layer(fc.weights, fc.biasses, features, 5, 5, 0),
        lfsr |-> Last(drawn4)]

-----------------------------------------------------------------------------
Init ==
    /\ \/ \E a \in Arrays :
             job \in [prog : {"bubble", "insertion", "quicksort", "linked list",
                              "soft max"}, arr : {a}]
       \/ job \in [prog : {"mergesort"}, arr : Arrays, behind : Keys]
       \/ job \in [prog : {"sort_search"}, arr : Arrays, x : Keys]
       \/ job \in [prog : {"bfs", "dfs"}, graph : Graphs]
       \/ job \in [prog : {"bfs_test"}, graph : EdgeLists]
       \/ job \in [prog : {"knight"}, n : Boards]
       \/ job \in [prog : {"mult"}, x : Factors, y : Factors]
       \/ job \in [prog : {"fc_forward"}, vec_a : Vectors, vec_b : Vectors, b : {-1, 2}]
       \/ job \in [prog : {"outer product", "matrix"}, product : Matrices]
       \/ job \in [prog : {"layer"}, layer : Layers]
       \/ job \in [prog : {"alexnet"}, pass : {1}, lfsr : {\HACE1}]
       \/ job \in [prog : {"priority_queue", "basic_malloc", "mixed sizes", "words"}]
    /\ result = Pending
    /\ heap \in {FreshHeap(a) : a \in IF job.prog \in {"priority_queue", "basic_malloc",
                                                      "mixed sizes"}
                                     THEN BaseAddresses ELSE {CHOOSE a \in BaseAddresses : TRUE}}
    /\ objs = <<>>
    /\ head = NULL
    /\ IF job.prog = "words" THEN ReadInit
       ELSE word = (CHOOSE w \in Words : TRUE) /\ readings = Unread

(* The program of the job runs to its end on the input of the job.         *)
Runs(prog) == job.prog = prog /\ result = Pending
Yields(value) == result' = [done |-> TRUE, value |-> value]
                 /\ UNCHANGED <<job, heap, objs, head, readVars>>

Bubble     == Runs("bubble") /\ Yields(Array!bubble(job.arr, Size(job.arr)))
Insertion  == Runs("insertion") /\ Yields(Array!insertion(job.arr, Size(job.arr)))
QuickSort  == Runs("quicksort") /\ Yields(Array!quickSort(job.arr, 0, Size(job.arr) - 1))
(* main passes the size of its array as the last index to sort, so that    *)
(* the cell behind the array, whatever it holds, takes part.               *)
Memory     == [k \in 0..Size(job.arr) |-> IF k < Size(job.arr) THEN job.arr[k] ELSE job.behind]
MergeSort  == Runs("mergesort") /\ Yields(Array!mergeSort(Memory, 0, Size(job.arr)))
LinkList   == Runs("linked list")
              /\ Yields(Array!link_list([k \in 1..Size(job.arr) |-> job.arr[k - 1]]))
SoftMax    == Runs("soft max") /\ Yields(Kernel!fc_soft_max(job.arr, Size(job.arr)))
SortSearch == Runs("sort_search") /\ Yields(Array!sort_search(job.arr, Size(job.arr), job.x))

BreadthFirst == Runs("bfs")
    /\ Yields(Graph!breadthFirstSearch(Graph!Matrix(job.graph.vertices, job.graph.edges)))
DepthFirst   == Runs("dfs")
    /\ Yields(Graph!depthFirstSearch(Graph!Matrix(job.graph.vertices, job.graph.edges)))
BreadthFirstOfLists == Runs("bfs_test")
    /\ Yields(Graph!bfs_test(job.graph.vertices, job.graph.edges))
KnightsTour  == Runs("knight") /\ Yields(Graph!solveKT(job.n))

Multiply     == Runs("mult") /\ Yields(Kernel!mult(job.x, job.y))
FullForward  == Runs("fc_forward")
    /\ Yields(Kernel!fc_kernel(job.vec_a, job.vec_b, Size(job.vec_a), job.b))
OuterProduct == Runs("outer product")
    /\ job.product.row1 = job.product.col1 /\ job.product.col1 = job.product.row2
    /\ job.product.row2 = job.product.col2
    /\ Yields(Kernel!outer_kernel(job.product.A, job.product.B, job.product.row1))
MatrixProduct == Runs("matrix")
    /\ Yields(Kernel!multiplyMatrix(job.product.row1, job.product.col1, job.product.A,
                                    job.product.row2, job.product.col2, job.product.B))

(* cnn_layer and cnn_pool on 2 channels of side 3 under a kernel of side 2. *)
SmallLayer(l) ==
    LET drawn1 == Kernel!Draws(l.lfsr, 18)
        drawn2 == Kernel!Draws(Last(drawn1), 18)
        inputs == Kernel!cnn_input_generator(drawn1, 2, 3)
        cnn    == Kernel!cnn_weight_generator(drawn2, 2, 2, 2)
    IN [inputs |-> inputs, cnn |-> cnn,
        outputs |-> Kernel!cnn_layer(cnn.weights, cnn.biasses, inputs, 2, 2, 3, 2,
                                     l.stride, l.pad, l.af),
        pooled  |-> Kernel!cnn_pool(inputs, 2, 3, 2, 1, 0, l.pool)]

Layer   == Runs("layer") /\ Yields(SmallLayer(job.layer))
Network == Runs("alexnet") /\ Yields(alexnet(job.lfsr))
NextPass ==
    /\ job.prog = "alexnet" /\ result.done /\ job.pass < Iterations
    /\ job' = [job EXCEPT !.pass = @ + 1, !.lfsr = result.value.lfsr]
    /\ result' = Pending
    /\ UNCHANGED <<heap, objs, head, readVars>>

(* The programs that allocate.                                             *)
Allocates(prog) == job.prog = prog /\ UNCHANGED <<job, result, readVars>>

Push(p)         == Allocates("priority_queue") /\ (FirstNode(p) \/ push(p))
Pop             == Allocates("priority_queue") /\ pop
Malloc          == Allocates("basic_malloc") /\ Alloc(16)
Calloc          == Allocates("basic_malloc") /\ tj_calloc(16)
Release(block)  == Allocates("basic_malloc") /\ Free(block)
MallocOf(bytes) == Allocates("mixed sizes") /\ Alloc(bytes)

(* The words.                                                              *)
ReadWord == job.prog = "words" /\ Decode /\ UNCHANGED <<job, result, heapVars>>

Next ==
    \/ Bubble \/ Insertion \/ QuickSort \/ MergeSort \/ LinkList \/ SoftMax \/ SortSearch
    \/ BreadthFirst \/ DepthFirst \/ BreadthFirstOfLists \/ KnightsTour
    \/ Multiply \/ FullForward \/ OuterProduct \/ MatrixProduct
    \/ Layer \/ Network \/ NextPass
    \/ \E p \in Priorities : Push(p)
    \/ Pop \/ Malloc \/ Calloc
    \/ \E block \in DOMAIN objs : Release(block)
    \/ \E bytes \in Sizes : MallocOf(bytes)
    \/ ReadWord

Spec == Init /\ [][Next]_vars

-----------------------------------------------------------------------------
(* What the programs should compute.                                       *)

Occurrences(arr, x) == Cardinality({i \in DOMAIN arr : arr[i] = x})

SortOf(sorted, arr) ==
    /\ \A i, j \in DOMAIN sorted : i < j => sorted[i] <= sorted[j]
    /\ Size(sorted) = Size(arr)
    /\ \A i \in DOMAIN arr : Occurrences(sorted, arr[i]) = Occurrences(arr, arr[i])

Sum(S, op(_)) == MapThenSumSet(op, S)

ProductEntry(A, B, inner, i, j) == LET term(k) == A[i][k] * B[k][j] IN Sum(0..(inner - 1), term)

(* The neighbours of v, and the distances from vertex 0.                   *)
Neighbours(edges, v) == {u \in UNION {{e[1], e[2]} : e \in edges} :
                            <<u, v>> \in edges \/ <<v, u>> \in edges}
RECURSIVE Within(_, _)
Within(edges, d) ==
    IF d = 0 THEN {0}
    ELSE LET near == Within(edges, d - 1) IN near \union UNION {Neighbours(edges, v) : v \in near}
Distance(edges, vertices, v) == Min({d \in 0..vertices : v \in Within(edges, d)} \union {vertices})

(* Each vertex reached from 0 once, nearer ones first.                     *)
Breadth(order, edges, vertices) ==
    /\ {order[k] : k \in DOMAIN order} = Within(edges, vertices)
    /\ Len(order) = Cardinality(Within(edges, vertices))
    /\ \A j, k \in DOMAIN order : j < k =>
          Distance(edges, vertices, order[j]) <= Distance(edges, vertices, order[k])

(* Each vertex reached from 0 once; a vertex is the least unseen neighbour *)
(* of the latest vertex that has one.                                      *)
Depth(order, edges, vertices) ==
    /\ {order[k] : k \in DOMAIN order} = Within(edges, vertices)
    /\ Len(order) = Cardinality(Within(edges, vertices))
    /\ \A k \in 2..Len(order) :
          LET unseen(v) == Neighbours(edges, v) \ {order[j] : j \in 1..(k - 1)}
              from == Max({j \in 1..(k - 1) : unseen(order[j]) # {}})
          IN order[k] = Min(unseen(order[from]))

(* A numbering of all cells by knight's moves, or the board as it was.     *)
Tour(found, sol) ==
    IF found = 1
    THEN /\ {sol[c] : c \in DOMAIN sol} = 0..(Cardinality(DOMAIN sol) - 1)
         /\ \A c, d \in DOMAIN sol : sol[d] = sol[c] + 1 =>
               {(c[1] - d[1]) * (c[1] - d[1]), (c[2] - d[2]) * (c[2] - d[2])} = {1, 4}
    ELSE \A c \in DOMAIN sol : sol[c] = IF c = <<0, 0>> THEN 0 ELSE -1

(* One output of a convolution, summed over the kernel positions that fall *)
(* on the input.                                                           *)
Convolved(cnn, inputs, o, r, c, stride, pad) ==
    LET Covered == {<<i, x, y>> \in (DOMAIN inputs) \X {0, 1} \X {0, 1} :
                       /\ stride * r + x - pad \in DOMAIN inputs[i]
                       /\ stride * c + y - pad \in DOMAIN inputs[i]}
        term(k) == cnn.weights[o][k[1]][k[2]][k[3]]
                   * inputs[k[1]][stride * r + k[2] - pad][stride * c + k[3] - pad]
    IN cnn.biasses[o] + Sum(Covered, term)

Rectified(x, af) == IF af # 2 /\ x < 0 THEN 0 ELSE x

WindowOf(inputs, ch, r, c, stride) ==
    {inputs[ch][stride * r + x][stride * c + y] : <<x, y>> \in {0, 1} \X {0, 1}}

SortsAreRight ==
    /\ job.prog \in {"bubble", "insertion", "quicksort"} => SortOf(result.value, job.arr)
    /\ job.prog = "mergesort" => SortOf(result.value, Memory)
    /\ job.prog = "linked list" =>
          SortOf([i \in DOMAIN job.arr |-> result.value[i + 1]], job.arr)
    /\ job.prog = "soft max" =>
          /\ \A i \in DOMAIN job.arr : job.arr[i] <= job.arr[result.value]
          /\ \A i \in 0..(result.value - 1) : job.arr[i] # job.arr[result.value]
    /\ job.prog = "sort_search" =>
          LET found == result.value.result
          IN /\ SortOf(result.value.arr, job.arr)
             /\ IF found = -1 THEN Occurrences(job.arr, job.x) = 0
                ELSE result.value.arr[found] = job.x

SearchesAreRight ==
    /\ job.prog = "bfs" => Breadth(result.value.order, job.graph.edges, job.graph.vertices)
    /\ job.prog = "dfs" => Depth(result.value.order, job.graph.edges, job.graph.vertices)
    /\ job.prog = "bfs_test" =>
          Breadth(result.value.order, {job.graph.edges[k] : k \in DOMAIN job.graph.edges},
                  job.graph.vertices)
    /\ job.prog \in {"bfs", "dfs"} =>
          \A v \in DOMAIN result.value.searched :
             /\ result.value.searched[v] = (v \in Within(job.graph.edges, job.graph.vertices))
             /\ ~result.value.visited[v]
    /\ job.prog = "knight" => Tour(result.value.found, result.value.sol)

ProductsAreRight ==
    /\ job.prog = "mult" => result.value = (job.x * job.y) % 17
    /\ job.prog = "fc_forward" =>
          LET term(i) == job.vec_a[i] * job.vec_b[i]
          IN result.value.out = Sum(DOMAIN job.vec_a, term) + job.b
    /\ job.prog \in {"matrix", "outer product"} /\ job.product.row2 = job.product.col1 =>
          \A i \in DOMAIN result.value : \A j \in DOMAIN result.value[i] :
             result.value[i][j] = ProductEntry(job.product.A, job.product.B,
                                               job.product.col1, i, j)

LayersAreRight ==
    /\ job.prog = "layer" =>
          /\ \A o \in DOMAIN result.value.outputs : \A r, c \in DOMAIN result.value.outputs[o] :
                result.value.outputs[o][r][c] =
                   Rectified(Convolved(result.value.cnn, result.value.inputs, o, r, c,
                                       job.layer.stride, job.layer.pad), job.layer.af)
          /\ job.layer.pool = 0 =>
                \A o \in DOMAIN result.value.pooled : \A r, c \in DOMAIN result.value.pooled[o] :
                   result.value.pooled[o][r][c] = Max(WindowOf(result.value.inputs, o, r, c, 1))
    /\ job.prog = "alexnet" =>
          /\ \A o \in 0..4 : \A r, c \in 0..1 :
                result.value.outputs[o][r][c] =
                   Convolved(result.value.cnn, result.value.inputs, o, r, c, 1, 0)
          /\ \A o \in 0..4 :
                result.value.converted[o] = Max(WindowOf(result.value.outputs, o, 0, 0, 2))
          /\ \A o \in 0..4 :
                LET term(i) == result.value.fc.weights[o][i] * result.value.features[i]
                IN result.value.scores[o] =
                      Rectified(result.value.fc.biasses[o] + Sum(0..4, term), 0)

(* Every program that only computes returns what its source says it does:  *)
(* the sorts sort the cells they are told to, which for mergesort.c are    *)
(* one more than its array has, the searches find the key, the traversals  *)
(* reach every vertex once and in order, the tour is one or the board is   *)
(* restored, the products and layers are those of their definitions        *)
(* (src/test_progs).                                                       *)
ResultCorrect ==
    result.done => SortsAreRight /\ SearchesAreRight /\ ProductsAreRight /\ LayersAreRight

-----------------------------------------------------------------------------
(* The heap.                                                               *)

(* The headers on the free list, from the one freep points to.             *)
RECURSIVE Linked(_, _)
Linked(p, seen) == IF p \in seen THEN seen ELSE Linked(heap.hdr[p].next, seen \union {p})
FreeBlocks == IF heap.freep = NULL THEN {} ELSE Linked(heap.freep, {}) \ {heap.base}
LiveBlocks == {b - HeaderSize : b \in DOMAIN objs}

BlockEnd(bp) == bp + HeaderSize + heap.hdr[bp].size

RECURSIVE QueueFrom(_)
QueueFrom(block) == IF block = NULL THEN <<>> ELSE <<block>> \o QueueFrom(objs[block].next)

(* tj_malloc.h keeps the heap whole for the programs that use it: the      *)
(* blocks handed out and the blocks on the free list tile the part of the  *)
(* heap that was carved off, none is on both sides, a block is as large as *)
(* its owner asked for, memory is carved off only when no free block would *)
(* do, and a request fails only when nothing is left; the priority queue   *)
(* holds every node it allocated, in the order of the priorities           *)
(* (tj_malloc.h:42-130, priority_queue.c:42-80).                           *)
HeapIntact ==
    /\ FreeBlocks \intersect LiveBlocks = {}
    /\ LET carved == FreeBlocks \union LiveBlocks
       IN /\ \A b \in carved : b = 0 \/ \E c \in carved : BlockEnd(c) = b
          /\ \A b, c \in carved : b < c => BlockEnd(b) <= c
          /\ heap.next_index = Max({0} \union {BlockEnd(b) : b \in carved})
    /\ heap.avail_mem = HEAP_SIZE - heap.next_index
    /\ job.prog = "mixed sizes" =>
          /\ FreeBlocks = {}
          /\ \A b \in DOMAIN objs : heap.hdr[b - HeaderSize].size \in objs[b].bytes..(objs[b].bytes + 3)
    /\ job.prog \in {"basic_malloc", "priority_queue"} =>
          LET bytes == IF job.prog = "basic_malloc" THEN 16 ELSE NodeSize
              next  == tj_malloc(heap, bytes)
          IN /\ \A b \in LiveBlocks : heap.hdr[b].size = bytes
             /\ next.h.next_index # heap.next_index => FreeBlocks = {}
             /\ next.mem = NULL <=> /\ FreeBlocks = {}
                                    /\ heap.avail_mem < bytes + HeaderSize
    /\ job.prog = "priority_queue" =>
          LET queue == QueueFrom(head)
          IN /\ {queue[k] : k \in DOMAIN queue} = DOMAIN objs
             /\ \A j, k \in DOMAIN queue : j < k =>
                   objs[queue[j]].priority <= objs[queue[k]].priority
=============================================================================
