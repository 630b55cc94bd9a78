--------------------------- MODULE GraphPrograms ---------------------------
(***************************************************************************)
(* The test programs that walk graphs and boards: no_passing/bfs.c, the    *)
(* two traversals of no_passing/graph.c and the knight's tour of           *)
(* backtrack.c.  Each search is a loop over its queue or stack, written as *)
(* a recursive operator on the record of the loop's variables.             *)
(***************************************************************************)
EXTENDS Integers, Sequences, SequencesExt, FiniteSetsExt

CONSTANTS
    MAX,        \* bfs.c:14, and the stack of graph.c:238: vertices, queue and stack cells
    ItemsMax    \* graph.c:21: cells of the queue of graph.c

-----------------------------------------------------------------------------
(* The adjacency matrix of bfs.c and of the second half of graph.c.        *)

(* addEdge of every pair of edges, from the zero matrix of main.           *)
Matrix(vertexCount, edges) ==
    [i \in 0..(vertexCount - 1) |->
        [j \in 0..(vertexCount - 1) |->
            IF <<i, j>> \in edges \/ <<j, i>> \in edges THEN 1 ELSE 0]]

getAdjUnvisitedVertex(adjMatrix, visited, vertexIndex) ==
    LET Open == {i \in DOMAIN adjMatrix : adjMatrix[vertexIndex][i] = 1 /\ ~visited[i]}
    IN IF Open = {} THEN -1 ELSE Min(Open)

(* The queue of bfs.c: rear and front only grow.                           *)
insert(q, data) ==
    [q EXCEPT !.queue[q.rear + 1] = data, !.rear = @ + 1, !.queueItemCount = @ + 1]

removeData(q) == [q EXCEPT !.front = @ + 1, !.queueItemCount = @ - 1]

isQueueEmpty(q) == q.queueItemCount = 0

(* The inner while of breadthFirstSearch: every unvisited neighbour of     *)
(* tempVertex is marked and queued.                                        *)
RECURSIVE QueueNeighbours(_, _, _)
QueueNeighbours(adjMatrix, s, tempVertex) ==
    LET unvisitedVertex == getAdjUnvisitedVertex(adjMatrix, s.visited, tempVertex)
    IN IF unvisitedVertex = -1 THEN s
       ELSE QueueNeighbours(adjMatrix,
                            [q       |-> insert(s.q, unvisitedVertex),
                             visited |-> [s.visited EXCEPT ![unvisitedVertex] = TRUE]],
                            tempVertex)

RECURSIVE SearchQueue(_, _)
SearchQueue(adjMatrix, s) ==
    IF isQueueEmpty(s.q) THEN s
    ELSE SearchQueue(adjMatrix,
                     QueueNeighbours(adjMatrix, [s EXCEPT !.q = removeData(s.q)],
                                     s.q.queue[s.q.front]))

(* breadthFirstSearch: the queue cells in the order they were filled, and  *)
(* the visited flags as the search leaves them.                            *)
breadthFirstSearch(adjMatrix) ==
    LET Vertices == DOMAIN adjMatrix
        empty    == [queue |-> [c \in 0..(MAX - 1) |-> -1], rear |-> -1, front |-> 0,
                     queueItemCount |-> 0]
        done     == SearchQueue(adjMatrix,
                                [q       |-> insert(empty, 0),
                                 visited |-> [v \in Vertices |-> v = 0]])
    IN [order    |-> [k \in 1..(done.q.rear + 1) |-> done.q.queue[k - 1]],
        searched |-> done.visited,
        visited  |-> [v \in Vertices |-> FALSE]]

-----------------------------------------------------------------------------
(* The stack of graph.c and its depth-first search.                        *)

push(s, item) == [s EXCEPT !.stack[s.top + 1] = item, !.top = @ + 1]
pop(s)  == [s EXCEPT !.top = @ - 1]
peek(s) == s.stack[s.top]
isStackEmpty(s) == s.top = -1

RECURSIVE SearchStack(_, _)
SearchStack(adjMatrix, s) ==
    IF isStackEmpty(s) THEN s
    ELSE LET unvisitedVertex == getAdjUnvisitedVertex(adjMatrix, s.visited, peek(s))
         IN SearchStack(adjMatrix,
                        IF unvisitedVertex = -1 THEN pop(s)
                        ELSE [push(s, unvisitedVertex) EXCEPT
                                 !.visited[unvisitedVertex] = TRUE,
                                 !.order = Append(@, unvisitedVertex)])

(* depthFirstSearch: the vertices in the order they were pushed.           *)
depthFirstSearch(adjMatrix) ==
    LET Vertices == DOMAIN adjMatrix
        empty == [stack   |-> [c \in 0..(MAX - 1) |-> -1], top |-> -1,
                  visited |-> [v \in Vertices |-> v = 0], order |-> <<0>>]
        done  == SearchStack(adjMatrix, push(empty, 0))
    IN [order |-> done.order, searched |-> done.visited,
        visited |-> [v \in Vertices |-> FALSE]]

-----------------------------------------------------------------------------
(* The adjacency lists of graph.c and its breadth-first search.  A list is *)
(* the sequence of the vertices of its nodes.                              *)

createGraph(vertices) ==
    [adjLists |-> [v \in 0..(vertices - 1) |-> <<>>],
     visited  |-> [v \in 0..(vertices - 1) |-> FALSE]]

(* Mutant of addEdge: the node of the second direction is forgotten.       *)
AddOneWay(graph, edge) ==
    [graph EXCEPT !.adjLists[edge[1]] = <<edge[2]>> \o @]

(* addEdge: a node at the head of each of the two lists.                   *)
addEdge(graph, edge) ==
    LET there == [graph EXCEPT !.adjLists[edge[1]] = <<edge[2]>> \o @]
    IN [there EXCEPT !.adjLists[edge[2]] = <<edge[1]>> \o @]

createQueue == [items |-> [c \in 0..(ItemsMax - 1) |-> -1], front |-> -1, rear |-> -1]

isEmpty(q) == q.rear = -1

enqueue(q, value) ==
    IF q.rear = ItemsMax - 1 THEN q
    ELSE [q EXCEPT !.front = IF @ = -1 THEN 0 ELSE @,
                   !.rear = @ + 1, !.items[q.rear + 1] = value]

(* dequeue of a queue that is not empty: both ends are reset when the last *)
(* item leaves.                                                            *)
dequeue(q) ==
    IF q.front + 1 > q.rear THEN [q EXCEPT !.front = -1, !.rear = -1]
    ELSE [q EXCEPT !.front = @ + 1]

(* bfs: the vertices in the order they left the queue.                     *)
RECURSIVE WalkLists(_, _, _)
WalkLists(graph, q, order) ==
    IF isEmpty(q) THEN [order |-> order, visited |-> graph.visited]
    ELSE LET currentVertex == q.items[q.front]
             Visit(s, adjVertex) ==
                 IF s.visited[adjVertex] THEN s
                 ELSE [visited |-> [s.visited EXCEPT ![adjVertex] = TRUE],
                       q       |-> enqueue(s.q, adjVertex)]
             seen == FoldLeft(Visit, [visited |-> graph.visited, q |-> dequeue(q)],
                              graph.adjLists[currentVertex])
         IN WalkLists([graph EXCEPT !.visited = seen.visited], seen.q,
                      Append(order, currentVertex))

bfs(graph, startVertex) ==
    WalkLists([graph EXCEPT !.visited[startVertex] = TRUE],
              enqueue(createQueue, startVertex), <<>>)

(* bfs_test: the graph of a list of edges, searched from vertex 0.         *)
bfs_test(vertices, edges) == bfs(FoldLeft(addEdge, createGraph(vertices), edges), 0)

-----------------------------------------------------------------------------
(* backtrack.c: the knight's tour on an n by n board.                      *)

Moves == << <<2, 1>>, <<1, 2>>, <<-1, 2>>, <<-2, 1>>, <<-2, -1>>, <<-1, -2>>,
            <<1, -2>>, <<2, -1>> >>

isSafe(n, x, y, sol) ==
    x \in 0..(n - 1) /\ y \in 0..(n - 1) /\ sol[<<x, y>>] = -1

(* solveKTUtil: the moves from the k-th on are tried in turn; a cell is    *)
(* set back to -1 when the tour cannot be finished from it.                *)
RECURSIVE solveKTUtil(_, _, _, _, _, _)
solveKTUtil(n, x, y, movei, k, sol) ==
    LET next_x == x + Moves[k][1]
        next_y == y + Moves[k][2]
    IN CASE movei = n * n -> [found |-> 1, sol |-> sol]
         [] movei # n * n /\ k > Len(Moves) -> [found |-> 0, sol |-> sol]
         [] movei # n * n /\ k <= Len(Moves) ->
              IF ~isSafe(n, next_x, next_y, sol)
              THEN solveKTUtil(n, x, y, movei, k + 1, sol)
              ELSE LET deeper == solveKTUtil(n, next_x, next_y, movei + 1, 1,
                                             [sol EXCEPT ![<<next_x, next_y>>] = movei])
                   IN IF deeper.found = 1 THEN deeper
                      ELSE solveKTUtil(n, x, y, movei, k + 1,
                                       [deeper.sol EXCEPT ![<<next_x, next_y>>] = -1])

solveKT(n) ==
    LET Board == (0..(n - 1)) \X (0..(n - 1))
    IN solveKTUtil(n, 0, 0, 1, 1, [c \in Board |-> IF c = <<0, 0>> THEN 0 ELSE -1])
=============================================================================
