--------------------------- MODULE MCTestPrograms ---------------------------
(* The inputs on which TLC runs the test programs and the readers of words. *)
EXTENDS TestPrograms

MCArrays == UNION {[0..(size - 1) -> 0..2] : size \in 1..4}

Pairs(vertices) == {e \in (0..(vertices - 1)) \X (0..(vertices - 1)) : e[1] < e[2]}

MCGraphs == UNION {[vertices : {k}, edges : SUBSET Pairs(k)] : k \in {1, 3, 4}}
            \union {[vertices |-> 5, edges |-> {<<0, 1>>, <<0, 2>>, <<0, 3>>, <<1, 4>>,
                                                 <<2, 4>>, <<3, 4>>}]}

(* The edge lists of 4 vertices with up to 4 edges, and bfs_test's own.    *)
MCEdgeLists ==
    [vertices : {4}, edges : UNION {{s \in [1..len -> Pairs(4)] : IsInjective(s)} : len \in 0..4}]
    \union {[vertices |-> 6, edges |-> << <<0, 1>>, <<0, 2>>, <<1, 2>>, <<1, 4>>, <<1, 3>>,
                                          <<2, 4>>, <<3, 4>> >>]}

MCBaseAddresses == {-64, 164}

MCKeys == -1..3

MCFactors == {0, 1, 2, 3, 4, 7, 14, 16, 17, 23, 85, 128, 170, 255}

MCVectors == [0..3 -> {0, 3}]

Square(size, S) == [0..(size - 1) -> [0..(size - 1) -> S]]
Digits == [i \in 0..2 |-> [j \in 0..2 |-> 3 * i + j + 1]]

MCMatrices ==
    [row1 : {2}, col1 : {2}, A : Square(2, {1, 2}), row2 : {2}, col2 : {2}, B : Square(2, {0, 3})]
    \union {[row1 |-> r, col1 |-> c, A |-> Digits, row2 |-> d, col2 |-> e, B |-> Digits] :
               r \in 1..3, c \in 1..3, d \in {2, 3}, e \in 1..3}

MCLayers == [lfsr : {\HACE1, 23, 4097}, pad : {0, 1}, stride : {1, 2}, af : {0, 1, 2}, pool : {0, 1}]

(* Every opcode a reader knows, with AMO for the others; every funct3;     *)
(* every funct7 a switch names, its neighbours and both signs; rs2 for     *)
(* each funct12 named.                                                     *)
Opcodes == {RV32_LUI_OP, RV32_AUIPC_OP, RV32_JAL_OP, RV32_JALR_OP, RV32_BRANCH, RV32_LOAD,
            RV32_STORE, RV32_OP_IMM, RV32_OP, RV32_FENCE, RV32_SYSTEM, \H2f}

MCWords == [f7 : {0, 1, 8, 32, 33, 64, 127}, rs2 : {0, 1, 5}, rs1 : {0, 1}, f3 : 0..7,
            rd : {0, 1, 31}, opcode : Opcodes]
=============================================================================
