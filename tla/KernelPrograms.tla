--------------------------- MODULE KernelPrograms ---------------------------
(***************************************************************************)
(* The numeric test programs: dft.c (multiplication by a number-theoretic  *)
(* transform), fc_forward.c, no_passing/outer_product.c,                   *)
(* no_passing/matrix_mult_rec.c and no_passing/alexnet.c.  Arrays are      *)
(* functions on their indices.                                             *)
(***************************************************************************)
EXTENDS Integers, Sequences, SequencesExt, Bitwise

Below(size) == 0..(size - 1)
IndicesBelow(size) == [k \in 1..size |-> k - 1]

(* for (i = 0; i < size; i++) acc += term(i)                               *)
SumTerms(term, size) == FoldLeft(LAMBDA acc, i : acc + term[i], 0, IndicesBelow(size))

-----------------------------------------------------------------------------
(* dft.c: arithmetic modulo m = 17, where w = 2 is an n-th root of unity   *)
(* for n = 8, w_r its inverse and n_r the inverse of n.                    *)
n   == 8
m   == 17
w   == 2
w_r == 9
n_r == 15

(* Mutant of modulo_m: the loop for negative numbers is missing.           *)
ModuloOfPositive(x) == IF x < 0 THEN x ELSE x % m

(* The two while loops bring x into 0..m-1.                                *)
modulo_m(x) == x % m

Power(root, i) == FoldLeft(LAMBDA base, k : modulo_m(base * root), 1, IndicesBelow(i))

RECURSIVE dft(_, _, _)
dft(a, len, root) ==
    IF root = 1 THEN a
    ELSE LET half == len \div 2
             x == dft([i \in Below(half) |-> a[2 * i]], half, modulo_m(root * root))
             y == dft([i \in Below(half) |-> a[2 * i + 1]], half, modulo_m(root * root))
         IN [i \in Below(len) |->
                IF i < half THEN modulo_m(x[i] + Power(root, i) * y[i])
                ELSE modulo_m(x[i - half] - Power(root, i - half) * y[i - half])]

(* The n low bits of x.                                                    *)
to_poly(x) == [i \in Below(n) |-> (x \div 2 ^ i) % 2]

mult(x, y) ==
    LET a == dft(to_poly(x), n, w)
        b == dft(to_poly(y), n, w)
        c == dft([i \in Below(n) |-> modulo_m(a[i] * b[i])], n, w_r)
    IN FoldLeft(LAMBDA s, i : [result |-> modulo_m(s.result
                                                   + s.base * modulo_m(c[i] * n_r)),
                               base   |-> modulo_m(s.base * w)],
                [result |-> 0, base |-> 1], IndicesBelow(n)).result

-----------------------------------------------------------------------------
(* kernel of fc_forward.c and of outer_product.c *)

fc_kernel(vec_a, vec_b, size, b) ==
    LET result == [i \in Below(size) |-> vec_a[i] * vec_b[i]]
    IN [result |-> result, out |-> SumTerms(result, size) + b]

(* The products are filled plane by plane of the first index, then each    *)
(* result[i][j] adds the planes up.                                        *)
outer_kernel(mat_a, mat_b, size) ==
    LET partial == [i \in Below(size) |-> [j \in Below(size) |-> [k \in Below(size) |->
                       mat_a[j][i] * mat_b[i][k]]]]
    IN [i \in Below(size) |-> [j \in Below(size) |->
           SumTerms([k \in Below(size) |-> partial[k][i][j]], size)]]

-----------------------------------------------------------------------------
(* matrix_mult_rec.c: one activation of multiplyMatrixRec on the static    *)
(* i, j, k and on C.  Every frame goes on after its calls return, so the   *)
(* statics move on while the calls unwind; past the last row they only     *)
(* count.                                                                  *)
RECURSIVE multiplyMatrixRec(_, _, _, _, _, _)
multiplyMatrixRec(row1, col1, A, col2, B, s) ==
    LET Call(t) == multiplyMatrixRec(row1, col1, A, col2, B, t)
        Inner == IF s.k < col1
                 THEN Call([s EXCEPT !.C[s.i][s.j] = @ + A[s.i][s.k] * B[s.k][s.j],
                                     !.k = @ + 1])
                 ELSE s
        Column == IF s.j < col2 THEN Call([Inner EXCEPT !.k = 0, !.j = @ + 1]) ELSE s
    IN IF s.i >= row1 THEN s ELSE Call([Column EXCEPT !.j = 0, !.i = @ + 1])

multiplyMatrix(row1, col1, A, row2, col2, B) ==
    LET C == [i \in Below(row1) |-> [j \in Below(col2) |-> 0]]
    IN IF row2 # col1 THEN C
       ELSE multiplyMatrixRec(row1, col1, A, col2, B, [i |-> 0, j |-> 0, k |-> 0, C |-> C]).C

-----------------------------------------------------------------------------
(* alexnet.c *)

(* random_gen: the next state of the 16-bit shift register, which is also  *)
(* the number drawn.                                                       *)
random_gen(lfsr) ==
    IF lfsr % 2 = 1 THEN (lfsr \div 2) ^^ \HB400 ELSE lfsr \div 2

Drawn(lfsr) == (lfsr % 16) - 5

(* The states of the register after 1..count draws.                        *)
Draws(lfsr, count) ==
    FoldLeft(LAMBDA s, k : Append(s, random_gen(s[k])), <<lfsr>>,
             [k \in 1..count |-> k])

relu_af(in_af) == IF in_af < 0 THEN 0 ELSE in_af
Activated(value, af_num) == IF af_num \in {0, 1} THEN relu_af(value) ELSE value

(* cnn_input_generator and cnn_weight_generator: draw number 1, 2, ... of  *)
(* states, in the order of their loops; each output channel draws its bias *)
(* before its weights.                                                     *)
cnn_input_generator(states, input_channel, input_size) ==
    [c \in Below(input_channel) |-> [x \in Below(input_size) |-> [y \in Below(input_size) |->
        Drawn(states[2 + (c * input_size + x) * input_size + y])]]]

cnn_weight_generator(states, input_channel, output_channel, kernel_size) ==
    LET PerOutput == 1 + input_channel * kernel_size * kernel_size
    IN [biasses |-> [o \in Below(output_channel) |-> Drawn(states[2 + o * PerOutput])],
        weights |-> [o \in Below(output_channel) |-> [i \in Below(input_channel) |->
            [x \in Below(kernel_size) |-> [y \in Below(kernel_size) |->
                Drawn(states[3 + o * PerOutput + (i * kernel_size + x) * kernel_size + y])]]]]]

fc_weight_generator(states, input_num, output_num) ==
    [biasses |-> [o \in Below(output_num) |-> Drawn(states[2 + o * (1 + input_num)])],
     weights |-> [o \in Below(output_num) |-> [i \in Below(input_num) |->
                     Drawn(states[3 + o * (1 + input_num) + i])]]]

fc_input_generator(states, input_num) == [i \in Below(input_num) |-> Drawn(states[2 + i])]

fc_layer(weights, biasses, inputs, input_num, output_num, af_num) ==
    [i \in Below(output_num) |->
        Activated(biasses[i] + SumTerms([j \in Below(input_num) |-> weights[i][j] * inputs[j]],
                                        input_num), af_num)]

(* fc_soft_max: the first position of the largest feature.                 *)
fc_soft_max(features, feature_num) ==
    FoldLeft(LAMBDA max, i : IF features[max] < features[i] THEN i ELSE max,
             0, IndicesBelow(feature_num))

(* The size of a convolved or pooled side: a shift by the stride, not a    *)
(* division by it.                                                         *)
output_size(input_size, kernel_size, stride, zero_pad) ==
    (input_size + 2 * zero_pad - kernel_size) \div (2 ^ stride) + 1

(* One input under the kernel; 0 in the padding.                           *)
Padded(inputs, channel, row, col, input_size) ==
    IF row \in Below(input_size) /\ col \in Below(input_size)
    THEN inputs[channel][row][col] ELSE 0

cnn_layer(weights, biasses, inputs, input_channel, output_channel, input_size, kernel_size, stride, zero_pad, af_num) ==
    LET Side == Below(output_size(input_size, kernel_size, stride, zero_pad))
        Term(o, r, c, i, x, y) ==
            Padded(inputs, i, stride * r + x - zero_pad, stride * c + y - zero_pad, input_size)
            * weights[o][i][x][y]
        Window(o, r, c, i) ==
            SumTerms([x \in Below(kernel_size) |->
                SumTerms([y \in Below(kernel_size) |-> Term(o, r, c, i, x, y)], kernel_size)],
                kernel_size)
    IN [o \in Below(output_channel) |-> [r \in Side |-> [c \in Side |->
           Activated(biasses[o] + SumTerms([i \in Below(input_channel) |-> Window(o, r, c, i)],
                                           input_channel), af_num)]]]

(* cnn_pool with pool_num = 0 keeps the largest input under the kernel;    *)
(* with pool_num = 1 their sum less the area of the kernel.                *)
cnn_pool(inputs, feature_channel, input_size, kernel_size, stride, zero_pad, pool_num) ==
    LET Side == Below(output_size(input_size, kernel_size, stride, zero_pad))
        Candidates(ch, r, c) ==
            [k \in Below(kernel_size * kernel_size) |->
                inputs[ch][stride * r + k \div kernel_size][stride * c + (k % kernel_size)]]
        Largest(cs) == FoldLeft(LAMBDA best, k : IF best < cs[k] THEN cs[k] ELSE best,
                                cs[0], IndicesBelow(kernel_size * kernel_size))
        Total(cs) == SumTerms(cs, kernel_size * kernel_size) - kernel_size * kernel_size
    IN [ch \in Below(feature_channel) |-> [r \in Side |-> [c \in Side |->
           IF pool_num = 0 THEN Largest(Candidates(ch, r, c)) ELSE Total(Candidates(ch, r, c))]]]

cnn_to_fc(cnn_feature, channels, size) ==
    [f \in Below(channels * size * size) |->
        cnn_feature[f \div (size * size)][(f \div size) % size][f % size]]
=============================================================================
