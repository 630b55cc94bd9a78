------------------------- MODULE InstructionTables -------------------------
(***************************************************************************)
(* The four places of the repository that take an instruction word apart:  *)
(*                                                                         *)
(*   - inst_t of testbench/riscv_inst.h (decode, analyze, select, encode), *)
(*     which names the instructions the visual debugger shows;             *)
(*   - print_stage of testbench/pipe_print.c, which names the ones the     *)
(*     pipeline listing shows;                                             *)
(*   - verilog/decoder.sv, the decoder of the processor, over the patterns *)
(*     of verilog/ISA.svh;                                                 *)
(*   - verilog/fu_top.sv, which builds the second operand.                 *)
(*                                                                         *)
(* A word is the record of its fields [f7, rs2, rs1, f3, rd, opcode], so   *)
(* inst >> 25 is f7, inst >> 20 is f12, and inst[31] is f7 \div 64.  A     *)
(* 32-bit immediate is the signed number its bits denote.  A field that    *)
(* the code leaves unassigned is Unset, a number it leaves NoCode.         *)
(*                                                                         *)
(* A behaviour is one word coming to all its readers, which answer for     *)
(* themselves.                                                             *)
(***************************************************************************)
EXTENDS Integers

(* The words of 32 bits.                                                   *)
Word == [f7 : 0..127, rs2 : 0..31, rs1 : 0..31, f3 : 0..7, rd : 0..31, opcode : 0..127]

CONSTANT Words      \* the words that come

ASSUME WordsAssumption == Words \subseteq Word

VARIABLES word,     \* the word that comes
          readings  \* what its readers made of it

readVars == <<word, readings>>

Unset   == "unset"
NoCode  == -1
Unread == [done |-> FALSE]

f12(w)  == w.f7 * 32 + w.rs2
Bit31(w) == w.f7 \div 64

(* The opcodes, by their names in ISA.svh.                                 *)
RV32_LOAD == 3
RV32_STORE == 35
RV32_BRANCH == 99
RV32_JALR_OP == 103
RV32_FENCE == 15
RV32_JAL_OP == 111
RV32_OP_IMM == 19
RV32_OP == 51
RV32_SYSTEM == 115
RV32_AUIPC_OP == 23
RV32_LUI_OP == 55

(* funct12 of wfi.                                                         *)
WfiCode == 261

(* A switch over funct3.                                                   *)
ByFunct3(w, t0, t1, t2, t3, t4, t5, t6, t7) ==
    CASE w.f3 = 0 -> t0 [] w.f3 = 1 -> t1 [] w.f3 = 2 -> t2 [] w.f3 = 3 -> t3
      [] w.f3 = 4 -> t4 [] w.f3 = 5 -> t5 [] w.f3 = 6 -> t6 [] w.f3 = 7 -> t7

-----------------------------------------------------------------------------
(* inst_t::decode: the text of a word, one operator per inner switch.      *)

branch(w) == ByFunct3(w, "beq", "bne", "invalid", "invalid", "blt", "bge", "bltu", "bgeu")
load(w)   == ByFunct3(w, "lb", "lh", "lw", "invalid", "lbu", "lhu", "invalid", "invalid")
store(w)  == ByFunct3(w, "sb", "sh", "sw", "invalid", "invalid", "invalid", "invalid", "invalid")

(* Mutant of immediate: the function code of a shift is not looked at.     *)
ShiftsByFunct3(w) == ByFunct3(w, "addi", "slli", "slti", "sltiu", "xori", "srli", "ori", "andi")

immediate(w) ==
    ByFunct3(w, "addi", IF w.f7 = 0 THEN "slli" ELSE "invalid", "slti", "sltiu", "xori",
             CASE w.f7 = 0 -> "srli" [] w.f7 = 32 -> "srai" [] OTHER -> "invalid",
             "ori", "andi")

(* Keyed by funct7 << 4 | funct3, which is the pair of the two fields.     *)
arithmetic(w) ==
    CASE w.f7 = 0  -> ByFunct3(w, "add", "sll", "slt", "sltu", "xor", "srl", "or", "and")
      [] w.f7 = 1  -> ByFunct3(w, "mul", "mulh", "mulhsu", "mulhu", "div", "divu", "rem", "remu")
      [] w.f7 = 32 /\ w.f3 = 0 -> "sub"
      [] w.f7 = 32 /\ w.f3 = 5 -> "sra"
      [] OTHER -> "invalid"

system(w) ==
    ByFunct3(w, CASE f12(w) = 0 -> "ecall"       [] f12(w) = 1 -> "ebreak"
                  [] f12(w) = WfiCode -> "wfi"   [] OTHER -> "system",
             "csrrw", "csrrs", "csrrc", "invalid", "csrrwi", "csrrsi", "csrrci")

(* The texts whose op is INVALID: decoded for display, not implemented.    *)
Unimplemented ==
    {"div", "divu", "rem", "remu", "fence", "ecall", "ebreak", "system",
     "csrrw", "csrrs", "csrrc", "csrrwi", "csrrsi", "csrrci", "invalid"}

(* riscv and imm, which the outer switch assigns (not for fence and for    *)
(* unknown opcodes).                                                       *)
Riscv(w) ==
    CASE w.opcode \in {RV32_LUI_OP, RV32_AUIPC_OP, RV32_JAL_OP} -> "UType"
      [] w.opcode \in {RV32_JALR_OP, RV32_LOAD, RV32_OP_IMM} -> "IType"
      [] w.opcode \in {RV32_BRANCH, RV32_STORE} -> "SType"
      [] w.opcode = RV32_OP -> "RType"
      [] w.opcode = RV32_SYSTEM -> "PType"
      [] OTHER -> Unset
Imm(w) ==
    CASE w.opcode \in {RV32_LUI_OP, RV32_AUIPC_OP} -> "Uimm"
      [] w.opcode = RV32_JAL_OP -> "Jimm"
      [] w.opcode \in {RV32_JALR_OP, RV32_LOAD, RV32_OP_IMM} -> "Iimm"
      [] w.opcode = RV32_BRANCH -> "Bimm"
      [] w.opcode = RV32_STORE -> "Simm"
      [] w.opcode \in {RV32_OP, RV32_SYSTEM} -> "Rimm"
      [] OTHER -> Unset

(* analyze: the immediate of each format, sign-extended from inst[31].     *)
analyze(w, imm) ==
    CASE imm = "Iimm" /\ w.opcode = RV32_OP_IMM /\ w.f3 \in {1, 5} -> w.rs2
      [] imm = "Iimm" /\ ~(w.opcode = RV32_OP_IMM /\ w.f3 \in {1, 5}) ->
            w.rs2 + 32 * (w.f7 % 64) - 2048 * Bit31(w)
      [] imm = "Simm" -> w.rd + 32 * (w.f7 % 64) - 2048 * Bit31(w)
      [] imm = "Bimm" -> 2 * (w.rd \div 2 + 16 * (w.f7 % 64) + 1024 * (w.rd % 2))
                         - 4096 * Bit31(w)
      [] imm = "Uimm" -> w.f3 + 8 * w.rs1 + 256 * w.rs2 + 8192 * w.f7
      [] imm = "Jimm" -> 2 * (w.rs2 \div 2 + 16 * (w.f7 % 64)
                              + 1024 * (w.rs2 % 2) + 2048 * (8 * w.rs1 + w.f3))
                         - 1048576 * Bit31(w)
      [] OTHER -> 0

decode(w) ==
    LET str == CASE w.opcode = RV32_LUI_OP   -> "LUI"
                 [] w.opcode = RV32_AUIPC_OP -> "auipc"
                 [] w.opcode = RV32_JAL_OP   -> "jal"
                 [] w.opcode = RV32_JALR_OP  -> "jalr"
                 [] w.opcode = RV32_BRANCH   -> branch(w)
                 [] w.opcode = RV32_LOAD     -> load(w)
                 [] w.opcode = RV32_STORE    -> store(w)
                 [] w.opcode = RV32_OP_IMM   -> immediate(w)
                 [] w.opcode = RV32_OP       -> arithmetic(w)
                 [] w.opcode = RV32_FENCE    -> "fence"
                 [] w.opcode = RV32_SYSTEM   -> system(w)
                 [] OTHER                    -> "invalid"
    IN [word |-> w, str |-> str,
        op        |-> IF str \in Unimplemented THEN "INVALID" ELSE str,
        riscv     |-> Riscv(w),
        imm       |-> Imm(w),
        imm_value |-> analyze(w, Imm(w))]

is_nop(i) == i.op = "addi" /\ i.word.rd = 0 /\ i.word.rs1 = 0 /\ i.imm_value = 0

(* select: the opcode, formats and function codes of each op, for          *)
(* building a word.                                                        *)
Row(opcode, riscv, imm, funct3, funct7) ==
    [opcode |-> opcode, riscv |-> riscv, imm |-> imm, funct3 |-> funct3, funct7 |-> funct7]

select(op) ==
    LET OfImm(f3, f7) == Row(RV32_OP_IMM, "IType", "Iimm", f3, f7)
        OfOp(f3, f7)  == Row(RV32_OP, "RType", "Rimm", f3, f7)
        OfBranch(f3)  == Row(RV32_BRANCH, "SType", "Bimm", f3, NoCode)
        OfLoad(f3)    == Row(RV32_LOAD, "IType", "Iimm", f3, NoCode)
        OfStore(f3)   == Row(RV32_STORE, "SType", "Simm", f3, NoCode)
        Long(opcode)  == Row(opcode, "UType", "Uimm", NoCode, NoCode)
    IN CASE op = "addi" -> OfImm(0, NoCode)  [] op = "slti" -> OfImm(2, NoCode)
         [] op = "sltiu" -> OfImm(3, NoCode) [] op = "andi" -> OfImm(7, NoCode)
         [] op = "ori" -> OfImm(6, NoCode)   [] op = "xori" -> OfImm(4, NoCode)
         [] op = "slli" -> OfImm(1, 0) [] op = "srli" -> OfImm(5, 0) [] op = "srai" -> OfImm(5, 32)
         [] op = "LUI" -> Long(RV32_LUI_OP)  [] op = "auipc" -> Long(RV32_AUIPC_OP)
         [] op = "add" -> OfOp(0, 0)   [] op = "slt" -> OfOp(2, 0)   [] op = "sltu" -> OfOp(3, 0)
         [] op = "and" -> OfOp(7, 0)   [] op = "or" -> OfOp(6, 0)    [] op = "xor" -> OfOp(4, 0)
         [] op = "sll" -> OfOp(1, 0)   [] op = "srl" -> OfOp(5, 0)   [] op = "sra" -> OfOp(5, 32)
         [] op = "sub" -> OfOp(0, 32)  [] op = "mul" -> OfOp(0, 1)   [] op = "mulh" -> OfOp(1, 1)
         [] op = "mulhu" -> OfOp(3, 1) [] op = "mulhsu" -> OfOp(2, 1)
         [] op = "jal" -> Long(RV32_JAL_OP)
         [] op = "jalr" -> Row(RV32_JALR_OP, "IType", "Iimm", 0, NoCode)
         [] op = "beq" -> OfBranch(0)  [] op = "bne" -> OfBranch(1)  [] op = "blt" -> OfBranch(4)
         [] op = "bltu" -> OfBranch(6) [] op = "bge" -> OfBranch(5)  [] op = "bgeu" -> OfBranch(7)
         [] op = "lb" -> OfLoad(0)     [] op = "lh" -> OfLoad(1)     [] op = "lw" -> OfLoad(2)
         [] op = "lbu" -> OfLoad(4)    [] op = "lhu" -> OfLoad(5)
         [] op = "sb" -> OfStore(0)    [] op = "sh" -> OfStore(1)    [] op = "sw" -> OfStore(2)
         [] op = "wfi" -> Row(RV32_SYSTEM, "PType", "Rimm", 0, NoCode)
         [] OTHER -> Row(NoCode, Unset, Unset, NoCode, NoCode)

(* encode: the word of a decoded instruction.  An S immediate puts back    *)
(* bits 4:0 and 10:5 and leaves inst[31] 0.                                *)
encode(i) ==
    LET w == i.word
        v == i.imm_value
        Offset == (v \div 32) % 64
    IN CASE i.riscv = "IType" /\ i.op \in {"slli", "srli", "srai"} ->
              [w EXCEPT !.rs2 = v % 32]
         [] i.riscv = "IType" /\ i.op \notin {"slli", "srli", "srai"} ->
              [w EXCEPT !.rs2 = v % 32, !.f7 = (v \div 32) % 128]
         [] i.riscv = "SType" /\ i.imm = "Simm" ->
              [w EXCEPT !.rd = v % 32, !.f7 = Offset]
         [] i.riscv = "SType" /\ i.imm = "Bimm" ->
              [w EXCEPT !.rd = ((v \div 2048) % 2) + 2 * ((v \div 2) % 16),
                        !.f7 = Offset + 64 * ((v \div 4096) % 2)]
         [] i.riscv = "UType" /\ i.imm = "Uimm" ->
              [w EXCEPT !.f3 = v % 8, !.rs1 = (v \div 8) % 32,
                        !.rs2 = (v \div 256) % 32, !.f7 = (v \div 8192) % 128]
         [] i.riscv = "UType" /\ i.imm = "Jimm" ->
              [w EXCEPT !.f3 = (v \div 4096) % 8, !.rs1 = (v \div 32768) % 32,
                        !.rs2 = ((v \div 2048) % 2) + 2 * ((v \div 2) % 16),
                        !.f7 = Offset + 64 * ((v \div 1048576) % 2)]
         [] OTHER -> w

(* get_opcode_str: what the debugger shows in a pipeline stage.  The valid *)
(* bit arrives as a digit less '0'; an unknown bit as 'x' less '0'.        *)
Unknown == 72
Noop == [f7 |-> 0, rs2 |-> 0, rs1 |-> 0, f3 |-> 0, rd |-> 0, opcode |-> RV32_OP_IMM]

get_opcode_str(w, valid_inst) ==
    CASE valid_inst \in {0, Unknown} -> "-"
      [] valid_inst \notin {0, Unknown} /\ w = Noop -> "nop"
      [] valid_inst \notin {0, Unknown} /\ w # Noop -> decode(w).str

-----------------------------------------------------------------------------
(* print_stage of pipe_print.c: its own switch over the same words.  The   *)
(* shifts are of a signed int, so funct7 and funct12 of a word with        *)
(* inst[31] = 1 are negative and select no label.                          *)
Signed7(w)  == w.f7 - 128 * Bit31(w)
Signed12(w) == f12(w) - 4096 * Bit31(w)

print_branch(w) ==
    ByFunct3(w, "beq", "bne", "invalid", "invalid", "blt", "bge", "bltu", "bgeu")
print_load(w)   ==
    ByFunct3(w, "lb", "lh", "lw", "invalid", "lbu", "lhu", "invalid", "invalid")
print_store(w)  ==
    ByFunct3(w, "sb", "sh", "sw", "invalid", "invalid", "invalid", "invalid", "invalid")
print_imm(w) ==
    ByFunct3(w, "addi", IF Signed7(w) = 0 THEN "slli" ELSE "invalid", "slti", "sltiu", "xori",
             CASE Signed7(w) = 0 -> "srli" [] Signed7(w) = 32 -> "srai" [] OTHER -> "invalid",
             "ori", "andi")
print_arith(w) ==
    CASE Signed7(w) = 0  -> ByFunct3(w, "add", "sll", "slt", "sltu", "xor", "srl", "or", "and")
      [] Signed7(w) = 1  -> ByFunct3(w, "mul", "mulh", "mulhsu", "mulhu", "div", "divu", "rem", "remu")
      [] Signed7(w) = 32 -> CASE w.f3 = 0 -> "sub" [] w.f3 = 5 -> "sra" [] OTHER -> "invalid"
      [] OTHER -> "invalid"
print_system(w) ==
    ByFunct3(w, CASE Signed12(w) = 0 -> "ecall"       [] Signed12(w) = 1 -> "ebreak"
                  [] Signed12(w) = WfiCode -> "wfi"   [] OTHER -> "system",
             "csrrw", "csrrs", "csrrc", "invalid", "csrrwi", "csrrsi", "csrrci")

print_stage(w, valid_inst) ==
    CASE valid_inst = 0 -> "-"
      [] valid_inst # 0 /\ w = Noop -> "nop"
      [] valid_inst # 0 /\ w # Noop ->
           CASE w.opcode = RV32_LUI_OP   -> "lui"
             [] w.opcode = RV32_AUIPC_OP -> "auipc"
             [] w.opcode = RV32_JAL_OP   -> "jal"
             [] w.opcode = RV32_JALR_OP  -> "jalr"
             [] w.opcode = RV32_BRANCH   -> print_branch(w)
             [] w.opcode = RV32_LOAD     -> print_load(w)
             [] w.opcode = RV32_STORE    -> print_store(w)
             [] w.opcode = RV32_OP_IMM   -> print_imm(w)
             [] w.opcode = RV32_OP       -> print_arith(w)
             [] w.opcode = RV32_FENCE    -> "fence"
             [] w.opcode = RV32_SYSTEM   -> print_system(w)
             [] OTHER                    -> "invalid"

-----------------------------------------------------------------------------
(* decoder.sv: the word patterns of ISA.svh by group, and the controls.    *)
Jump(w)   == w.opcode = RV32_JAL_OP \/ (w.opcode = RV32_JALR_OP /\ w.f3 = 0)
Branch(w) == w.opcode = RV32_BRANCH /\ w.f3 \in {0, 1, 4, 5, 6, 7}
Load(w)   == w.opcode = RV32_LOAD /\ w.f3 \in {0, 1, 2, 4, 5}
Store(w)  == w.opcode = RV32_STORE /\ w.f3 \in {0, 1, 2}
OpImm(w)  == /\ w.opcode = RV32_OP_IMM
             /\ \/ w.f3 \in {0, 2, 3, 4, 6, 7}
                \/ w.f3 = 1 /\ w.f7 = 0
                \/ w.f3 = 5 /\ w.f7 \in {0, 32}
Op(w)     == /\ w.opcode = RV32_OP
             /\ \/ w.f7 = 0
                \/ w.f7 = 32 /\ w.f3 \in {0, 5}
                \/ w.f7 = 1 /\ w.f3 \in {0, 1, 2, 3}
Upper(w)  == w.opcode \in {RV32_LUI_OP, RV32_AUIPC_OP}
Csr(w)    == w.opcode = RV32_SYSTEM /\ w.f3 \in {1, 2, 3}
Wfi(w)    == w.opcode = RV32_SYSTEM /\ f12(w) = WfiCode /\ w.rs1 = 0 /\ w.f3 = 0 /\ w.rd = 0

opb_select(w) ==
    CASE Upper(w) -> "OPB_IS_U_IMM"
      [] w.opcode = RV32_JAL_OP -> "OPB_IS_J_IMM"
      [] (Jump(w) /\ w.opcode = RV32_JALR_OP) \/ Load(w) \/ OpImm(w) -> "OPB_IS_I_IMM"
      [] Branch(w) -> "OPB_IS_B_IMM"
      [] Store(w)  -> "OPB_IS_S_IMM"
      [] OTHER     -> "OPB_IS_RS2"

opa_select(w) ==
    CASE w.opcode = RV32_LUI_OP -> "OPA_IS_ZERO"
      [] w.opcode \in {RV32_AUIPC_OP, RV32_JAL_OP} \/ Branch(w) -> "OPA_IS_PC"
      [] OTHER -> "OPA_IS_RS1"

decoder(w) ==
    LET halt    == Wfi(w)
        illegal == ~(\/ Jump(w) \/ Branch(w) \/ Load(w) \/ Store(w) \/ OpImm(w)
                     \/ Op(w) \/ Upper(w) \/ Csr(w) \/ Wfi(w))
    IN [illegal |-> illegal, halt |-> halt, csr_op |-> Csr(w),
        cond_branch |-> Branch(w), uncond_branch |-> Jump(w),
        rd_mem |-> Load(w), wr_mem |-> Store(w),
        dest_arn |-> IF Jump(w) \/ Load(w) \/ OpImm(w) \/ Op(w) \/ Upper(w)
                     THEN w.rd ELSE 0,
        use_opa_arn |-> (opa_select(w) = "OPA_IS_RS1" /\ ~illegal /\ ~halt)
                        \/ Branch(w),
        use_opb_arn |-> (opb_select(w) = "OPB_IS_RS2" /\ ~illegal /\ ~halt)
                        \/ Branch(w) \/ Store(w)]

(* The immediate operand fu_top builds: below the sign, weight is what the *)
(* repeated bit inst[31] counts for.                                       *)
Sext(w, low, weight) == low - weight * Bit31(w)

op2_mux_out(w) ==
    CASE opb_select(w) = "OPB_IS_I_IMM" -> Sext(w, 32 * (w.f7 % 64) + w.rs2, 2048)
      [] opb_select(w) = "OPB_IS_S_IMM" -> Sext(w, 32 * (w.f7 % 64) + w.rd, 2048)
      [] opb_select(w) = "OPB_IS_B_IMM" ->
           Sext(w, 2048 * (w.rd % 2) + 32 * (w.f7 % 64) + 2 * (w.rd \div 2), 4096)
      [] opb_select(w) = "OPB_IS_U_IMM" ->
           4096 * Sext(w, 8192 * w.f7 + 256 * w.rs2 + 8 * w.rs1 + w.f3, 1048576)
      [] opb_select(w) = "OPB_IS_J_IMM" ->
           Sext(w, 32768 * w.rs1 + 4096 * w.f3 + 2048 * (w.rs2 % 2)
                   + 32 * (w.f7 % 64) + 2 * (w.rs2 \div 2), 1048576)
      [] OTHER -> 0

-----------------------------------------------------------------------------
(* A word comes to its readers.                                            *)
ReadInit == word \in Words /\ readings = Unread

Reading(w) == [done |-> TRUE, debugger |-> decode(w), shown |-> get_opcode_str(w, 1),
               printed |-> print_stage(w, 1), hardware |-> decoder(w)]

Decode == readings = Unread /\ readings' = Reading(word) /\ UNCHANGED word

ReadSpec == ReadInit /\ [][Decode]_readVars

-----------------------------------------------------------------------------
(* What the readings r of a word w have to do with each other.             *)

Known(r)  == r.debugger.op # "INVALID"
Common(r) == Known(r) /\ ~r.hardware.illegal

(* The two texts are the same but for the capitals of LUI.                 *)
TextsAgree(r) == (IF r.shown = "LUI" THEN "lui" ELSE r.shown) = r.printed

(* The debugger knows an op exactly for the words the decoder accepts,     *)
(* except the CSR words it only names and the jalr and wfi words it does   *)
(* not check in full.                                                      *)
KnownAgree(w, r) ==
    /\ ~Known(r) => r.hardware.illegal \/ r.hardware.csr_op
    /\ r.hardware.illegal /\ Known(r) =>
          \/ r.debugger.op = "jalr" /\ w.f3 # 0
          \/ r.debugger.op = "wfi" /\ (w.rs1 # 0 \/ w.rd # 0)

(* Halting, the operands read and the register written.                    *)
OperandsAgree(w, r) ==
    /\ r.hardware.halt <=> r.debugger.op = "wfi"
    /\ r.hardware.use_opa_arn <=> r.debugger.riscv \in {"RType", "IType", "SType"}
    /\ r.hardware.use_opb_arn <=> r.debugger.riscv \in {"RType", "SType"}
    /\ r.hardware.dest_arn = IF r.debugger.riscv \in {"SType", "PType"} THEN 0 ELSE w.rd

ImmediatesAgree(w, i) ==
    op2_mux_out(w) = CASE i.imm = "Uimm" -> 4096 * Sext(w, i.imm_value, 1048576)
                       [] i.op \in {"slli", "srli", "srai"} -> i.imm_value + 32 * w.f7
                       [] OTHER -> i.imm_value

(* encode puts the word together again, except for the sign of a store     *)
(* offset.                                                                 *)
EncodeRestores(w, i) == encode(i) = IF i.imm = "Simm" THEN [w EXCEPT !.f7 = @ % 64] ELSE w

(* select names the codes of the op, except that it gives jal the          *)
(* immediate of lui.                                                       *)
SelectNames(w, i) ==
    LET selected == select(i.op)
    IN /\ selected.opcode = w.opcode /\ selected.riscv = i.riscv
       /\ selected.imm = i.imm \/ i.op = "jal"
       /\ selected.funct3 \in {NoCode, w.f3}
       /\ selected.funct7 \in {NoCode, w.f7}

(* The debugger, the pipeline listing and the processor read a word alike: *)
(* its text, whether it is legal, its operands, its immediate; and the     *)
(* debugger puts it together again (riscv_inst.h:130-958,                  *)
(* pipe_print.c:37-156, decoder.sv:61-209, fu_top.sv:33-47).               *)
DecodersAgree ==
    readings.done =>
        /\ TextsAgree(readings)
        /\ KnownAgree(word, readings)
        /\ Common(readings) =>
              /\ OperandsAgree(word, readings)
              /\ ImmediatesAgree(word, readings.debugger)
              /\ EncodeRestores(word, readings.debugger)
              /\ SelectNames(word, readings.debugger)
              /\ is_nop(readings.debugger) <=> word = Noop
=============================================================================
