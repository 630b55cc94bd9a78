------------------------- MODULE InstructionProofs -------------------------
(***************************************************************************)
(* The readers of an instruction word agree about every word of 32 bits    *)
(* (DecodersAgree of InstructionTables), not only about the words TLC      *)
(* tries.                                                                  *)
(*                                                                         *)
(* The texts, the legality, the operands and the rows of select are cases  *)
(* over the opcode and the function codes.  The immediates are arithmetic: *)
(* each is a sum of fields, inst[31] counting negative, out of which       *)
(* division recovers the fields (ICut to JCut).                            *)
(***************************************************************************)
EXTENDS InstructionTables, TLAPS

USE DEF RV32_LOAD, RV32_STORE, RV32_BRANCH, RV32_JALR_OP, RV32_FENCE, RV32_JAL_OP,
        RV32_OP_IMM, RV32_OP, RV32_SYSTEM, RV32_AUIPC_OP, RV32_LUI_OP, WfiCode

-----------------------------------------------------------------------------
(* The texts.                                                              *)

(* print_stage shifts a signed int: its funct7 and funct12 are the         *)
(* unsigned ones whenever either selects a label (pipe_print.c:47-50).     *)
LEMMA SignedCode ==
    ASSUME NEW w \in Word
    PROVE  /\ Signed7(w) = 0 <=> w.f7 = 0
           /\ Signed7(w) = 1 <=> w.f7 = 1
           /\ Signed7(w) = 32 <=> w.f7 = 32
           /\ Signed12(w) = 0 <=> f12(w) = 0
           /\ Signed12(w) = 1 <=> f12(w) = 1
           /\ Signed12(w) = WfiCode <=> f12(w) = WfiCode
BY DEF Word, Signed7, Signed12, f12, Bit31

(* The debugger and the pipeline listing print the same text of a word     *)
(* (riscv_inst.h:130-520, pipe_print.c:37-156).                            *)
LEMMA Texts ==
    ASSUME NEW w \in Word
    PROVE  TextsAgree(Reading(w))
<1>1. CASE w.opcode = RV32_OP_IMM
  BY <1>1, SignedCode DEF TextsAgree, Reading, get_opcode_str, decode, print_stage,
               immediate, print_imm, ByFunct3, Word, Noop, Unknown
<1>2. CASE w.opcode = RV32_OP
  BY <1>2, SignedCode DEF TextsAgree, Reading, get_opcode_str, decode, print_stage,
               arithmetic, print_arith, ByFunct3, Word, Noop, Unknown
<1>3. CASE w.opcode = RV32_SYSTEM
  BY <1>3, SignedCode DEF TextsAgree, Reading, get_opcode_str, decode, print_stage,
               system, print_system, ByFunct3, Word, Noop, Unknown
<1>4. CASE w.opcode \in {RV32_BRANCH, RV32_LOAD, RV32_STORE}
  BY <1>4, SignedCode DEF TextsAgree, Reading, get_opcode_str, decode, print_stage,
               branch, print_branch, load, print_load, store, print_store, ByFunct3, Word, Noop, Unknown
<1>5. CASE w.opcode \notin {RV32_OP_IMM, RV32_OP, RV32_SYSTEM, RV32_BRANCH, RV32_LOAD, RV32_STORE}
  BY <1>5 DEF TextsAgree, Reading, get_opcode_str, decode, print_stage, Noop, Unknown, Word
<1> QED BY <1>1, <1>2, <1>3, <1>4, <1>5

(* The texts of OP-IMM words (riscv_inst.h:275-337).                       *)
LEMMA ImmediateTexts ==
    ASSUME NEW w \in Word
    PROVE  \/ w.f3 = 0 /\ immediate(w) = "addi"
           \/ w.f3 = 2 /\ immediate(w) = "slti"
           \/ w.f3 = 3 /\ immediate(w) = "sltiu"
           \/ w.f3 = 4 /\ immediate(w) = "xori"
           \/ w.f3 = 6 /\ immediate(w) = "ori"
           \/ w.f3 = 7 /\ immediate(w) = "andi"
           \/ w.f3 = 1 /\ w.f7 = 0 /\ immediate(w) = "slli"
           \/ w.f3 = 5 /\ w.f7 = 0 /\ immediate(w) = "srli"
           \/ w.f3 = 5 /\ w.f7 = 32 /\ immediate(w) = "srai"
           \/ w.f3 = 1 /\ w.f7 # 0 /\ immediate(w) = "invalid"
           \/ w.f3 = 5 /\ w.f7 \notin {0, 32} /\ immediate(w) = "invalid"
BY DEF immediate, ByFunct3, Word

(* The texts of OP words (riscv_inst.h:338-440).                           *)
LEMMA ArithmeticTexts ==
    ASSUME NEW w \in Word
    PROVE  \/ w.f3 = 0 /\ w.f7 = 0 /\ arithmetic(w) = "add"
           \/ w.f3 = 1 /\ w.f7 = 0 /\ arithmetic(w) = "sll"
           \/ w.f3 = 2 /\ w.f7 = 0 /\ arithmetic(w) = "slt"
           \/ w.f3 = 3 /\ w.f7 = 0 /\ arithmetic(w) = "sltu"
           \/ w.f3 = 4 /\ w.f7 = 0 /\ arithmetic(w) = "xor"
           \/ w.f3 = 5 /\ w.f7 = 0 /\ arithmetic(w) = "srl"
           \/ w.f3 = 6 /\ w.f7 = 0 /\ arithmetic(w) = "or"
           \/ w.f3 = 7 /\ w.f7 = 0 /\ arithmetic(w) = "and"
           \/ w.f3 = 0 /\ w.f7 = 32 /\ arithmetic(w) = "sub"
           \/ w.f3 = 5 /\ w.f7 = 32 /\ arithmetic(w) = "sra"
           \/ w.f3 = 0 /\ w.f7 = 1 /\ arithmetic(w) = "mul"
           \/ w.f3 = 1 /\ w.f7 = 1 /\ arithmetic(w) = "mulh"
           \/ w.f3 = 2 /\ w.f7 = 1 /\ arithmetic(w) = "mulhsu"
           \/ w.f3 = 3 /\ w.f7 = 1 /\ arithmetic(w) = "mulhu"
           \/ w.f3 = 4 /\ w.f7 = 1 /\ arithmetic(w) = "div"
           \/ w.f3 = 5 /\ w.f7 = 1 /\ arithmetic(w) = "divu"
           \/ w.f3 = 6 /\ w.f7 = 1 /\ arithmetic(w) = "rem"
           \/ w.f3 = 7 /\ w.f7 = 1 /\ arithmetic(w) = "remu"
           \/ w.f3 \notin {0, 5} /\ w.f7 = 32 /\ arithmetic(w) = "invalid"
           \/ w.f7 \notin {0, 1, 32} /\ arithmetic(w) = "invalid"
BY DEF arithmetic, ByFunct3, Word

(* The texts of BRANCH words (riscv_inst.h:169-210).                       *)
LEMMA BranchTexts ==
    ASSUME NEW w \in Word
    PROVE  \/ w.f3 = 0 /\ branch(w) = "beq"
           \/ w.f3 = 1 /\ branch(w) = "bne"
           \/ w.f3 = 2 /\ branch(w) = "invalid"
           \/ w.f3 = 3 /\ branch(w) = "invalid"
           \/ w.f3 = 4 /\ branch(w) = "blt"
           \/ w.f3 = 5 /\ branch(w) = "bge"
           \/ w.f3 = 6 /\ branch(w) = "bltu"
           \/ w.f3 = 7 /\ branch(w) = "bgeu"
BY DEF branch, ByFunct3, Word

(* The texts of LOAD words (riscv_inst.h:211-247).                         *)
LEMMA LoadTexts ==
    ASSUME NEW w \in Word
    PROVE  \/ w.f3 = 0 /\ load(w) = "lb"
           \/ w.f3 = 1 /\ load(w) = "lh"
           \/ w.f3 = 2 /\ load(w) = "lw"
           \/ w.f3 = 3 /\ load(w) = "invalid"
           \/ w.f3 = 4 /\ load(w) = "lbu"
           \/ w.f3 = 5 /\ load(w) = "lhu"
           \/ w.f3 = 6 /\ load(w) = "invalid"
           \/ w.f3 = 7 /\ load(w) = "invalid"
BY DEF load, ByFunct3, Word

(* The texts of STORE words (riscv_inst.h:248-274).                        *)
LEMMA StoreTexts ==
    ASSUME NEW w \in Word
    PROVE  \/ w.f3 = 0 /\ store(w) = "sb"
           \/ w.f3 = 1 /\ store(w) = "sh"
           \/ w.f3 = 2 /\ store(w) = "sw"
           \/ w.f3 \in {3, 4, 5, 6, 7} /\ store(w) = "invalid"
BY DEF store, ByFunct3, Word

(* The texts of SYSTEM words (riscv_inst.h:446-512).                       *)
LEMMA SystemTexts ==
    ASSUME NEW w \in Word
    PROVE  \/ w.f3 = 0 /\ f12(w) = 0 /\ system(w) = "ecall"
           \/ w.f3 = 0 /\ f12(w) = 1 /\ system(w) = "ebreak"
           \/ w.f3 = 0 /\ f12(w) = WfiCode /\ system(w) = "wfi"
           \/ w.f3 = 0 /\ f12(w) \notin {0, 1, WfiCode} /\ system(w) = "system"
           \/ w.f3 = 1 /\ system(w) = "csrrw"
           \/ w.f3 = 2 /\ system(w) = "csrrs"
           \/ w.f3 = 3 /\ system(w) = "csrrc"
           \/ w.f3 = 4 /\ system(w) = "invalid"
           \/ w.f3 = 5 /\ system(w) = "csrrwi"
           \/ w.f3 = 6 /\ system(w) = "csrrsi"
           \/ w.f3 = 7 /\ system(w) = "csrrci"
BY DEF system, ByFunct3, Word

(* What the outer switch of decode finds, by opcode                        *)
(* (riscv_inst.h:137-517).                                                 *)
LEMMA TextOf ==
    ASSUME NEW w
    PROVE  /\ w.opcode = RV32_OP_IMM => decode(w).str = immediate(w)
           /\ w.opcode = RV32_OP     => decode(w).str = arithmetic(w)
           /\ w.opcode = RV32_SYSTEM => decode(w).str = system(w)
           /\ w.opcode = RV32_BRANCH => decode(w).str = branch(w)
           /\ w.opcode = RV32_LOAD   => decode(w).str = load(w)
           /\ w.opcode = RV32_STORE  => decode(w).str = store(w)
           /\ w.opcode = RV32_LUI_OP => decode(w).str = "LUI"
           /\ w.opcode = RV32_AUIPC_OP => decode(w).str = "auipc"
           /\ w.opcode = RV32_JAL_OP => decode(w).str = "jal"
           /\ w.opcode = RV32_JALR_OP => decode(w).str = "jalr"
           /\ w.opcode \notin {RV32_OP_IMM, RV32_OP, RV32_SYSTEM, RV32_BRANCH, RV32_LOAD,
                               RV32_STORE, RV32_LUI_OP, RV32_AUIPC_OP, RV32_JAL_OP, RV32_JALR_OP}
                => decode(w).str \in {"fence", "invalid"}
BY DEF decode

(* op is the text unless the debugger does not implement it.               *)
LEMMA OpOf ==
    ASSUME NEW w
    PROVE  decode(w).op = IF decode(w).str \in Unimplemented THEN "INVALID" ELSE decode(w).str
BY DEF decode

(* illegal and csr_op are the groups of decoder.sv.                        *)
LEMMA GroupOf ==
    ASSUME NEW w
    PROVE  /\ decoder(w).illegal <=> ~(\/ Jump(w) \/ Branch(w) \/ Load(w) \/ Store(w) \/ OpImm(w)
                                     \/ Op(w) \/ Upper(w) \/ Csr(w) \/ Wfi(w))
           /\ (decoder(w).csr_op <=> Csr(w)) /\ (decoder(w).halt <=> Wfi(w))
BY DEF decoder

(* The debugger knows an op exactly for the words the decoder accepts, but *)
(* for CSR words, jalr and wfi (riscv_inst.h:130-520, decoder.sv:61-209).  *)
LEMMA Knowing ==
    ASSUME NEW w \in Word
    PROVE  KnownAgree(w, Reading(w))
<1> DEFINE op == decode(w).op
           illegal == decoder(w).illegal
<1>1. SUFFICES /\ op = "INVALID" => illegal \/ Csr(w)
               /\ illegal /\ op # "INVALID" => \/ op = "jalr" /\ w.f3 # 0
                                               \/ op = "wfi" /\ (w.rs1 # 0 \/ w.rd # 0)
  BY GroupOf DEF KnownAgree, Known, Reading
<1>2. CASE w.opcode = RV32_OP_IMM
  <2>1. op = IF immediate(w) = "invalid" THEN "INVALID" ELSE immediate(w)
    BY <1>2, TextOf, OpOf, ImmediateTexts DEF Unimplemented
  <2>2. immediate(w) = "invalid" <=> ~OpImm(w)
    BY <1>2, ImmediateTexts DEF OpImm
  <2>3. illegal <=> ~OpImm(w)
    BY <1>2, GroupOf DEF Jump, Branch, Load, Store, Op, Upper, Csr, Wfi
  <2>4. immediate(w) # "INVALID"
    BY ImmediateTexts
  <2> QED BY <2>1, <2>2, <2>3, <2>4
<1>3. CASE w.opcode = RV32_OP
  <2>1. op = "INVALID" <=> arithmetic(w) \in {"div", "divu", "rem", "remu", "invalid"}
    BY <1>3, TextOf, OpOf, ArithmeticTexts DEF Unimplemented
  <2>2. arithmetic(w) \in {"div", "divu", "rem", "remu", "invalid"} <=> ~Op(w)
    BY <1>3, ArithmeticTexts DEF Op
  <2>3. illegal <=> ~Op(w)
    BY <1>3, GroupOf DEF Jump, Branch, Load, Store, OpImm, Upper, Csr, Wfi
  <2> QED BY <2>1, <2>2, <2>3
<1>4. CASE w.opcode = RV32_SYSTEM
  <2>1. op = IF system(w) = "wfi" THEN "wfi" ELSE "INVALID"
    BY <1>4, TextOf, OpOf, SystemTexts DEF Unimplemented
  <2>2. system(w) = "wfi" <=> w.f3 = 0 /\ f12(w) = WfiCode
    BY SystemTexts
  <2>3. illegal <=> ~Csr(w) /\ ~Wfi(w)
    BY <1>4, GroupOf DEF Jump, Branch, Load, Store, OpImm, Op, Upper
  <2> QED BY <1>4, <2>1, <2>2, <2>3 DEF Csr, Wfi
<1>5. CASE w.opcode = RV32_BRANCH
  <2>1. op = "INVALID" <=> branch(w) = "invalid"
    BY <1>5, TextOf, OpOf, BranchTexts DEF Unimplemented
  <2>2. branch(w) = "invalid" <=> ~Branch(w)
    BY <1>5, BranchTexts DEF Branch
  <2>3. illegal <=> ~Branch(w)
    BY <1>5, GroupOf DEF Jump, Load, Store, OpImm, Op, Upper, Csr, Wfi
  <2> QED BY <2>1, <2>2, <2>3
<1>6. CASE w.opcode = RV32_LOAD
  <2>1. op = "INVALID" <=> load(w) = "invalid"
    BY <1>6, TextOf, OpOf, LoadTexts DEF Unimplemented
  <2>2. load(w) = "invalid" <=> ~Load(w)
    BY <1>6, LoadTexts DEF Load
  <2>3. illegal <=> ~Load(w)
    BY <1>6, GroupOf DEF Jump, Branch, Store, OpImm, Op, Upper, Csr, Wfi
  <2> QED BY <2>1, <2>2, <2>3
<1>7. CASE w.opcode = RV32_STORE
  <2>1. op = "INVALID" <=> store(w) = "invalid"
    BY <1>7, TextOf, OpOf, StoreTexts DEF Unimplemented
  <2>2. store(w) = "invalid" <=> ~Store(w)
    BY <1>7, StoreTexts DEF Store
  <2>3. illegal <=> ~Store(w)
    BY <1>7, GroupOf DEF Jump, Branch, Load, OpImm, Op, Upper, Csr, Wfi
  <2> QED BY <2>1, <2>2, <2>3
<1>8. CASE w.opcode \in {RV32_LUI_OP, RV32_AUIPC_OP, RV32_JAL_OP, RV32_JALR_OP}
  <2>1. op = decode(w).str /\ op \in {"LUI", "auipc", "jal", "jalr"}
    BY <1>8, TextOf, OpOf DEF Unimplemented
  <2>2. w.opcode # RV32_JALR_OP => Upper(w) \/ Jump(w)
    BY <1>8 DEF Upper, Jump
  <2>3. w.opcode = RV32_JALR_OP /\ w.f3 = 0 => Jump(w)
    BY DEF Jump
  <2>4. illegal => w.opcode = RV32_JALR_OP /\ w.f3 # 0
    BY <2>2, <2>3, GroupOf
  <2> QED BY <2>1, <2>4, TextOf
<1>9. CASE w.opcode \notin {RV32_OP_IMM, RV32_OP, RV32_SYSTEM, RV32_BRANCH, RV32_LOAD, RV32_STORE,
                            RV32_LUI_OP, RV32_AUIPC_OP, RV32_JAL_OP, RV32_JALR_OP}
  <2>1. op = "INVALID"
    BY <1>9, TextOf, OpOf DEF Unimplemented
  <2>2. ~Jump(w) /\ ~Branch(w) /\ ~Load(w) /\ ~Store(w) /\ ~OpImm(w) /\ ~Op(w) /\ ~Upper(w)
        /\ ~Csr(w) /\ ~Wfi(w)
    BY <1>9 DEF Jump, Branch, Load, Store, OpImm, Op, Upper, Csr, Wfi
  <2> QED BY <2>1, <2>2, GroupOf
<1> QED BY <1>2, <1>3, <1>4, <1>5, <1>6, <1>7, <1>8, <1>9

(* A word both know is in one of the groups of decoder.sv.                 *)
LEMMA Legal ==
    ASSUME NEW w, Common(Reading(w))
    PROVE  \/ Jump(w) \/ Branch(w) \/ Load(w) \/ Store(w) \/ OpImm(w)
           \/ Op(w) \/ Upper(w) \/ Csr(w) \/ Wfi(w)
<1>1. ~decoder(w).illegal
  BY DEF Common, Reading
<1> QED BY <1>1, GroupOf

(* Halting, the operands read and the register written follow from the     *)
(* format of the word (decoder.sv:61-209, riscv_inst.h:87-104).            *)
LEMMA Operands ==
    ASSUME NEW w \in Word, Common(Reading(w))
    PROVE  OperandsAgree(w, Reading(w))
<1> DEFINE hw == decoder(w)
<1>1. SUFFICES /\ Wfi(w) <=> decode(w).op = "wfi"
               /\ hw.use_opa_arn <=> Riscv(w) \in {"RType", "IType", "SType"}
               /\ hw.use_opb_arn <=> Riscv(w) \in {"RType", "SType"}
               /\ hw.dest_arn = IF Riscv(w) \in {"SType", "PType"} THEN 0 ELSE w.rd
  <2>1. decode(w).riscv = Riscv(w)
    BY DEF decode
  <2> QED BY <2>1, GroupOf DEF OperandsAgree, Reading
<1>2. Known(Reading(w)) => decode(w).str \notin Unimplemented /\ decode(w).op = decode(w).str
  BY OpOf DEF Known, Reading
<1>3. ~hw.illegal /\ decode(w).str \notin Unimplemented /\ decode(w).op = decode(w).str
  BY <1>2 DEF Common, Reading
<1>4. Wfi(w) <=> w.opcode = RV32_SYSTEM
  <2>1. CASE w.opcode = RV32_SYSTEM
    <3>1. system(w) \notin Unimplemented
      BY <2>1, <1>3, TextOf
    <3>2. ~Csr(w)
      BY <3>1, SystemTexts DEF Csr, Unimplemented
    <3> QED BY <2>1, <3>2, Legal DEF Jump, Branch, Load, Store, OpImm, Op, Upper
  <2>2. CASE w.opcode # RV32_SYSTEM
    BY <2>2 DEF Wfi
  <2> QED BY <2>1, <2>2
<1>5. Wfi(w) <=> decode(w).op = "wfi"
  <2>1. CASE w.opcode = RV32_SYSTEM
    BY <2>1, <1>3, <1>4, TextOf, SystemTexts DEF Wfi
  <2>2. CASE w.opcode # RV32_SYSTEM
    <3>1. /\ immediate(w) # "wfi" /\ arithmetic(w) # "wfi" /\ branch(w) # "wfi"
          /\ load(w) # "wfi" /\ store(w) # "wfi"
      BY ImmediateTexts, ArithmeticTexts, BranchTexts, LoadTexts, StoreTexts
    <3> QED BY <2>2, <3>1, <1>3, <1>4, TextOf
  <2> QED BY <2>1, <2>2
<1>6. /\ hw.use_opa_arn <=> ((opa_select(w) = "OPA_IS_RS1" /\ ~Wfi(w)) \/ Branch(w))
      /\ hw.use_opb_arn <=> ((opb_select(w) = "OPB_IS_RS2" /\ ~Wfi(w)) \/ Branch(w) \/ Store(w))
      /\ hw.dest_arn = IF Jump(w) \/ Load(w) \/ OpImm(w) \/ Op(w) \/ Upper(w) THEN w.rd ELSE 0
  BY <1>3 DEF decoder
<1> DEFINE Goal == /\ hw.use_opa_arn <=> Riscv(w) \in {"RType", "IType", "SType"}
                   /\ hw.use_opb_arn <=> Riscv(w) \in {"RType", "SType"}
                   /\ hw.dest_arn = IF Riscv(w) \in {"SType", "PType"} THEN 0 ELSE w.rd
<1> SUFFICES Goal
  BY <1>5
<1> HIDE DEF hw
<1> USE DEF Jump, Branch, Load, Store, OpImm, Op, Upper
<1>7. CASE w.opcode = RV32_SYSTEM
  BY <1>7, <1>4, <1>6 DEF Riscv
<1>8. CASE w.opcode \in {RV32_LUI_OP, RV32_AUIPC_OP, RV32_JAL_OP}
  <2>1. opa_select(w) # "OPA_IS_RS1" /\ opb_select(w) # "OPB_IS_RS2"
    BY <1>8 DEF opa_select, opb_select
  <2> QED BY <1>8, <2>1, <1>6 DEF Riscv
<1>9. CASE w.opcode \in {RV32_JALR_OP, RV32_LOAD, RV32_OP_IMM}
  <2>1. Jump(w) \/ Load(w) \/ OpImm(w)
    BY <1>9, Legal DEF Csr, Wfi
  <2>2. opa_select(w) = "OPA_IS_RS1" /\ opb_select(w) # "OPB_IS_RS2"
    BY <1>9, <2>1 DEF opa_select, opb_select
  <2> QED BY <1>9, <2>1, <2>2, <1>4, <1>6 DEF Riscv
<1>10. CASE w.opcode \in {RV32_BRANCH, RV32_STORE}
  <2>1. Branch(w) \/ Store(w)
    BY <1>10, Legal DEF Csr, Wfi
  <2>2. w.opcode = RV32_STORE => opa_select(w) = "OPA_IS_RS1"
    BY DEF opa_select
  <2> QED BY <1>10, <2>1, <2>2, <1>4, <1>6 DEF Riscv
<1>11. CASE w.opcode = RV32_OP
  <2>1. Op(w)
    BY <1>11, Legal DEF Csr, Wfi
  <2>2. opa_select(w) = "OPA_IS_RS1" /\ opb_select(w) = "OPB_IS_RS2"
    BY <1>11 DEF opa_select, opb_select
  <2> QED BY <1>11, <2>1, <2>2, <1>4, <1>6 DEF Riscv
<1>12. w.opcode \in {RV32_SYSTEM, RV32_LUI_OP, RV32_AUIPC_OP, RV32_JAL_OP, RV32_JALR_OP, RV32_LOAD,
                     RV32_OP_IMM, RV32_BRANCH, RV32_STORE, RV32_OP}
  BY Legal DEF Csr, Wfi
<1> QED BY <1>7, <1>8, <1>9, <1>10, <1>11, <1>12

-----------------------------------------------------------------------------
(* The rows of select.                                                     *)

(* Each text of an OP-IMM word is selected by its own function codes.      *)
LEMMA ImmRows ==
    ASSUME NEW w \in Word, immediate(w) # "invalid"
    PROVE  \E f7 \in {NoCode, w.f7} :
              select(immediate(w)) = Row(RV32_OP_IMM, "IType", "Iimm", w.f3, f7)
<1>1. /\ select("addi") = Row(RV32_OP_IMM, "IType", "Iimm", 0, NoCode)
      /\ select("slti") = Row(RV32_OP_IMM, "IType", "Iimm", 2, NoCode)
      /\ select("sltiu") = Row(RV32_OP_IMM, "IType", "Iimm", 3, NoCode)
      /\ select("xori") = Row(RV32_OP_IMM, "IType", "Iimm", 4, NoCode)
      /\ select("ori") = Row(RV32_OP_IMM, "IType", "Iimm", 6, NoCode)
      /\ select("andi") = Row(RV32_OP_IMM, "IType", "Iimm", 7, NoCode)
      /\ select("slli") = Row(RV32_OP_IMM, "IType", "Iimm", 1, 0)
      /\ select("srli") = Row(RV32_OP_IMM, "IType", "Iimm", 5, 0)
      /\ select("srai") = Row(RV32_OP_IMM, "IType", "Iimm", 5, 32)
  BY DEF select, Row
<1> QED BY <1>1, ImmediateTexts

(* Each implemented text of an OP word is selected by its function codes.  *)
LEMMA OpRows ==
    ASSUME NEW w \in Word, arithmetic(w) \notin Unimplemented
    PROVE  select(arithmetic(w)) = Row(RV32_OP, "RType", "Rimm", w.f3, w.f7)
<1>1. /\ select("add") = Row(RV32_OP, "RType", "Rimm", 0, 0)
      /\ select("sll") = Row(RV32_OP, "RType", "Rimm", 1, 0)
      /\ select("slt") = Row(RV32_OP, "RType", "Rimm", 2, 0)
      /\ select("sltu") = Row(RV32_OP, "RType", "Rimm", 3, 0)
      /\ select("xor") = Row(RV32_OP, "RType", "Rimm", 4, 0)
      /\ select("srl") = Row(RV32_OP, "RType", "Rimm", 5, 0)
      /\ select("or") = Row(RV32_OP, "RType", "Rimm", 6, 0)
      /\ select("and") = Row(RV32_OP, "RType", "Rimm", 7, 0)
      /\ select("sub") = Row(RV32_OP, "RType", "Rimm", 0, 32)
      /\ select("sra") = Row(RV32_OP, "RType", "Rimm", 5, 32)
      /\ select("mul") = Row(RV32_OP, "RType", "Rimm", 0, 1)
      /\ select("mulh") = Row(RV32_OP, "RType", "Rimm", 1, 1)
      /\ select("mulhsu") = Row(RV32_OP, "RType", "Rimm", 2, 1)
      /\ select("mulhu") = Row(RV32_OP, "RType", "Rimm", 3, 1)
  BY DEF select, Row
<1> QED BY <1>1, ArithmeticTexts DEF Unimplemented

(* Each text of a branch is selected by its funct3.                        *)
LEMMA BranchRows ==
    ASSUME NEW w \in Word, branch(w) # "invalid"
    PROVE  select(branch(w)) = Row(RV32_BRANCH, "SType", "Bimm", w.f3, NoCode)
<1>1. /\ select("beq") = Row(RV32_BRANCH, "SType", "Bimm", 0, NoCode)
      /\ select("bne") = Row(RV32_BRANCH, "SType", "Bimm", 1, NoCode)
      /\ select("blt") = Row(RV32_BRANCH, "SType", "Bimm", 4, NoCode)
      /\ select("bge") = Row(RV32_BRANCH, "SType", "Bimm", 5, NoCode)
      /\ select("bltu") = Row(RV32_BRANCH, "SType", "Bimm", 6, NoCode)
      /\ select("bgeu") = Row(RV32_BRANCH, "SType", "Bimm", 7, NoCode)
  BY DEF select, Row
<1> QED BY <1>1, BranchTexts

(* Each text of a load is selected by its funct3.                          *)
LEMMA LoadRows ==
    ASSUME NEW w \in Word, load(w) # "invalid"
    PROVE  select(load(w)) = Row(RV32_LOAD, "IType", "Iimm", w.f3, NoCode)
<1>1. /\ select("lb") = Row(RV32_LOAD, "IType", "Iimm", 0, NoCode)
      /\ select("lh") = Row(RV32_LOAD, "IType", "Iimm", 1, NoCode)
      /\ select("lw") = Row(RV32_LOAD, "IType", "Iimm", 2, NoCode)
      /\ select("lbu") = Row(RV32_LOAD, "IType", "Iimm", 4, NoCode)
      /\ select("lhu") = Row(RV32_LOAD, "IType", "Iimm", 5, NoCode)
  BY DEF select, Row
<1> QED BY <1>1, LoadTexts

(* Each text of a store is selected by its funct3.                         *)
LEMMA StoreRows ==
    ASSUME NEW w \in Word, store(w) # "invalid"
    PROVE  select(store(w)) = Row(RV32_STORE, "SType", "Simm", w.f3, NoCode)
<1>1. /\ select("sb") = Row(RV32_STORE, "SType", "Simm", 0, NoCode)
      /\ select("sh") = Row(RV32_STORE, "SType", "Simm", 1, NoCode)
      /\ select("sw") = Row(RV32_STORE, "SType", "Simm", 2, NoCode)
  BY DEF select, Row
<1> QED BY <1>1, StoreTexts

(* The rows of the opcodes that have one text.                             *)
LEMMA OtherRows ==
    /\ select("LUI") = Row(RV32_LUI_OP, "UType", "Uimm", NoCode, NoCode)
    /\ select("auipc") = Row(RV32_AUIPC_OP, "UType", "Uimm", NoCode, NoCode)
    /\ select("jal") = Row(RV32_JAL_OP, "UType", "Uimm", NoCode, NoCode)
    /\ select("jalr") = Row(RV32_JALR_OP, "IType", "Iimm", 0, NoCode)
    /\ select("wfi") = Row(RV32_SYSTEM, "PType", "Rimm", 0, NoCode)
BY DEF select, Row

(* The only implemented SYSTEM word is wfi.                                *)
LEMMA SystemText ==
    ASSUME NEW w \in Word, system(w) \notin Unimplemented
    PROVE  system(w) = "wfi" /\ w.f3 = 0 
BY SystemTexts DEF Unimplemented

(* select names the codes of the op decode finds (riscv_inst.h:606-889).   *)
LEMMA Selected ==
    ASSUME NEW w \in Word, Common(Reading(w))
    PROVE  SelectNames(w, Reading(w).debugger)
<1> DEFINE i == Reading(w).debugger
<1>i. i = decode(w)
  BY DEF Reading
<1>1. SUFFICES \E imm \in {i.imm, "Uimm"}, f3 \in {NoCode, w.f3}, f7 \in {NoCode, w.f7} :
                  /\ select(i.op) = Row(w.opcode, i.riscv, imm, f3, f7)
                  /\ imm = i.imm \/ i.op = "jal"
  BY DEF SelectNames, Row
<1>k. i.op # "INVALID"
  BY DEF Common, Known
<1>2. CASE w.opcode = RV32_OP_IMM
  <2>1. i.op = immediate(w) /\ i.riscv = "IType" /\ i.imm = "Iimm" /\ immediate(w) # "invalid"
    BY <1>2, <1>i, <1>k DEF decode, Riscv, Imm, Unimplemented
  <2> QED BY <2>1, <1>2, ImmRows
<1>3. CASE w.opcode = RV32_OP
  <2>1. /\ i.op = arithmetic(w) /\ i.riscv = "RType" /\ i.imm = "Rimm"
        /\ arithmetic(w) \notin Unimplemented
    BY <1>3, <1>i, <1>k DEF decode, Riscv, Imm
  <2> QED BY <2>1, <1>3, OpRows
<1>4. CASE w.opcode = RV32_BRANCH
  <2>1. i.op = branch(w) /\ i.riscv = "SType" /\ i.imm = "Bimm" /\ branch(w) # "invalid"
    BY <1>4, <1>i, <1>k DEF decode, Riscv, Imm, Unimplemented
  <2> QED BY <2>1, <1>4, BranchRows
<1>5. CASE w.opcode = RV32_LOAD
  <2>1. i.op = load(w) /\ i.riscv = "IType" /\ i.imm = "Iimm" /\ load(w) # "invalid"
    BY <1>5, <1>i, <1>k DEF decode, Riscv, Imm, Unimplemented
  <2> QED BY <2>1, <1>5, LoadRows
<1>6. CASE w.opcode = RV32_STORE
  <2>1. i.op = store(w) /\ i.riscv = "SType" /\ i.imm = "Simm" /\ store(w) # "invalid"
    BY <1>6, <1>i, <1>k DEF decode, Riscv, Imm, Unimplemented
  <2> QED BY <2>1, <1>6, StoreRows
<1>7. CASE w.opcode = RV32_SYSTEM
  <2>1. i.op = system(w) /\ i.riscv = "PType" /\ i.imm = "Rimm" /\ system(w) \notin Unimplemented
    BY <1>7, <1>i, <1>k DEF decode, Riscv, Imm
  <2> QED BY <2>1, <1>7, SystemText, OtherRows
<1>8. CASE w.opcode \in {RV32_LUI_OP, RV32_AUIPC_OP, RV32_JAL_OP}
  <2>1. /\ i.riscv = "UType"
        /\ \/ i.op = "LUI" /\ w.opcode = RV32_LUI_OP /\ i.imm = "Uimm"
           \/ i.op = "auipc" /\ w.opcode = RV32_AUIPC_OP /\ i.imm = "Uimm"
           \/ i.op = "jal" /\ w.opcode = RV32_JAL_OP
    BY <1>8, <1>i, <1>k DEF decode, Riscv, Imm, Unimplemented
  <2> QED BY <2>1, <1>8, OtherRows
<1>9. CASE w.opcode = RV32_JALR_OP
  <2>1. i.riscv = "IType" /\ i.op = "jalr" /\ i.imm = "Iimm"
    BY <1>9, <1>i, <1>k DEF decode, Riscv, Imm, Unimplemented
  <2>2. w.f3 = 0
    BY <1>9, Legal DEF Jump, Branch, Load, Store, OpImm, Op, Upper, Csr, Wfi
  <2> QED BY <2>1, <2>2, <1>9, OtherRows
<1>10. CASE w.opcode \notin {RV32_OP_IMM, RV32_OP, RV32_BRANCH, RV32_LOAD, RV32_STORE, RV32_SYSTEM,
                             RV32_LUI_OP, RV32_AUIPC_OP, RV32_JAL_OP, RV32_JALR_OP}
  <2>1. decode(w).str \in {"fence", "invalid"}
    BY <1>10 DEF decode
  <2>2. decode(w).op = IF decode(w).str \in Unimplemented THEN "INVALID" ELSE decode(w).str
    BY DEF decode
  <2> QED BY <2>1, <2>2, <1>i, <1>k DEF Unimplemented
<1> QED BY <1>2, <1>3, <1>4, <1>5, <1>6, <1>7, <1>8, <1>9, <1>10

-----------------------------------------------------------------------------
(* The immediates as sums of fields, each with its sign bit counted        *)
(* negative.                                                               *)

IOffset(w) == w.rs2 + 32 * (w.f7 % 64) - 2048 * Bit31(w)
SOffset(w) == w.rd + 32 * (w.f7 % 64) - 2048 * Bit31(w)
BOffset(w) == 2 * (w.rd \div 2 + 16 * (w.f7 % 64) + 1024 * (w.rd % 2)) - 4096 * Bit31(w)
UOffset(w) == w.f3 + 8 * w.rs1 + 256 * w.rs2 + 8192 * w.f7
JOffset(w) == 2 * (w.rs2 \div 2 + 16 * (w.f7 % 64) + 1024 * (w.rs2 % 2)
                   + 2048 * (8 * w.rs1 + w.f3)) - 1048576 * Bit31(w)

(* funct7 is inst[31] and six bits below it.                               *)
LEMMA Halves ==
    ASSUME NEW f7 \in 0..127
    PROVE  /\ f7 = 64 * (f7 \div 64) + (f7 % 64)
           /\ f7 \div 64 \in {0, 1} /\ f7 % 64 \in 0..63
BY SMT

(* A register field is four bits and a lowest one.                         *)
LEMMA Pairs ==
    ASSUME NEW x \in 0..31
    PROVE  /\ x = 2 * (x \div 2) + (x % 2)
           /\ x \div 2 \in 0..15 /\ x % 2 \in {0, 1}
BY SMT

(* The ranges of the fields of a word.                                     *)
LEMMA FieldsOf ==
    ASSUME NEW w \in Word
    PROVE  /\ w.f7 \in 0..127 /\ w.rs2 \in 0..31 /\ w.rs1 \in 0..31 /\ w.f3 \in 0..7
           /\ w.rd \in 0..31 /\ w.opcode \in 0..127
           /\ Bit31(w) \in {0, 1} /\ w.f7 % 64 \in 0..63
<1>1. /\ w.f7 \in 0..127 /\ w.rs2 \in 0..31 /\ w.rs1 \in 0..31 /\ w.f3 \in 0..7
      /\ w.rd \in 0..31 /\ w.opcode \in 0..127
  BY DEF Word
<1> QED BY <1>1, Halves, SMT DEF Bit31

(* funct7 put together again from inst[31] and the bits below it.          *)
LEMMA Funct7 ==
    ASSUME NEW w \in Word
    PROVE  (w.f7 % 64) + 64 * Bit31(w) = w.f7
BY FieldsOf, Halves, SMT DEF Bit31

(* The two cuts of a 12-bit offset, whose low five bits are x.             *)
LEMMA ICut ==
    ASSUME NEW x \in 0..31, NEW r \in 0..63, NEW b \in {0, 1}
    PROVE  LET v == x + 32 * r - 2048 * b
           IN v % 32 = x /\ (v \div 32) % 128 = 64 * b + r /\ (v \div 32) % 64 = r
BY SMT

(* The cuts of a branch offset give the fields back.                       *)
LEMMA BCut ==
    ASSUME NEW w \in Word
    PROVE  /\ (BOffset(w) \div 2048) % 2 = w.rd % 2 /\ (BOffset(w) \div 2) % 16 = w.rd \div 2
           /\ (BOffset(w) \div 32) % 64 = w.f7 % 64 /\ (BOffset(w) \div 4096) % 2 = Bit31(w)
<1> DEFINE h == w.rd \div 2
           l == w.rd % 2
           r == w.f7 % 64
           b == Bit31(w)
           v == BOffset(w)
<1>1. h \in 0..15 /\ l \in {0, 1} /\ r \in 0..63 /\ b \in {0, 1}
  BY FieldsOf, Pairs
<1>2. v = 2 * (h + 16 * r + 1024 * l) - 4096 * b
  BY DEF BOffset
<1> HIDE DEF h, l, r, b, v
<1>3. (v \div 2048) % 2 = l /\ (v \div 2) % 16 = h /\ (v \div 32) % 64 = r /\ (v \div 4096) % 2 = b
  BY <1>1, <1>2, SMT
<1> QED BY <1>3 DEF h, l, r, b, v

(* The cuts of an upper immediate give the fields back.                    *)
LEMMA UCut ==
    ASSUME NEW w \in Word
    PROVE  /\ UOffset(w) % 8 = w.f3 /\ (UOffset(w) \div 8) % 32 = w.rs1
           /\ (UOffset(w) \div 256) % 32 = w.rs2 /\ (UOffset(w) \div 8192) % 128 = w.f7
<1> DEFINE f3  == w.f3
           rs1 == w.rs1
           rs2 == w.rs2
           f7  == w.f7
           v   == UOffset(w)
<1>1. f3 \in 0..7 /\ rs1 \in 0..31 /\ rs2 \in 0..31 /\ f7 \in 0..127
  BY FieldsOf
<1>2. v = f3 + 8 * rs1 + 256 * rs2 + 8192 * f7
  BY SMT DEF UOffset
<1> HIDE DEF f3, rs1, rs2, f7, v
<1>3. v = 8 * (32 * (32 * f7 + rs2) + rs1) + f3
  BY <1>1, <1>2, SMT
<1>4. v \div 8 = 32 * (32 * f7 + rs2) + rs1 /\ v % 8 = f3
  BY <1>1, <1>3, SMT
<1>5. v \div 256 = 32 * f7 + rs2
  BY <1>1, <1>3, SMT
<1>6. v \div 8192 = f7
  BY <1>1, <1>3, SMT
<1>7. /\ v % 8 = f3 /\ (v \div 8) % 32 = rs1
      /\ (v \div 256) % 32 = rs2 /\ (v \div 8192) % 128 = f7
  BY <1>1, <1>4, <1>5, <1>6, SMT
<1> QED BY <1>7 DEF f3, rs1, rs2, f7, v

(* The cuts of a jump offset give the fields back.                         *)
LEMMA JCut ==
    ASSUME NEW w \in Word
    PROVE  /\ (JOffset(w) \div 2) % 16 = w.rs2 \div 2 /\ (JOffset(w) \div 32) % 64 = w.f7 % 64
           /\ (JOffset(w) \div 2048) % 2 = w.rs2 % 2 /\ (JOffset(w) \div 4096) % 8 = w.f3
           /\ (JOffset(w) \div 32768) % 32 = w.rs1 /\ (JOffset(w) \div 1048576) % 2 = Bit31(w)
<1> DEFINE h   == w.rs2 \div 2
           l   == w.rs2 % 2
           r   == w.f7 % 64
           b   == Bit31(w)
           rs1 == w.rs1
           f3  == w.f3
           v   == JOffset(w)
           top == rs1 - 32 * b
           q   == 8 * top + f3
<1>1. /\ h \in 0..15 /\ l \in {0, 1} /\ r \in 0..63 /\ b \in {0, 1}
      /\ rs1 \in 0..31 /\ f3 \in 0..7
  BY FieldsOf, Pairs, SMT
<1>2. v = 2 * (h + 16 * r + 1024 * l + 2048 * (8 * rs1 + f3)) - 1048576 * b
  BY SMT DEF JOffset
<1> HIDE DEF h, l, r, b, rs1, f3, v
<1>3. top \in Int /\ q \in Int
  BY <1>1, SMT
<1>4. v = 4096 * q + 2048 * l + 32 * r + 2 * h
  BY <1>1, <1>2, SMT
<1> HIDE DEF top, q
<1>5. (v \div 2) % 16 = h /\ (v \div 32) % 64 = r /\ (v \div 2048) % 2 = l
  <2>1. v \div 2 = 16 * (r + 64 * l + 128 * q) + h
    BY <1>1, <1>3, <1>4, SMT
  <2>2. v \div 32 = 64 * (l + 2 * q) + r
    BY <1>1, <1>3, <1>4, SMT
  <2>3. v \div 2048 = 2 * q + l
    BY <1>1, <1>3, <1>4, SMT
  <2> QED BY <1>1, <1>3, <2>1, <2>2, <2>3, SMT
<1>6. (v \div 4096) % 8 = f3
  <2>1. v \div 4096 = q
    BY <1>1, <1>3, <1>4, SMT
  <2> QED BY <1>1, <1>3, <2>1, SMT DEF q
<1>7. (v \div 32768) % 32 = rs1
  <2>1. v \div 32768 = top
    BY <1>1, <1>3, <1>4, SMT DEF q
  <2>2. top % 32 = rs1
    BY <1>1, SMT DEF top
  <2> QED BY <2>1, <2>2
<1>8. (v \div 1048576) % 2 = b
  <2>1. v \div 1048576 = -b
    BY <1>1, <1>3, <1>4, SMT DEF q, top
  <2>2. (-b) % 2 = b
    BY <1>1, SMT
  <2> QED BY <2>1, <2>2
<1> QED BY <1>5, <1>6, <1>7, <1>8, SMT DEF h, l, r, b, rs1, f3, v

-----------------------------------------------------------------------------
(* The immediates.                                                         *)

(* Only OP-IMM words are shifts, and their function code is 0 or 32.       *)
LEMMA ShiftOps ==
    ASSUME NEW w \in Word
    PROVE  decode(w).op \in {"slli", "srli", "srai"} =>
              w.opcode = RV32_OP_IMM /\ w.f3 \in {1, 5} /\ w.f7 \in {0, 32}
<1>1. CASE w.opcode = RV32_OP_IMM
  BY <1>1, TextOf, OpOf, ImmediateTexts
<1>2. CASE w.opcode = RV32_OP
  BY <1>2, TextOf, OpOf, ArithmeticTexts
<1>3. CASE w.opcode = RV32_SYSTEM
  BY <1>3, TextOf, OpOf, SystemTexts
<1>4. CASE w.opcode \in {RV32_BRANCH, RV32_LOAD, RV32_STORE}
  BY <1>4, TextOf, OpOf, BranchTexts, LoadTexts, StoreTexts
<1>5. CASE w.opcode \notin {RV32_OP_IMM, RV32_OP, RV32_SYSTEM, RV32_BRANCH, RV32_LOAD, RV32_STORE}
  BY <1>5, TextOf, OpOf
<1> QED BY <1>1, <1>2, <1>3, <1>4, <1>5

(* An OP-IMM word both know is a shift exactly by its funct3.              *)
LEMMA ShiftOf ==
    ASSUME NEW w \in Word, Common(Reading(w)), w.opcode = RV32_OP_IMM
    PROVE  decode(w).op \in {"slli", "srli", "srai"} <=> w.f3 \in {1, 5}
<1>1. decode(w).op = immediate(w) /\ immediate(w) # "invalid"
  BY TextOf, OpOf, ImmediateTexts DEF Common, Known, Reading, Unimplemented
<1> QED BY <1>1, ImmediateTexts

(* What analyze and fu_top make of the word, by the format of its op       *)
(* (riscv_inst.h:522-586, fu_top.sv:33-47).                                *)
LEMMA OffsetOf ==
    ASSUME NEW w \in Word, Common(Reading(w))
    PROVE  LET i == decode(w)
               shift == i.op \in {"slli", "srli", "srai"}
           IN \/ /\ shift /\ i.imm = "Iimm" /\ i.riscv = "IType"
                 /\ i.imm_value = w.rs2 /\ op2_mux_out(w) = w.rs2 + 32 * w.f7
              \/ /\ ~shift /\ i.imm = "Iimm" /\ i.riscv = "IType"
                 /\ i.imm_value = IOffset(w) /\ op2_mux_out(w) = IOffset(w)
              \/ /\ ~shift /\ i.imm = "Simm" /\ i.riscv = "SType"
                 /\ i.imm_value = SOffset(w) /\ op2_mux_out(w) = SOffset(w)
              \/ /\ ~shift /\ i.imm = "Bimm" /\ i.riscv = "SType"
                 /\ i.imm_value = BOffset(w) /\ op2_mux_out(w) = BOffset(w)
              \/ /\ ~shift /\ i.imm = "Uimm" /\ i.riscv = "UType"
                 /\ i.imm_value = UOffset(w)
                 /\ op2_mux_out(w) = 4096 * Sext(w, UOffset(w), 1048576)
              \/ /\ ~shift /\ i.imm = "Jimm" /\ i.riscv = "UType"
                 /\ i.imm_value = JOffset(w) /\ op2_mux_out(w) = JOffset(w)
              \/ /\ ~shift /\ i.imm = "Rimm" /\ i.riscv \in {"RType", "PType"}
                 /\ i.imm_value = 0 /\ op2_mux_out(w) = 0
<1> DEFINE i == decode(w)
<1>i. i.imm = Imm(w) /\ i.riscv = Riscv(w) /\ i.imm_value = analyze(w, Imm(w))
  BY DEF decode
<1>f. /\ w.f7 \in 0..127 /\ w.rs2 \in 0..31 /\ w.rs1 \in 0..31 /\ w.f3 \in 0..7
      /\ w.rd \in 0..31 /\ Bit31(w) \in {0, 1} /\ w.f7 % 64 \in 0..63
  BY FieldsOf
<1>p. /\ w.rd \div 2 \in Int /\ w.rd % 2 \in Int /\ w.rs2 \div 2 \in Int /\ w.rs2 % 2 \in Int
  BY <1>f, Pairs, SMT
<1> HIDE DEF i
<1> USE DEF Upper, Jump, Load, OpImm, Branch, Store, Op, Csr, Wfi
<1>2. CASE w.opcode = RV32_OP_IMM /\ w.f3 \in {1, 5}
  <2>1. i.imm = "Iimm" /\ i.riscv = "IType" /\ i.op \in {"slli", "srli", "srai"}
    BY <1>2, <1>i, ShiftOf DEF i, Imm, Riscv
  <2>2. w.f7 \in {0, 32}
    BY <2>1, ShiftOps DEF i
  <2>3. i.imm_value = w.rs2
    BY <1>i, <2>1, <1>2, SMT DEF analyze
  <2>4. opb_select(w) = "OPB_IS_I_IMM"
    BY <1>2, Legal, SMT DEF opb_select
  <2>5. op2_mux_out(w) = (32 * (w.f7 % 64) + w.rs2) - 2048 * Bit31(w)
    BY <2>4, SMT DEF op2_mux_out, Sext
  <2>6. op2_mux_out(w) = w.rs2 + 32 * w.f7
    BY <2>5, <2>2, <1>f, SMT DEF Bit31
  <2> QED BY <2>1, <2>3, <2>6, SMT DEF i
<1>3. CASE \/ w.opcode \in {RV32_LOAD, RV32_JALR_OP}
           \/ w.opcode = RV32_OP_IMM /\ w.f3 \notin {1, 5}
  <2>1. i.imm = "Iimm" /\ i.riscv = "IType" /\ i.op \notin {"slli", "srli", "srai"}
    BY <1>3, <1>i, ShiftOps, ShiftOf DEF i, Imm, Riscv
  <2>2. i.imm_value = IOffset(w)
    BY <1>i, <2>1, <1>3, SMT DEF analyze, IOffset
  <2>3. opb_select(w) = "OPB_IS_I_IMM"
    BY <1>3, Legal, SMT DEF opb_select
  <2>4. op2_mux_out(w) = (32 * (w.f7 % 64) + w.rs2) - 2048 * Bit31(w)
    BY <2>3, SMT DEF op2_mux_out, Sext
  <2>5. op2_mux_out(w) = IOffset(w)
    BY <2>4, <1>f, SMT DEF IOffset
  <2> QED BY <2>1, <2>2, <2>5, SMT DEF i
<1>4. CASE w.opcode = RV32_STORE
  <2>1. i.imm = "Simm" /\ i.riscv = "SType" /\ i.op \notin {"slli", "srli", "srai"}
    BY <1>4, <1>i, ShiftOps DEF i, Imm, Riscv
  <2>2. i.imm_value = SOffset(w)
    BY <1>i, <2>1, SMT DEF analyze, SOffset
  <2>3. opb_select(w) = "OPB_IS_S_IMM"
    BY <1>4, Legal, SMT DEF opb_select
  <2>4. op2_mux_out(w) = (32 * (w.f7 % 64) + w.rd) - 2048 * Bit31(w)
    BY <2>3, SMT DEF op2_mux_out, Sext
  <2>5. op2_mux_out(w) = SOffset(w)
    BY <2>4, <1>f, SMT DEF SOffset
  <2> QED BY <2>1, <2>2, <2>5, SMT DEF i
<1>5. CASE w.opcode = RV32_BRANCH
  <2>1. i.imm = "Bimm" /\ i.riscv = "SType" /\ i.op \notin {"slli", "srli", "srai"}
    BY <1>5, <1>i, ShiftOps DEF i, Imm, Riscv
  <2>2. i.imm_value = BOffset(w)
    BY <1>i, <2>1, SMT DEF analyze, BOffset
  <2>3. opb_select(w) = "OPB_IS_B_IMM"
    BY <1>5, Legal, SMT DEF opb_select
  <2>4. op2_mux_out(w) = (2048 * (w.rd % 2) + 32 * (w.f7 % 64) + 2 * (w.rd \div 2))
                         - 4096 * Bit31(w)
    BY <2>3, SMT DEF op2_mux_out, Sext
  <2>5. op2_mux_out(w) = BOffset(w)
    <3>1. w.f7 % 64 \in Int /\ Bit31(w) \in Int
      BY <1>f, SMT
    <3> QED BY <2>4, <1>p, <3>1, SMT DEF BOffset
  <2> QED BY <2>1, <2>2, <2>5, SMT DEF i
<1>6. CASE w.opcode \in {RV32_LUI_OP, RV32_AUIPC_OP}
  <2>1. i.imm = "Uimm" /\ i.riscv = "UType" /\ i.op \notin {"slli", "srli", "srai"}
    BY <1>6, <1>i, ShiftOps DEF i, Imm, Riscv
  <2>2. i.imm_value = UOffset(w)
    BY <1>i, <2>1, SMT DEF analyze, UOffset
  <2>3. opb_select(w) = "OPB_IS_U_IMM"
    BY <1>6, SMT DEF opb_select
  <2>4. op2_mux_out(w) = 4096 * Sext(w, 8192 * w.f7 + 256 * w.rs2 + 8 * w.rs1 + w.f3, 1048576)
    BY <2>3, SMT DEF op2_mux_out
  <2>5. 8192 * w.f7 + 256 * w.rs2 + 8 * w.rs1 + w.f3 = UOffset(w)
    <3>1. w.f3 \in Int /\ w.rs1 \in Int /\ w.rs2 \in Int /\ w.f7 \in Int
      BY <1>f, SMT
    <3> QED BY <3>1, SMT DEF UOffset
  <2> QED BY <2>1, <2>2, <2>4, <2>5, SMT DEF i
<1>7. CASE w.opcode = RV32_JAL_OP
  <2>1. i.imm = "Jimm" /\ i.riscv = "UType" /\ i.op \notin {"slli", "srli", "srai"}
    BY <1>7, <1>i, ShiftOps DEF i, Imm, Riscv
  <2>2. i.imm_value = JOffset(w)
    BY <1>i, <2>1, SMT DEF analyze, JOffset
  <2>3. opb_select(w) = "OPB_IS_J_IMM"
    BY <1>7, SMT DEF opb_select
  <2>4. op2_mux_out(w) = (32768 * w.rs1 + 4096 * w.f3 + 2048 * (w.rs2 % 2)
                          + 32 * (w.f7 % 64) + 2 * (w.rs2 \div 2)) - 1048576 * Bit31(w)
    BY <2>3, SMT DEF op2_mux_out, Sext
  <2>5. op2_mux_out(w) = JOffset(w)
    <3>1. w.f3 \in Int /\ w.rs1 \in Int /\ w.f7 % 64 \in Int /\ Bit31(w) \in Int
      BY <1>f, SMT
    <3> QED BY <2>4, <1>p, <3>1, SMT DEF JOffset
  <2> QED BY <2>1, <2>2, <2>5, SMT DEF i
<1>8. CASE w.opcode \in {RV32_OP, RV32_SYSTEM}
  <2>1. i.imm = "Rimm" /\ i.riscv \in {"RType", "PType"} /\ i.op \notin {"slli", "srli", "srai"}
    BY <1>8, <1>i, ShiftOps DEF i, Imm, Riscv
  <2>2. i.imm_value = 0
    BY <1>i, <2>1, SMT DEF analyze
  <2>3. opb_select(w) = "OPB_IS_RS2"
    BY <1>8, SMT DEF opb_select
  <2>4. op2_mux_out(w) = 0
    BY <2>3, SMT DEF op2_mux_out
  <2> QED BY <2>1, <2>2, <2>4, SMT DEF i
<1>9. w.opcode \in {RV32_OP_IMM, RV32_LOAD, RV32_JALR_OP, RV32_STORE, RV32_BRANCH, RV32_LUI_OP,
                    RV32_AUIPC_OP, RV32_JAL_OP, RV32_OP, RV32_SYSTEM}
  BY Legal
<1> QED BY <1>2, <1>3, <1>4, <1>5, <1>6, <1>7, <1>8, <1>9

(* The debugger and the functional unit take the same immediate out of a   *)
(* word (riscv_inst.h:522-586, fu_top.sv:33-47).                           *)
LEMMA Immediates ==
    ASSUME NEW w \in Word, Common(Reading(w))
    PROVE  ImmediatesAgree(w, Reading(w).debugger)
<1>1. Reading(w).debugger = decode(w)
  BY DEF Reading
<1> QED BY <1>1, OffsetOf, SMT DEF ImmediatesAgree

-----------------------------------------------------------------------------
(* The encoder.                                                            *)

(* Putting back what is there changes nothing.                             *)
LEMMA PutBack ==
    ASSUME NEW w \in Word
    PROVE  /\ [w EXCEPT !.rs2 = w.rs2] = w
           /\ [w EXCEPT !.rs2 = w.rs2, !.f7 = w.f7] = w
           /\ [w EXCEPT !.rd = w.rd, !.f7 = w.f7] = w
           /\ [w EXCEPT !.rd = w.rd, !.f7 = w.f7 % 64] = [w EXCEPT !.f7 = @ % 64]
           /\ [w EXCEPT !.f3 = w.f3, !.rs1 = w.rs1, !.rs2 = w.rs2, !.f7 = w.f7] = w
BY DEF Word

(* encode puts a word together again (riscv_inst.h:891-958).               *)
LEMMA Encoded ==
    ASSUME NEW w \in Word, Common(Reading(w))
    PROVE  EncodeRestores(w, Reading(w).debugger)
<1> DEFINE i == decode(w)
           v == i.imm_value
<1>1. Reading(w).debugger = i /\ i.word = w
  BY DEF Reading, decode
<1>2. SUFFICES encode(i) = IF i.imm = "Simm" THEN [w EXCEPT !.f7 = @ % 64] ELSE w
  BY <1>1 DEF EncodeRestores
<1> HIDE DEF i
<1>3. CASE i.op \in {"slli", "srli", "srai"} /\ i.riscv = "IType" /\ i.imm = "Iimm" /\ v = w.rs2
  <2>1. encode(i) = [w EXCEPT !.rs2 = v % 32]
    BY <1>1, <1>3, SMT DEF encode
  <2>2. v % 32 = w.rs2
    BY <1>3, FieldsOf, SMT
  <2> QED BY <2>1, <2>2, <1>3, PutBack
<1>4. CASE /\ i.op \notin {"slli", "srli", "srai"} /\ i.riscv = "IType"
            /\ i.imm = "Iimm" /\ v = IOffset(w)
  <2>1. encode(i) = [w EXCEPT !.rs2 = v % 32, !.f7 = (v \div 32) % 128]
    BY <1>1, <1>4, SMT DEF encode
  <2>2. v % 32 = w.rs2 /\ (v \div 32) % 128 = w.f7
    BY <1>4, FieldsOf, ICut, Funct7, SMT DEF IOffset
  <2> QED BY <2>1, <2>2, <1>4, PutBack
<1>5. CASE i.riscv = "SType" /\ i.imm = "Simm" /\ v = SOffset(w)
  <2>1. encode(i) = [w EXCEPT !.rd = v % 32, !.f7 = (v \div 32) % 64]
    BY <1>1, <1>5, SMT DEF encode
  <2>2. v % 32 = w.rd /\ (v \div 32) % 64 = w.f7 % 64
    BY <1>5, FieldsOf, ICut, SMT DEF SOffset
  <2> QED BY <2>1, <2>2, <1>5, PutBack
<1>6. CASE i.riscv = "SType" /\ i.imm = "Bimm" /\ v = BOffset(w)
  <2> DEFINE rd == ((v \div 2048) % 2) + 2 * ((v \div 2) % 16)
             f7 == ((v \div 32) % 64) + 64 * ((v \div 4096) % 2)
  <2>1. encode(i) = [w EXCEPT !.rd = rd, !.f7 = f7]
    BY <1>1, <1>6, SMT DEF encode
  <2>2. rd = w.rd
    BY <1>6, BCut, FieldsOf, Pairs, SMT
  <2>3. f7 = w.f7
    BY <1>6, BCut, Funct7, SMT
  <2> HIDE DEF rd, f7
  <2> QED BY <2>1, <2>2, <2>3, <1>6, PutBack
<1>7. CASE i.riscv = "UType" /\ i.imm = "Uimm" /\ v = UOffset(w)
  <2> DEFINE f3  == v % 8
             rs1 == (v \div 8) % 32
             rs2 == (v \div 256) % 32
             f7  == (v \div 8192) % 128
  <2>1. encode(i) = [w EXCEPT !.f3 = f3, !.rs1 = rs1, !.rs2 = rs2, !.f7 = f7]
    BY <1>1, <1>7, SMT DEF encode
  <2>2. f3 = w.f3 /\ rs1 = w.rs1 /\ rs2 = w.rs2 /\ f7 = w.f7
    BY UCut, <1>7, SMT
  <2> HIDE DEF f3, rs1, rs2, f7
  <2> QED BY <2>1, <2>2, <1>7, PutBack
<1>8. CASE i.riscv = "UType" /\ i.imm = "Jimm" /\ v = JOffset(w)
  <2> DEFINE f3  == (v \div 4096) % 8
             rs1 == (v \div 32768) % 32
             rs2 == ((v \div 2048) % 2) + 2 * ((v \div 2) % 16)
             f7  == ((v \div 32) % 64) + 64 * ((v \div 1048576) % 2)
  <2>1. encode(i) = [w EXCEPT !.f3 = f3, !.rs1 = rs1, !.rs2 = rs2, !.f7 = f7]
    BY <1>1, <1>8, SMT DEF encode
  <2>2. f3 = w.f3 /\ rs1 = w.rs1
    BY <1>8, JCut, SMT
  <2>3. rs2 = w.rs2
    BY <1>8, JCut, FieldsOf, Pairs, SMT
  <2>4. f7 = w.f7
    BY <1>8, JCut, Funct7, SMT
  <2> HIDE DEF f3, rs1, rs2, f7
  <2> QED BY <2>1, <2>2, <2>3, <2>4, <1>8, PutBack
<1>9. CASE i.riscv \in {"RType", "PType"} /\ i.imm = "Rimm"
  BY <1>1, <1>9, SMT DEF encode
<1>10. \/ i.op \in {"slli", "srli", "srai"} /\ i.riscv = "IType" /\ i.imm = "Iimm" /\ v = w.rs2
       \/ /\ i.op \notin {"slli", "srli", "srai"} /\ i.riscv = "IType"
           /\ i.imm = "Iimm" /\ v = IOffset(w)
       \/ i.riscv = "SType" /\ i.imm = "Simm" /\ v = SOffset(w)
       \/ i.riscv = "SType" /\ i.imm = "Bimm" /\ v = BOffset(w)
       \/ i.riscv = "UType" /\ i.imm = "Uimm" /\ v = UOffset(w)
       \/ i.riscv = "UType" /\ i.imm = "Jimm" /\ v = JOffset(w)
       \/ i.riscv \in {"RType", "PType"} /\ i.imm = "Rimm"
  BY OffsetOf, SMT DEF i
<1> QED BY <1>3, <1>4, <1>5, <1>6, <1>7, <1>8, <1>9, <1>10

-----------------------------------------------------------------------------
(* The whole.                                                              *)

(* is_nop holds of the word addi x0, x0, 0 and of no other                 *)
(* (riscv_inst.h:120-127).                                                 *)
LEMMA NopIsOne ==
    ASSUME NEW w \in Word, Common(Reading(w))
    PROVE  is_nop(Reading(w).debugger) <=> w = Noop
<1> DEFINE i == decode(w)
<1>1. Reading(w).debugger = i /\ i.word = w
  BY DEF Reading, decode
<1>2. ASSUME is_nop(i) PROVE w = Noop
  <2>1. i.op = "addi" /\ w.rd = 0 /\ w.rs1 = 0 /\ i.imm_value = 0
    BY <1>1, <1>2 DEF is_nop
  <2>2. select(i.op).opcode = w.opcode /\ select(i.op).funct3 \in {NoCode, w.f3}
    BY <1>1, Selected DEF SelectNames
  <2>3. select("addi") = Row(RV32_OP_IMM, "IType", "Iimm", 0, NoCode)
    BY DEF select, Row
  <2>4. w.opcode = RV32_OP_IMM /\ w.f3 = 0
    BY <2>1, <2>2, <2>3 DEF Row, NoCode
  <2>5. i.imm_value = IOffset(w)
    BY <2>4, SMT DEF decode, Imm, analyze, IOffset
  <2>6. w.rs2 = 0 /\ w.f7 = 0
    BY <2>1, <2>5, FieldsOf, ICut, Funct7, SMT DEF IOffset
  <2> QED BY <2>1, <2>4, <2>6 DEF Word, Noop
<1>3. ASSUME w = Noop PROVE is_nop(i)
  <2>1. i.op = "addi"
    BY <1>3 DEF decode, Noop, immediate, ByFunct3, Unimplemented
  <2>2. i.imm_value = 0
    BY <1>3, SMT DEF decode, Noop, Imm, analyze, Bit31
  <2> QED BY <1>1, <1>3, <2>1, <2>2 DEF is_nop, Noop
<1> QED BY <1>1, <1>2, <1>3

(* What the readers make of any word agrees.                               *)
LEMMA ReadingsAgree ==
    ASSUME NEW w \in Word
    PROVE  LET r == Reading(w)
           IN /\ TextsAgree(r)
              /\ KnownAgree(w, r)
              /\ Common(r) =>
                    /\ OperandsAgree(w, r)
                    /\ ImmediatesAgree(w, r.debugger)
                    /\ EncodeRestores(w, r.debugger)
                    /\ SelectNames(w, r.debugger)
                    /\ is_nop(r.debugger) <=> w = Noop
BY Texts, Knowing, Operands, Immediates, Encoded, Selected, NopIsOne

(* What is read is what the readers make of the word that came.            *)
IInv == word \in Word /\ readings \in {Unread, Reading(word)}

(* The debugger, the pipeline listing and the processor read every word of *)
(* 32 bits alike (riscv_inst.h:130-958, pipe_print.c:37-156,               *)
(* decoder.sv:61-209, fu_top.sv:33-47).                                    *)
THEOREM ReadersAgree == ReadSpec => []DecodersAgree
<1>1. ReadInit => IInv
  BY WordsAssumption DEF ReadInit, IInv
<1>2. IInv /\ [Decode]_readVars => IInv'
  BY DEF IInv, Decode, readVars
<1>3. IInv => DecodersAgree
  <2> SUFFICES ASSUME IInv, readings.done PROVE DecodersAgree
    BY DEF DecodersAgree
  <2>1. word \in Word /\ readings = Reading(word)
    BY DEF IInv, Unread
  <2> QED BY <2>1, ReadingsAgree DEF DecodersAgree
<1> QED BY <1>1, <1>2, <1>3, PTL DEF ReadSpec
=============================================================================
