------------------------------ MODULE Decoder ------------------------------
(***************************************************************************)
(* The opcode classifier (plugin/src/decoder.rs): which instructions are   *)
(* direct or indirect transfers (tier 2) and which coprocessor resources   *)
(* an instruction uses (tier 3).                                           *)
(*                                                                         *)
(* A mask test of the code, `insn & mask == value`, is a set of fields     *)
(* <<msb, lsb, value>>.  A 32-bit word is kept as two halves.  The target  *)
(* of a direct transfer is its distance from the instruction's own address *)
(* (the code adds it to pc, wrapping).                                     *)
(***************************************************************************)
EXTENDS Integers, Sequences

CONSTANT Inputs   \* instructions: [target, bytes], target QEMU's name of the guest

(* Instruction bytes are u8. *)
ASSUME InputsAssumption == \A x \in Inputs : x.bytes \in Seq(0 .. 255)

VARIABLES
    insn,    \* the instruction, a sequence of at most one
    class,   \* result of classify
    flags    \* result of classify_resources

decodeVars == <<insn, class, flags>>

(* Arch::from_name *)
FromName(name) ==
    CASE name = "hexagon" -> "Hexagon"
      [] name \in {"aarch64", "aarch64_be"} -> "Aarch64"
      [] name \in {"riscv32", "riscv64"} -> "Riscv"
      [] name \in {"x86_64", "i386"} -> "X86"
      [] OTHER -> "Unknown"

(* u16::from_le_bytes, u32::from_le_bytes *)
Half(bytes, i) == bytes[i] + 256 * bytes[i + 1]
Word(bytes) == [hi |-> Half(bytes, 3), lo |-> Half(bytes, 1)]
Short(bytes) == [hi |-> 0, lo |-> Half(bytes, 1)]

Bits(n, msb, lsb) == (n \div 2^lsb) % 2^(msb - lsb + 1)

(* Bits msb .. lsb of a word: shift and mask. *)
Field(w, msb, lsb) ==
    IF lsb >= 16 THEN Bits(w.hi, msb - 16, lsb - 16)
    ELSE IF msb < 16 THEN Bits(w.lo, msb, lsb)
    ELSE Bits(w.hi, msb - 16, 0) * 2^(16 - lsb) + Bits(w.lo, 15, lsb)

Matches(w, fields) == \A f \in fields : Field(w, f[1], f[2]) = f[3]

(* Mutant: the value is not sign-extended. *)
SignExtend_None(x, width) == x

(* ((x as i32) << (32 - width)) >> (32 - width) *)
SignExtend(x, width) == IF x >= 2^(width - 1) THEN x - 2^width ELSE x

Other == [kind |-> "Other"]
Indirect == [kind |-> "Indirect"]
Direct(offset) == [kind |-> "Direct", offset |-> offset]

(* hex_r22_target, hex_r15_target *)
HexR22(w) ==
    4 * SignExtend(Field(w, 24, 24) * 2^21 + Field(w, 23, 16) * 2^13
                   + Field(w, 13, 8) * 2^7 + Field(w, 7, 1), 22)
HexR15(w) ==
    4 * SignExtend(Field(w, 23, 22) * 2^13 + Field(w, 20, 16) * 2^8
                   + Field(w, 13, 13) * 2^7 + Field(w, 7, 1), 15)

(* aarch64_imm26_target *)
Aarch64Imm26(w) == 4 * SignExtend(Field(w, 25, 0), 26)

(* riscv_jal_target, riscv_cj_target *)
RiscvJal(w) ==
    SignExtend(Field(w, 31, 31) * 2^20 + Field(w, 19, 12) * 2^12
               + Field(w, 20, 20) * 2^11 + Field(w, 30, 21) * 2, 21)
RiscvCj(w) ==
    SignExtend(Field(w, 12, 12) * 2^11 + Field(w, 11, 11) * 2^4 + Field(w, 10, 9) * 2^8
               + Field(w, 8, 8) * 2^10 + Field(w, 7, 7) * 2^6 + Field(w, 6, 6) * 2^7
               + Field(w, 5, 3) * 2 + Field(w, 2, 2) * 2^5, 12)

Offset(imm, w) ==
    CASE imm = "r22" -> HexR22(w)
      [] imm = "r15" -> HexR15(w)
      [] imm = "imm26" -> Aarch64Imm26(w)
      [] imm = "jal" -> RiscvJal(w)
      [] imm = "cj" -> RiscvCj(w)

Rule(imm, fields) == [imm |-> imm, fields |-> fields]

(* The tests of each classify_ function, in their order; "none" is Indirect. *)
HexagonRules ==
    << Rule("none", {<<31, 26, \b010100>>}),     \* JUMPR_MISC
       Rule("r22", {<<31, 25, \b0101101>>}),     \* J2_call
       Rule("r22", {<<31, 25, \b0101100>>}),     \* J2_jump
       Rule("r15", {<<31, 24, \b01011101>>}) >>  \* J2_callt/callf
Aarch64Rules ==
    << Rule("imm26", {<<31, 26, \b100101>>}),    \* BL
       Rule("imm26", {<<31, 26, \b000101>>}),    \* B
       Rule("none", {<<31, 16, \hD63F>>, <<15, 10, 0>>, <<4, 0, 0>>}),    \* BLR
       Rule("none", {<<31, 16, \hD61F>>, <<15, 10, 0>>, <<4, 0, 0>>}),    \* BR
       Rule("none", {<<31, 16, \hD65F>>, <<15, 10, 0>>, <<4, 0, 0>>}) >>  \* RET
Riscv32Rules ==
    << Rule("jal", {<<6, 0, \h6F>>}),            \* JAL
       Rule("none", {<<6, 0, \h67>>}) >>         \* JALR
Riscv16Rules ==
    << Rule("cj", {<<15, 13, \b101>>, <<1, 0, 1>>}),                  \* C.J
       Rule("cj", {<<15, 13, \b001>>, <<1, 0, 1>>}),                  \* C.JAL
       Rule("none", {<<15, 12, \b1000>>, <<6, 2, 0>>, <<1, 0, 2>>}),  \* C.JR
       Rule("none", {<<15, 12, \b1001>>, <<6, 2, 0>>, <<1, 0, 2>>}) >>\* C.JALR

Hits(rules, w) == {i \in DOMAIN rules : Matches(w, rules[i].fields)}

(* The first test that succeeds decides. *)
FirstMatch(rules, w) ==
    IF Hits(rules, w) = {} THEN Other
    ELSE LET r == rules[CHOOSE i \in Hits(rules, w) : \A j \in Hits(rules, w) : i <= j]
         IN  IF r.imm = "none" THEN Indirect ELSE Direct(Offset(r.imm, w))

(* Parse bits 00: two sub-instructions in one word. *)
Duplex(w) == Field(w, 15, 14) = 0
Compressed(bytes) == bytes[1] % 4 # 3

ClassifyHexagon(w) == IF Duplex(w) THEN Other ELSE FirstMatch(HexagonRules, w)
ClassifyRiscv(bytes) ==
    IF Len(bytes) < 2 THEN Other
    ELSE IF Compressed(bytes) THEN FirstMatch(Riscv16Rules, Short(bytes))
    ELSE IF Len(bytes) < 4 THEN Other
    ELSE FirstMatch(Riscv32Rules, Word(bytes))

Prefixes == {\h66, \h67, \h26, \h2E, \h36, \h3E, \h64, \h65, \hF0, \hF2, \hF3} \cup \h40 .. \h4F

(* The instruction without its legacy and REX prefixes. *)
SkipPrefixes(bytes) ==
    LET opcodes == {i \in DOMAIN bytes : bytes[i] \notin Prefixes}
    IN  IF opcodes = {} THEN <<>>
        ELSE SubSeq(bytes, CHOOSE i \in opcodes : \A j \in opcodes : i <= j, Len(bytes))

(* Little-endian i32 and i8 displacements. *)
Rel32(op) == Half(op, 2) + 2^16 * op[4] + 2^24 * SignExtend(op[5], 8)
Rel8(op) == SignExtend(op[2], 8)

(* next_pc.wrapping_add(rel) *)
FromNextPc(size, rel) == size + rel

ClassifyX86(bytes, size) ==
    LET op == SkipPrefixes(bytes)
    IN  IF op = <<>> THEN Other
        ELSE IF op[1] \in {\hE8, \hE9} /\ Len(op) >= 5 THEN Direct(FromNextPc(size, Rel32(op)))
        ELSE IF op[1] = \hEB /\ Len(op) >= 2 THEN Direct(FromNextPc(size, Rel8(op)))
        ELSE IF op[1] = \hFF /\ Len(op) >= 2 /\ Bits(op[2], 5, 3) \in {2, 4} THEN Indirect
        ELSE Other

(* classify; the instruction's bytes are all of it. *)
Classify(arch, bytes) ==
    CASE arch \in {"Hexagon", "Aarch64"} /\ Len(bytes) < 4 -> Other
      [] arch = "Hexagon" /\ Len(bytes) >= 4 -> ClassifyHexagon(Word(bytes))
      [] arch = "Aarch64" /\ Len(bytes) >= 4 -> FirstMatch(Aarch64Rules, Word(bytes))
      [] arch = "Riscv" -> ClassifyRiscv(bytes)
      [] arch = "X86" -> ClassifyX86(bytes, Len(bytes))
      [] arch = "Unknown" -> Other
-----------------------------------------------------------------------------
(* Mutant: HVX memory instructions are matched without bit 27. *)
HexagonResources_Wide ==
    { <<"HVX", {<<31, 27, \b00011>>}>>, <<"HVX", {<<30, 28, \b101>>}>> }

(* Each test of classify_resources_hexagon with the flag it sets. *)
HexagonResources ==
    { <<"HVX", {<<31, 27, \b00011>>}>>, <<"HVX", {<<31, 27, \b00101>>}>>,
      <<"HMX", {<<31, 21, \b10010010000>>}>>, <<"HMX", {<<31, 21, \b10100110111>>}>>,
      <<"FP", {<<31, 24, \hEB>>}>>,
      <<"FP", {<<31, 23, \b111010000>>, <<6, 5, 3>>}>>,
      <<"FP", {<<31, 23, \b111010100>>, <<6, 5, 3>>}>>,
      <<"FP", {<<31, 23, \b111011111>>}>>,
      <<"FP", {<<31, 21, \b10000000111>>}>>, <<"FP", {<<31, 23, \b100001001>>}>>,
      <<"FP", {<<31, 24, \h88>>, <<7, 5, 1>>}>>, <<"FP", {<<31, 24, \h8B>>}>>,
      <<"FP", {<<31, 21, \b10000101111>>}>>,
      <<"FP", {<<31, 24, \hD6>>}>>, <<"FP", {<<31, 24, \hD9>>}>>, <<"FP", {<<31, 24, \hDC>>}>> }
Aarch64Resources ==
    { <<"SIMD", {<<27, 25, \b111>>}>>, <<"FP", {<<27, 25, \b111>>}>>,
      <<"SIMD", {<<28, 25, \b0010>>}>> }
RiscvResources ==
    { <<"SIMD", {<<6, 0, \h57>>}>> }
    \cup {<<"FP", {<<6, 0, op>>}>> : op \in {\h07, \h27, \h53, \h43, \h47, \h4B, \h4F}}
    \cup {<<"SIMD", {<<6, 0, op>>, <<14, 12, width>>}>> : op \in {\h07, \h27}, width \in 5 .. 7}

Uses(rules, w) == {r[1] : r \in {r \in rules : Matches(w, r[2])}}

ResourcesX86(bytes) ==
    LET op == SkipPrefixes(bytes)
    IN  IF op = <<>> THEN {}
        ELSE IF op[1] \in {\hC5, \hC4, \h62} THEN {"SIMD"}
        ELSE IF op[1] \in \hD8 .. \hDF THEN {"FP"}
        ELSE {}

(* classify_resources *)
Resources(arch, bytes) ==
    CASE arch = "X86" -> ResourcesX86(bytes)
      [] arch = "Unknown" \/ (arch # "X86" /\ Len(bytes) < 4) -> {}
      [] arch = "Hexagon" /\ Len(bytes) >= 4 ->
            IF Duplex(Word(bytes)) THEN {} ELSE Uses(HexagonResources, Word(bytes))
      [] arch = "Aarch64" /\ Len(bytes) >= 4 -> Uses(Aarch64Resources, Word(bytes))
      [] arch = "Riscv" /\ Len(bytes) >= 4 ->
            IF Compressed(bytes) THEN {} ELSE Uses(RiscvResources, Word(bytes))
-----------------------------------------------------------------------------
DecodeInit == insn = <<>> /\ class = Other /\ flags = {}

(* tier2::instrument_tb and tier3::classify_tb: one instruction of a block. *)
Decode(x) ==
    /\ insn' = <<x>>
    /\ class' = Classify(FromName(x.target), x.bytes)
    /\ flags' = Resources(FromName(x.target), x.bytes)

DecodeNext == insn = <<>> /\ \E x \in Inputs : Decode(x)

DecodeSpec == DecodeInit /\ [][DecodeNext]_decodeVars
-----------------------------------------------------------------------------
Decoded == insn # <<>>
Arch == FromName(insn[1].target)
Opcode == SkipPrefixes(insn[1].bytes)

Down(a, b) == [i \in 1 .. a - b + 1 |-> a - i + 1]

(***************************************************************************)
(* The immediates as the comments above the target functions draw them:    *)
(* the instruction bits from the sign bit down, and the weight of the      *)
(* lowest one.                                                             *)
(***************************************************************************)
Layout(arch, bytes) ==
    CASE arch = "Hexagon" /\ Bits(bytes[4], 7, 1) # \b0101110 ->
            [bits |-> <<24>> \o Down(23, 16) \o Down(13, 8) \o Down(7, 1), unit |-> 4]
      [] arch = "Hexagon" /\ Bits(bytes[4], 7, 1) = \b0101110 ->
            [bits |-> <<23, 22>> \o Down(20, 16) \o <<13>> \o Down(7, 1), unit |-> 4]
      [] arch = "Aarch64" -> [bits |-> Down(25, 0), unit |-> 4]
      [] arch = "Riscv" /\ ~Compressed(bytes) ->
            [bits |-> <<31>> \o Down(19, 12) \o <<20>> \o Down(30, 21), unit |-> 2]
      [] arch = "Riscv" /\ Compressed(bytes) ->
            [bits |-> <<12, 8, 10, 9, 6, 7, 2, 11, 5, 4, 3>>, unit |-> 2]

(* The bits of w in the order of bits, sign bit first, are the number v. *)
TwosComplement(v, w, bits) ==
    LET n == Len(bits)
    IN  /\ v \in -(2^(n - 1)) .. 2^(n - 1) - 1
        /\ \A i \in 1 .. n : (v \div 2^(n - i)) % 2 = Field(w, bits[i], bits[i])

(***************************************************************************)
(* Direct targets: the shifts, masks and sign extension give the two's     *)
(* complement number that the bits drawn in the comments stand for, for    *)
(* both signs and at the ends of the range; on x86 the displacement counts *)
(* from the end of the instruction, prefixes included.                     *)
(***************************************************************************)
OffsetsExact ==
    Decoded /\ class.kind = "Direct" =>
        LET bytes == insn[1].bytes
        IN  IF Arch = "X86"
            THEN LET end == Len(bytes)
                     rel == class.offset - end
                 IN  IF Opcode[1] = \hEB
                     THEN rel \in -128 .. 127 /\ rel % 256 = Opcode[2]
                     ELSE /\ rel % 2^16 = Half(Opcode, 2)
                          /\ (rel \div 2^16) % 2^16 = Half(Opcode, 4)
                          /\ rel \div 2^16 \in -(2^15) .. 2^15 - 1
            ELSE LET l == Layout(Arch, bytes)
                     w == IF Len(bytes) < 4 THEN Short(bytes) ELSE Word(bytes)
                 IN  /\ class.offset % l.unit = 0
                     /\ TwosComplement(class.offset \div l.unit, w, l.bits)

Rules(bytes) ==
    CASE Arch = "Hexagon" -> HexagonRules
      [] Arch = "Aarch64" -> Aarch64Rules
      [] Arch = "Riscv" /\ Compressed(bytes) -> Riscv16Rules
      [] Arch = "Riscv" /\ ~Compressed(bytes) -> Riscv32Rules

(***************************************************************************)
(* The masks do not overlap: no word satisfies two tests, so the order of  *)
(* the early returns carries no meaning, and no instruction is both a      *)
(* transfer (tier 2) and a coprocessor instruction (tier 3).               *)
(***************************************************************************)
MasksDisjoint ==
    Decoded =>
        /\ class # Other => flags = {}
        /\ Arch \in {"Hexagon", "Aarch64", "Riscv"} /\ Len(insn[1].bytes) \in {2, 4} =>
              LET bytes == insn[1].bytes
                  w == IF Len(bytes) < 4 THEN Short(bytes) ELSE Word(bytes)
              IN  \A i, j \in Hits(Rules(bytes), w) : i = j

(***************************************************************************)
(* "C.JAL (RV32 only)": on a 64-bit guest the encoding is another          *)
(* instruction (an addition) and is no direct transfer.                    *)
(***************************************************************************)
CJalOnRv32Only ==
    Decoded /\ insn[1].target = "riscv64" /\ Len(insn[1].bytes) = 2 =>
        (Matches(Short(insn[1].bytes), {<<15, 13, \b001>>, <<1, 0, 1>>}) => class = Other)
=============================================================================
