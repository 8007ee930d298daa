----------------------------- MODULE MCDecoder -----------------------------
(***************************************************************************)
(* Instructions for Decoder.  Fixed-width words: every top byte with       *)
(* bytes below it that set, clear and isolate the bits of the masks and    *)
(* immediates.  RISC-V: every compressed halfword, every opcode.  x86:     *)
(* every opcode behind 0 to 2 prefixes, with displacements of both signs.  *)
(* Truncated instructions of each guest.                                   *)
(***************************************************************************)
EXTENDS Decoder

Bytes == 0 .. 255
Insns(targets, byteSeqs) == [target : targets, bytes : byteSeqs]

Words == { <<a, b, c, d>> : a \in {0, 33, 254, 255}, b \in {0, 64, 129, 255},
                            c \in {0, 1, 31, 63, 128, 224, 255}, d \in Bytes }
RvWords == { <<a, b, c, d>> : a \in {x \in Bytes : x % 4 = 3}, b \in {0, 16, 80, 96, 240, 255},
                              c \in {0, 16, 32, 255}, d \in {0, 1, 128, 255} }
Halfwords == { <<a, b>> : a \in {x \in Bytes : x % 4 # 3}, b \in Bytes }
X86 == { p \o <<op>> \o t : p \in {<<>>, <<102>>, <<72>>, <<242, 72>>}, op \in Bytes,
                            t \in { <<>>, <<16>>, <<200>>, <<0, 0, 0, 0>>, <<5, 1, 0, 0>>,
                                    <<251, 255, 255, 255>>, <<0, 0, 0, 128>> } }
Truncated == { <<>>, <<111>>, <<111, 0, 0>> }

MCInputs ==
    Insns({"hexagon", "aarch64"}, Words) \cup Insns({"riscv32"}, RvWords)
    \cup Insns({"riscv32"}, Halfwords) \cup Insns({"x86_64"}, X86)
    \cup Insns({"hexagon", "aarch64_be", "riscv64", "i386", "sparc"}, Truncated)

(* Compressed instructions of a 64-bit guest. *)
MCRv64Inputs == Insns({"riscv64"}, { <<a, b>> : a \in {1, 5, 129}, b \in Bytes })
=============================================================================
