--------------------------- MODULE Arm64Rewriter ----------------------------
(***************************************************************************)
(* Arm64InstructionRewriter: what the trampoline gets for an instruction   *)
(* that stood at pc, in the part of a function that ends at tail.          *)
(***************************************************************************)
EXTENDS Microcode

Mov(r, n) == Op(r, Num(n))
xTarget == "xt"

\* In 64 bits: C has its upper bits set, value + C wraps, and the exclusive
\* or turns over the bits above the lower bits - 1.
SignExtend64(bits, value) ==
    LET half == 2^(bits - 1)
        sum == value - half
    IN  (-1 - sum \div half) * half + (sum % half)

\* The immediate of the instruction, from its field of that many bits.
BranchOffset(bits, i) == SignExtend64(bits, (i.off \div 4) % 2^bits) * 4

\* immhi and immlo have 21 bits.
ImmOf(i) == SignExtend64(12, i.off % 2^21)

RewriteADR_ADRP(i, pc) ==
    Emit(<<IF i.op = "adr" THEN Mov(i.rd, pc + ImmOf(i))
                           ELSE Op(i.rd, Page(pc \div 4096 + ImmOf(i)))>>)

\* Pop(x0) reads the stack at an address that is 8 past a multiple of 16.
PopX0 == Fault

RewriteB_BL_NoLink(i, pc, tail) ==
    LET target == pc + BranchOffset(26, i)
    IN  IF target < tail THEN EmitCode
        ELSE Emit(<<Mov(xTarget, target), Op("pc", Of(xTarget))>>)
RewriteB_BL(i, pc, tail) ==
    LET target == pc + BranchOffset(26, i)
    IN  IF target < tail THEN EmitCode
        ELSE Emit((IF i.op = "bl" THEN <<Mov("lr", pc + 4)>> ELSE <<>>)
                  \o <<Mov(xTarget, target), Op("pc", Of(xTarget))>>)

\* B.cond and CBZ, CBNZ have 19 bits, TBZ and TBNZ 14; they differ otherwise
\* in what the condition is.
RewriteBranchIf(i, pc, tail) ==
    LET pcrel_address == pc + BranchOffset(IF i.op = "tbz" THEN 14 ELSE 19, i)
    IN  IF pcrel_address < tail THEN EmitCode
        ELSE Emit(If({TRUE}, <<Mov(xTarget, pcrel_address), Op("pc", Of(xTarget))>>))

RewriteLDR_LIT(i, pc, tail) ==
    LET n == pc + BranchOffset(19, i)
    IN  IF n < tail THEN EmitCode
        ELSE CASE i.op = "ldr" -> Emit(<<Mov(i.rd, n), Op(i.rd, At(i.rd))>>)
               [] i.op = "prfm" -> Emit(<<Push("r0"), Mov("r0", n), Op("r0", At(i.rd)), PopX0>>)
               [] i.op = "ldr_simd" -> Emit(<<Push("r0"), Mov("r0", n), Op("v0", At("r0")), PopX0>>)

Rewrite(i, pc, tail) ==
    CASE i.op \in {"adr", "adrp"} -> RewriteADR_ADRP(i, pc)
      [] i.op \in {"b", "bl"} -> RewriteB_BL(i, pc, tail)
      [] i.op \in {"b_cond", "cbz", "tbz"} -> RewriteBranchIf(i, pc, tail)
      [] i.op \in {"ldr", "prfm", "ldr_simd"} -> RewriteLDR_LIT(i, pc, tail)
      [] OTHER -> EmitCode

Prologue == <<>>
Epilogue(tail) == <<Mov(xTarget, tail), Op("pc", Of(xTarget))>>

-----------------------------------------------------------------------------
\* What the encodings of the architecture can hold.
Encodes(i) ==
    /\ i.width = 4
    /\ i.rd \in IF i.op = "ldr_simd" THEN {"v0", "v4"} ELSE General
    /\ i.op \in {"adr", "adrp", "b_cond", "cbz", "ldr", "prfm", "ldr_simd"} => -2^20 <= i.off /\ i.off < 2^20
    /\ i.op \in {"b", "bl"} => -2^27 <= i.off /\ i.off < 2^27
    /\ i.op = "tbz" => -2^15 <= i.off /\ i.off < 2^15
    /\ i.op \notin {"adr", "adrp"} => i.off % 4 = 0

\* The instructions as the architecture defines them.
Meaning(i, pc) ==
    LET n == pc + i.off
    IN  CASE i.op = "adr" -> <<Mov(i.rd, n)>>
          [] i.op = "adrp" -> <<Op(i.rd, Page(pc \div 4096 + i.off))>>
          [] i.op = "b" -> <<Jump(n)>>
          [] i.op = "bl" -> <<Mov("lr", pc + 4), Jump(n)>>
          [] i.op \in {"b_cond", "cbz", "tbz"} -> If({TRUE}, <<Jump(n)>>)
          [] i.op \in {"ldr", "ldr_simd"} -> <<Mov("xt", n), Op(i.rd, At("xt"))>>
          [] i.op = "prfm" -> <<Op("touch", Num(n))>>
          [] OTHER -> <<>>

\* The places that a copy of the instruction has to find at the same distance.
Anchors(i, pc) ==
    CASE i.op \in {"b", "bl", "b_cond", "cbz", "tbz"} -> {pc + i.off}
      [] i.op \in {"ldr", "ldr_simd", "prfm"} -> (pc + i.off)..(pc + i.off + 3)
      [] OTHER -> {}

\* What the rewriter gets right when it does not copy the instruction.
Expands(i, pc, tail) ==
    \/ i.op \in {"adr", "adrp"} /\ i.off \in (0..2047) \union ((-2^20)..(-2^20 + 2047))
    \/ i.op \in {"b", "b_cond", "cbz", "tbz", "ldr"} /\ pc + i.off >= tail
    \/ i.op = "bl" /\ pc + i.off >= tail /\ pc + 4 >= tail
=============================================================================
