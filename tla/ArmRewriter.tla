---------------------------- MODULE ArmRewriter -----------------------------
(***************************************************************************)
(* ArmInstructionRewriter, its A32 half: what the trampoline gets for an   *)
(* instruction that stood at pc, in the part of a function that ends at    *)
(* tail.  The register pc reads 8 past the instruction.                    *)
(***************************************************************************)
EXTENDS Microcode

Mov(r, n) == Op(r, Num(n))
P(pc) == pc + 8

\* Neither the load nor the branch looks at the condition of the instruction.
RewriteArm_LDR(i, pc, tail) ==
    LET pcrel_address == P(pc) + i.off
    IN  IF pcrel_address < tail THEN EmitCode
        ELSE Emit(<<Mov(i.rd, pcrel_address), Op(i.rd, At(i.rd))>>)

ScratchFor(regs) == IF "r0" \notin regs THEN "r0" ELSE "r1"

\* rd takes the place of rm in the sum.
RewriteArm_Add(i, pc) ==
    LET scratch == ScratchFor({i.rd, i.rm})
    IN  Emit(<<Push(scratch), Mov(scratch, P(pc)), Op(i.rd, Plus(scratch, i.rd)), Pop(scratch)>>)

\* lr becomes the place of the literal, three instructions behind the Add.
RewriteArm_B(i, pc, tail) ==
    LET pcrel_address == P(pc) + i.off
    IN  IF pcrel_address < tail THEN EmitCode
        ELSE Emit((IF i.op = "bl" THEN <<Op("lr", Junk)>> ELSE <<>>) \o <<Jump(pcrel_address)>>)

RewriteArm(i, pc, tail) ==
    CASE i.op = "ldr" -> RewriteArm_LDR(i, pc, tail)
      [] i.op = "add" -> RewriteArm_Add(i, pc)
      [] i.op \in {"b", "bl"} -> RewriteArm_B(i, pc, tail)
      [] OTHER -> EmitCode

Prologue == <<>>
Epilogue(tail) == <<Jump(tail)>>

-----------------------------------------------------------------------------
\* What the encodings of the architecture can hold, but for an ADD of pc to
\* itself.
Encodes(i) ==
    /\ i.width = 4
    /\ i.rd \in General \union {"pc"} /\ i.rm \in General
    /\ i.op \in {"b", "bl"} => i.off % 4 = 0

\* The instructions as the architecture defines them.  add_imm and mov are
\* ADD Rd, PC, #imm and MOV Rd, PC, which the rewriter copies.
Meaning(i, pc) ==
    LET n == P(pc) + i.off
        always ==
            CASE i.op = "ldr" -> <<Mov("xt", n), Op(i.rd, At("xt"))>>
              [] i.op = "add" -> <<Mov("xt", P(pc)), Op(i.rd, Plus("xt", i.rm))>>
              [] i.op = "add_imm" -> <<Mov(i.rd, n)>>
              [] i.op = "mov" -> <<Mov(i.rd, P(pc))>>
              [] i.op = "b" -> <<Jump(n)>>
              [] i.op = "bl" -> <<Mov("lr", pc + 4), Jump(n)>>
              [] OTHER -> <<>>
    IN  IF i.cond THEN If({TRUE}, always) ELSE always

\* The places that a copy of the instruction has to find at the same distance.
Anchors(i, pc) ==
    LET n == P(pc) + i.off
    IN  CASE i.op \in {"b", "bl"} -> {n}
          [] i.op = "ldr" -> n..(n + 3)
          [] i.op \in {"add_imm", "mov"} -> Nowhere
          [] OTHER -> {}

\* What the rewriter gets right when it does not copy the instruction.
Expands(i, pc, tail) ==
    /\ ~i.cond
    /\ \/ i.op = "ldr" /\ i.rd # "pc" /\ P(pc) + i.off >= tail
       \/ i.op = "add" /\ i.rd = i.rm
       \/ i.op = "b" /\ P(pc) + i.off >= tail
=============================================================================
