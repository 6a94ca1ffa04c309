--------------------------- MODULE ThumbRewriter ----------------------------
(***************************************************************************)
(* ArmInstructionRewriter, its Thumb half.  The register pc reads 4 past   *)
(* the instruction; loads and adds of a literal count from there, rounded  *)
(* down to a word.                                                         *)
(***************************************************************************)
EXTENDS Microcode

Mov(r, n) == Op(r, Num(n))
P(pc) == pc + 4
Word(n) == RoundDown(n, 4)

RewriteThumb_LDR_PC16(i, pc, tail) ==
    LET pcrel_address == Word(P(pc) + i.off)
    IN  IF pcrel_address < tail THEN EmitCode
        ELSE Emit(<<Mov(i.rd, pcrel_address), Op(i.rd, At(i.rd))>>)

RewriteThumb_ADD_FROM_PC16(i, pc) == Emit(<<Mov(i.rd, Word(P(pc) + i.off))>>)

\* ADD, CMP and MOV of any two registers.
DataProcessing(op, rd, rm) ==
    CASE op = "add" -> Op(rd, Plus(rd, rm))
      [] op = "cmp" -> Op("flags", Compare(rd, rm))
      [] op = "mov" -> Op(rd, Of(rm))

\* With rd = pc the scratch register takes the place of rm, which is not read.
RewriteThumb_DataProcessing16(i, pc) ==
    LET other == IF i.rm = "pc" THEN i.rd ELSE i.rm
        scratch == IF other = "r0" THEN "r1" ELSE "r0"
    IN  IF "pc" \notin {i.rd, i.rm} \/ i.rd = i.rm THEN EmitCode
        ELSE Emit(<<Push(scratch), Mov(scratch, P(pc)),
                    DataProcessing(i.op, i.rd, scratch), Pop(scratch)>>)

\* Byte, halfword and word loads; the address is rounded for all of them.
RewriteThumb_LDRL32(i, pc, tail) ==
    LET pcrel_address == Word(P(pc) + i.off)
    IN  IF pcrel_address < tail THEN EmitCode
        ELSE Emit(<<Mov(i.rd, pcrel_address),
                    Op(i.rd, IF i.op = "ldrb32" THEN Half(i.rd) ELSE At(i.rd))>>)

\* The way out by Mov(pc, r0) never comes to the Pop.
ByR0(n) == If({TRUE}, <<Push("r0"), Mov("r0", n), Op("pc", Of("r0")), Pop("r0")>>)

\* The eight bits of the offset are taken as unsigned.
RewriteThumb_B_COND16(i, pc, tail) ==
    LET pcrel_address == Word(P(pc) + (i.off % 512))
    IN  IF pcrel_address < tail THEN EmitCode ELSE Emit(ByR0(pcrel_address))

RewriteThumb_B16(i, pc, tail) ==
    LET pcrel_address == Word(P(pc) + i.off)
    IN  IF pcrel_address < tail THEN EmitCode ELSE Emit(<<Jump(pcrel_address)>>)

\* CBNZ becomes CBZ.
RewriteThumb_CBZ16(i, pc, tail) ==
    LET pcrel_address == Word(P(pc) + i.off)
    IN  IF pcrel_address < tail THEN EmitCode
        ELSE Emit(If({i.op = "cbz"}, ByR0(pcrel_address)))

\* The handler is given the first halfword only, and takes it for all 32 bits
\* of a branch with link: the destination is at least 4 MB behind.
RewriteThumb_B32(i, pc) == Emit(<<Op("lr", Junk), Op("pc", Junk)>>)

RewriteThumb(i, pc, tail) ==
    CASE i.op = "b_cond" -> RewriteThumb_B_COND16(i, pc, tail)
      [] i.op = "b" -> RewriteThumb_B16(i, pc, tail)
      [] i.op \in {"b32", "bl32"} -> RewriteThumb_B32(i, pc)
      [] i.op \in {"cbz", "cbnz"} -> RewriteThumb_CBZ16(i, pc, tail)
      [] i.op = "ldr" -> RewriteThumb_LDR_PC16(i, pc, tail)
      [] i.op = "add_imm" -> RewriteThumb_ADD_FROM_PC16(i, pc)
      [] i.op \in {"add", "cmp", "mov"} -> RewriteThumb_DataProcessing16(i, pc)
      [] i.op \in {"ldr32", "ldrb32"} -> RewriteThumb_LDRL32(i, pc, tail)
      [] OTHER -> EmitCode

Prologue == <<>>
Epilogue(tail) == <<Jump(tail)>>

-----------------------------------------------------------------------------
\* What the encodings of the architecture can hold, but for one of two
\* registers that are both pc, and a CMP whose first one is.
Encodes(i) ==
    /\ i.op \in {"b", "b_cond", "cbz", "cbnz", "ldr", "add_imm", "add", "cmp", "mov"} => i.width = 2
    /\ i.op \in {"b32", "bl32", "b_cond32", "ldr32", "ldrb32"} => i.width = 4
    /\ i.rd = "pc" => i.op \in {"ldr32", "ldrb32", "add", "mov"} /\ i.rm # "pc"
    /\ i.rd \in General \union {"pc"} /\ i.rm \in General \union {"pc"}
    /\ i.op \in {"b", "b_cond", "cbz", "cbnz", "b32", "bl32", "b_cond32"} => i.off % 2 = 0
    /\ i.op \in {"ldr", "add_imm"} => i.off % 4 = 0

\* The instructions as the architecture defines them.  b_cond32 is the
\* conditional branch of 32 bits, which the rewriter copies, as it does bx.
Meaning(i, pc) ==
    LET n == P(pc) + i.off
        m == Word(P(pc)) + i.off
    IN  CASE i.op \in {"ldr", "ldr32"} -> <<Mov("xt", m), Op(i.rd, At("xt"))>>
          [] i.op = "ldrb32" -> <<Mov("xt", m), Op(i.rd, Half("xt"))>>
          [] i.op = "add_imm" -> <<Mov(i.rd, m)>>
          [] i.op \in {"add", "cmp", "mov"} /\ i.rm = "pc" ->
                 <<Mov("xt", P(pc)), DataProcessing(i.op, i.rd, "xt")>>
          [] i.op = "add" /\ i.rd = "pc" ->
                 <<Mov("xt", P(pc)), Op("pc", Plus("xt", i.rm))>>
          [] i.op = "mov" /\ i.rd = "pc" -> <<Op("pc", Of(i.rm))>>
          [] i.op \in {"b", "b32"} -> <<Jump(n)>>
          [] i.op = "bl32" -> <<Mov("lr", pc + 4), Jump(n)>>
          [] i.op \in {"b_cond", "b_cond32", "cbz", "cbnz"} -> If({TRUE}, <<Jump(n)>>)
          [] OTHER -> <<>>

\* The places that a copy of the instruction has to find at the same distance:
\* the word a load reads counts from the rounded pc.
Anchors(i, pc) ==
    LET m == Word(P(pc)) + i.off
    IN  CASE i.op \in {"b", "b32", "bl32", "b_cond", "b_cond32", "cbz", "cbnz"} -> {P(pc) + i.off}
          [] i.op \in {"ldr", "ldr32"} -> m..(m + 3)
          [] i.op = "ldrb32" -> {m}
          [] OTHER -> {}

ReadsWordAligned == {"ldr", "ldr32", "ldrb32"}

\* What the rewriter gets right when it does not copy the instruction.
Expands(i, pc, tail) ==
    LET m == Word(P(pc)) + i.off
    IN  \/ i.op = "ldr" /\ m >= tail
        \/ i.op = "add_imm"
        \/ i.op \in {"add", "cmp", "mov"} /\ i.rm = "pc" /\ i.rd # "pc"
        \/ i.op \in {"ldr32", "ldrb32"} /\ i.rd # "pc"
             /\ Word(P(pc) + i.off) = m /\ m >= tail
        \/ i.op = "b" /\ (P(pc) + i.off) % 4 = 0 /\ P(pc) + i.off >= tail
=============================================================================
