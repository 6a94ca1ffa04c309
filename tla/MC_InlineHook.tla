--------------------------- MODULE MC_InlineHook ----------------------------
(***************************************************************************)
(* Functions with one instruction under test at each place, at most one    *)
(* other that is not plain, and plain ones around them.                    *)
(***************************************************************************)
EXTENDS InlineHook

Plain == Insn("other", 4, "r4", 0)
Plain16 == Insn("other", 2, "r4", 0)
Mul == [Plain EXCEPT !.looks = TRUE]

\* Offsets around the range and far away, on both sides.
Words == {-400, -8, -4, 0, 4, 8, 12, 16, 400}
Halfwords == {-400, -6, -4, -2, 0, 2, 4, 6, 8, 10, 100}

Arm64Insns ==
    {Insn(op, 4, rd, off) : op \in {"adr", "adrp"}, rd \in {"r0", "r4"},
        off \in {0, 5, 2047, 2048, 4095, 2^20 - 1, -1, -2048, -2049, -2^20, 2047 - 2^20, 2048 - 2^20}}
    \union {Insn(op, 4, "r4", off) : op \in {"b", "bl", "b_cond", "cbz", "tbz"}, off \in Words}
    \union {Insn(op, 4, rd, off) : op \in {"ldr", "prfm"}, rd \in {"r0", "r4"}, off \in Words}
    \union {Insn("ldr_simd", 4, rd, off) : rd \in {"v0", "v4"}, off \in Words}
    \union {Plain}

ArmInsns ==
    LET unconditional ==
            {Insn(op, 4, "r4", off) : op \in {"b", "bl", "add_imm", "mov"}, off \in Words \union {-12}}
            \union {Insn("ldr", 4, rd, off) : rd \in {"r0", "r4", "pc"}, off \in Words \union {-12}}
            \union {[Insn("add", 4, rd, 0) EXCEPT !.rm = rm] : rd \in {"r0", "r4", "pc"}, rm \in {"r0", "r4"}}
            \union {Plain}
    IN  unconditional \union {[i EXCEPT !.cond = TRUE] : i \in unconditional}

ThumbInsns ==
    {Insn(op, 2, "r4", off) : op \in {"b", "b_cond"}, off \in Halfwords}
    \union {Insn(op, 2, rd, off) : op \in {"cbz", "cbnz"}, rd \in {"r0", "r4"}, off \in Halfwords \cap Nat}
    \union {Insn(op, 2, rd, off) : op \in {"ldr", "add_imm"}, rd \in {"r0", "r4"}, off \in Words \cap Nat}
    \union {[Insn(op, 2, rd, 0) EXCEPT !.rm = "pc"] : op \in {"add", "cmp", "mov"}, rd \in {"r0", "r4"}}
    \union {[Insn(op, 2, "pc", 0) EXCEPT !.rm = rm] : op \in {"add", "mov"}, rm \in {"r0", "r4"}}
    \union {[Insn(op, 4, "r4", off) EXCEPT !.looks = TRUE] : op \in {"b32", "bl32"}, off \in Halfwords}
    \union {Insn("b_cond32", 4, "r4", off) : off \in Halfwords}
    \union {Insn(op, 4, rd, off) : op \in {"ldr32", "ldrb32"}, rd \in {"r0", "r4", "pc"},
                                   off \in {-401, -8, -4, 0, 1, 2, 3, 4, 8, 101, 102, 400}}
    \union {Plain16, Plain, Mul}

\* Sequences of n with i at p, j at q, and the plain one at the others.
Code(n, plain, first, second) ==
    {[k \in 1..n |-> IF k = p THEN i ELSE IF k = q THEN j ELSE plain] :
        i \in first, j \in second, p \in 1..n, q \in 1..n}

MCPrograms ==
    {[isa |-> "arm64", addr |-> 2^22 + 8, code |-> c] :
        c \in Code(4, Plain, Arm64Insns, {Plain, Insn("adr", 4, "r4", 8)})}
    \union {[isa |-> "arm", addr |-> 4096, code |-> c] :
        c \in Code(2, Plain, ArmInsns, {Plain, Insn("add", 4, "r4", 0)})}
    \union {[isa |-> "thumb", addr |-> a, code |-> c] :
        a \in {4096, 4098},
        c \in Code(7, Plain16, ThumbInsns, {Plain16, Plain, Mul, Insn("add_imm", 2, "r4", 0)})}
MCMovSizes == {2, 3}
=============================================================================
