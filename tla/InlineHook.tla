----------------------------- MODULE InlineHook -----------------------------
(***************************************************************************)
(* An inline hook: the first bytes of a function are replaced by a jump,   *)
(* and a trampoline is built from the instructions that stood there, so    *)
(* that the function can still be called as it was.  A trampoline is as    *)
(* good as the function when each instruction in it does what the original *)
(* did, at its new place, and when it goes on behind the patch.            *)
(*                                                                         *)
(* The trampoline is built before the patch is written, and no other       *)
(* thread knows of it until the end: the steps have no other actor.        *)
(***************************************************************************)
EXTENDS Microcode, FiniteSetsExt

A64 == INSTANCE Arm64Rewriter
A32 == INSTANCE ArmRewriter
T32 == INSTANCE ThumbRewriter

CONSTANTS
    Programs,   \* what may be hooked: [isa, addr, code], code being a sequence
    MovSizes    \* the instructions of Mov(xTarget, n) on arm64

ASSUME InlineHookAssumption ==
    /\ \A p \in Programs :
        /\ p.isa \in {"arm64", "arm", "thumb"} /\ p.addr \in Nat /\ p.addr % 2 = 0
        /\ p.code \in Seq(Instruction)
        /\ \A k \in DOMAIN p.code : CASE p.isa = "arm64" -> A64!Encodes(p.code[k])
                                      [] p.isa = "arm" -> A32!Encodes(p.code[k])
                                      [] p.isa = "thumb" -> T32!Encodes(p.code[k])
    /\ MovSizes \subseteq 1..4

VARIABLES
    program,    \* the function, as it stands before the hook
    size,       \* backup_size: the bytes behind address_ that are backed up
    patch,      \* the bytes the jump to the replacement takes
    index,      \* the bytes the rewriter has gone through
    out,        \* the trampoline: what it has for each instruction, and where
    phase

inlineVars == <<program, size, patch, index, out, phase>>

-----------------------------------------------------------------------------
isa == program.isa
address == program.addr
code == program.code
tail == address + size

\* Where the k-th instruction of the function begins, counted from address_.
Begins(k) ==
    LET place[n \in 1..(Len(code) + 1)] == IF n = 1 THEN 0 ELSE place[n - 1] + code[n - 1].width
    IN  place[k]
Ends(k) == Begins(k) + code[k].width

\* Is32BitThumbInstruction of the halfword at this place: it looks at that
\* halfword alone, which may be the second one of an instruction.
Is32Bit(place) ==
    \E k \in DOMAIN code : code[k].width = 4 /\ \/ Begins(k) = place
                                                \/ Begins(k) + 2 = place /\ code[k].looks

\* The size of the jump: an optional nop, ldr pc and the literal, or a move
\* and a branch.
JumpSizes ==
    CASE isa = "arm64" -> {4 * (n + 1) : n \in MovSizes}
      [] isa = "arm" -> {8}
      [] isa = "thumb" -> {IF address % 4 # 0 THEN 10 ELSE 8}

\* One more halfword, when the last one begins an instruction of 32 bits.
BackupSize_Same(n) == n

BackupSize(n) ==
    IF isa = "thumb" /\ ~Is32Bit(n - 4) /\ Is32Bit(n - 2) THEN n + 2 ELSE n

StartHook ==
    /\ phase = "start"
    /\ \E n \in JumpSizes : patch' = n /\ size' = BackupSize(n)
    /\ phase' = "rewrite"
    /\ UNCHANGED <<program, index, out>>

Rewritten(i, pc) ==
    CASE isa = "arm64" -> A64!Rewrite(i, pc, tail)
      [] isa = "arm" -> A32!RewriteArm(i, pc, tail)
      [] isa = "thumb" -> T32!RewriteThumb(i, pc, tail)

\* An instruction that is not copied takes more room than it had: a move of
\* an address is a movw and a movt.
Room(r, i) == IF r.copied THEN i.width ELSE 8

Place == IF out = <<>> THEN 0 ELSE Last(out).place + Last(out).room

\* The decoder and the handler for the instruction at index.
RewriteInsn ==
    /\ phase = "rewrite" /\ index < size
    /\ \E k \in DOMAIN code :
           /\ Begins(k) = index
           /\ LET r == Rewritten(code[k], address + index)
              IN  out' = Append(out, [insn |-> code[k], pc |-> address + index, place |-> Place,
                                      room |-> Room(r, code[k]), relocated |-> r])
           /\ index' = index + code[k].width
    /\ UNCHANGED <<program, size, patch, phase>>

\* The jump to tail closes the trampoline, and the patch is written.
Finish ==
    /\ phase = "rewrite" /\ index >= size
    /\ phase' = "hooked"
    /\ UNCHANGED <<program, size, patch, index, out>>

InlineInit ==
    /\ program \in Programs
    /\ size = 0 /\ patch = 0 /\ index = 0 /\ out = <<>> /\ phase = "start"

InlineNext == StartHook \/ RewriteInsn \/ Finish

InlineSpec == InlineInit /\ [][InlineNext]_inlineVars

-----------------------------------------------------------------------------
\* What calling the trampoline does.

Meaning(i, pc) ==
    CASE isa = "arm64" -> A64!Meaning(i, pc)
      [] isa = "arm" -> A32!Meaning(i, pc)
      [] isa = "thumb" -> T32!Meaning(i, pc)

Anchors(i, pc) ==
    CASE isa = "arm64" -> A64!Anchors(i, pc)
      [] isa = "arm" -> A32!Anchors(i, pc)
      [] isa = "thumb" -> T32!Anchors(i, pc)

Expands(i, pc) ==
    CASE isa = "arm64" -> A64!Expands(i, pc, tail)
      [] isa = "arm" -> A32!Expands(i, pc, tail)
      [] isa = "thumb" -> T32!Expands(i, pc, tail)

\* The place in the trampoline of what stood at n: an instruction, a byte
\* that was copied, or the end.
Moved(n) ==
    {e.place : e \in {x \in Range(out) : x.pc = n}}
    \union {e.place + n - e.pc :
            e \in {x \in Range(out) : x.relocated.copied /\ x.pc < n /\ n < x.pc + x.insn.width}}
    \union (IF n = tail THEN {Place} ELSE {})

\* What the offset of an instruction counts from, as far as places differ.
Base(i, pc) == IF isa = "thumb" /\ i.op \in T32!ReadsWordAligned THEN RoundDown(pc, 4) ELSE pc

\* A copy is good when what it refers to is as far away as it was.
Stays(e) ==
    \A n \in Anchors(e.insn, e.pc) : Base(e.insn, e.place) + n - Base(e.insn, e.pc) \in Moved(n)

\* Code is good when it ends as the original does, and never leads back to
\* the bytes that the patch has replaced.
Faithful(e) ==
    IF e.relocated.copied THEN Stays(e)
    ELSE /\ Agree(e.relocated.ops, Meaning(e.insn, e.pc))
         /\ \A n \in address..(tail - 1) : Num(n) \notin Destinations(e.relocated.ops)

Whole == \E k \in DOMAIN code : Ends(k) = size

Hooked == phase = "hooked"

-----------------------------------------------------------------------------
\* A copied instruction refers to a place between the beginning of the backup
\* and its end, and everything from one to the other was copied.
Undisturbed(e) ==
    \A n \in Anchors(e.insn, e.pc) :
        /\ n \in address..tail
        /\ \A x \in Range(out) : Min({n, e.pc}) < x.pc + x.insn.width /\ x.pc < Max({n, e.pc})
                                  => x.relocated.copied
        /\ (isa = "thumb" /\ e.insn.op \in T32!ReadsWordAligned) => e.place % 4 = e.pc % 4

\* The instructions that work in the trampoline are known: a copy whose target
\* is in the backup with nothing longer in between (and, for a literal, which
\* stands as it stood to the word), or one of those that Expands lists.  All
\* others the handlers of the rewriters get wrong, without a word.
SupportIsExact ==
    Hooked => \A e \in Range(out) :
        Faithful(e) <=> IF e.relocated.copied THEN Undisturbed(e) ELSE Expands(e.insn, e.pc)

\* The backup ends where an instruction ends, unless the last halfword but one
\* is the second of an instruction and looks like the first of one: StartHook
\* of ArmInlineHook takes that halfword for an instruction.  Only then do the
\* rewriter and the iterator read behind the backup.
WindowIsWhole ==
    Hooked => \/ Whole /\ index = size
              \/ /\ isa = "thumb" /\ size = patch /\ index = size + 2
                 /\ \E k \in DOMAIN code : code[k].looks /\ Ends(k) = size - 2
=============================================================================
