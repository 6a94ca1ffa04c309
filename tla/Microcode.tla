----------------------------- MODULE Microcode ------------------------------
(***************************************************************************)
(* A small machine for comparing two pieces of code that do the same thing *)
(* with different instructions.  An operation writes one value, which it   *)
(* computes from registers; code is a sequence of operations.  Values are  *)
(* kept as terms over the values the registers had before, so two pieces   *)
(* of code agree exactly when they end in the same terms.                  *)
(*                                                                         *)
(* The machine knows one condition; "when" says for which of its outcomes  *)
(* an operation runs.                                                      *)
(***************************************************************************)
EXTENDS Integers, Sequences, SequencesExt

\* r0 and r1 are the registers the rewriters borrow, r4 stands for any
\* other, xt for the one that the platform lets a call destroy.
Reg == {"r0", "r1", "r4", "lr", "xt", "v0", "v4", "flags"}
Scratch == {"xt"}

\* Terms.
Num(n) == <<"num", n>>
Page(n) == <<"page", n>>
Junk == <<"junk">>

\* What an operation may compute.
Of(r) == <<"reg", r>>
At(r) == <<"load", r>>
Half(r) == <<"loadhalf", r>>
Plus(r, s) == <<"plus", r, s>>
Compare(r, s) == <<"compare", r, s>>

Op(dst, val) == [dst |-> dst, val |-> val, when |-> BOOLEAN]
Jump(n) == Op("pc", Num(n))
Push(r) == Op("push", Of(r))
Pop(r) == Op("pop", <<r>>)
Fault == Op("fault", Junk)
If(outcomes, ops) == [k \in DOMAIN ops |-> [ops[k] EXCEPT !.when = outcomes]]

Start == [reg |-> [r \in Reg |-> <<"old", r>>], stack |-> << <<"old", "ret">> >>,
          next |-> <<"on">>, reads |-> {}, fault |-> FALSE]

\* Code that reads pc learns where it stands itself.
Value(m, r) == IF r = "pc" THEN Junk ELSE m.reg[r]

Eval(m, e) ==
    CASE e[1] = "reg" -> Value(m, e[2])
      [] e[1] = "load" -> <<"mem", Value(m, e[2])>>
      [] e[1] = "loadhalf" -> <<"half", Value(m, e[2])>>
      [] e[1] = "plus" -> <<"sum", {Value(m, e[2]), Value(m, e[3])}>>
      [] e[1] = "compare" -> <<"compare", Value(m, e[2]), Value(m, e[3])>>
      [] OTHER -> e

Reads(m, e) == IF e[1] \in {"load", "loadhalf"} THEN {Value(m, e[2])} ELSE {}

Effect(m, op) ==
    CASE op.dst = "pc" -> [m EXCEPT !.next = Eval(m, op.val), !.reads = @ \union Reads(m, op.val)]
      [] op.dst = "push" -> [m EXCEPT !.stack = Append(@, Eval(m, op.val))]
      [] op.dst = "pop" -> [m EXCEPT !.reg[op.val[1]] = Last(m.stack), !.stack = Front(@)]
      [] op.dst = "touch" -> [m EXCEPT !.reads = @ \union {op.val}]
      [] op.dst = "fault" -> [m EXCEPT !.fault = TRUE]
      [] OTHER -> [m EXCEPT !.reg[op.dst] = Eval(m, op.val), !.reads = @ \union Reads(m, op.val)]

\* The code runs on until it jumps, and the rest of it is not reached.
Execute(m, op, outcome) == IF m.next = <<"on">> /\ outcome \in op.when THEN Effect(m, op) ELSE m
Run(ops, outcome) ==
    LET after[n \in 0..Len(ops)] == IF n = 0 THEN Start ELSE Execute(after[n - 1], ops[n], outcome)
    IN  after[Len(ops)]

Outcome(ops, outcome) ==
    LET m == Run(ops, outcome) IN [m EXCEPT !.reg = [r \in Reg \ Scratch |-> m.reg[r]]]

Agree(ops, others) == \A outcome \in BOOLEAN : Outcome(ops, outcome) = Outcome(others, outcome)

\* The places execution goes to, at once or when a callee returns.
Destinations(ops) ==
    UNION {LET m == Run(ops, outcome) IN {m.next, m.reg["lr"], Last(m.stack)} : outcome \in BOOLEAN}

-----------------------------------------------------------------------------
\* An instruction as it stands in memory.  The registers of the rewriters and
\* r4 are those an instruction may name, with pc.  looks: its second halfword, taken
\* alone, reads as the first of a 32-bit Thumb instruction.
General == {"r0", "r1", "r4"}
Instruction == [op : STRING, width : {2, 4}, rd : Reg \union {"pc"}, rm : Reg \union {"pc"}, off : Int,
                cond : BOOLEAN, looks : BOOLEAN]
Insn(op, width, rd, off) ==
    [op |-> op, width |-> width, rd |-> rd, rm |-> "r4", off |-> off,
     cond |-> FALSE, looks |-> FALSE]

\* What a rewriter puts into the trampoline for an instruction.
EmitCode == [copied |-> TRUE, ops |-> <<>>]
Emit(ops) == [copied |-> FALSE, ops |-> ops]

RoundDown(x, n) == x - (x % n)
Nowhere == {-1}
=============================================================================
