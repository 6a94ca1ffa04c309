------------------------- MODULE InlineHook_proofs --------------------------
(***************************************************************************)
(* Theorems about InlineHook, for any functions at any addresses: first    *)
(* where the backup ends; then which copies still find what they refer to; *)
(* then, by running them on the machine of Microcode, which expansions do  *)
(* what the instruction did.                                               *)
(***************************************************************************)
EXTENDS InlineHook, SequenceTheorems, WellFoundedInduction, TLAPS

-----------------------------------------------------------------------------
(* Induction                                                               *)

\* The order of the naturals.
Less == {ss \in Nat \X Nat : ss[1] < ss[2]}

\* Induction over the naturals, with a set for the predicate.
LEMMA NatInductiveSet ==
    ASSUME NEW T, 0 \in T, \A n \in Nat : n \in T => n + 1 \in T
    PROVE  Nat \subseteq T
<1> DEFINE Bad == Nat \ T
<1> SUFFICES ASSUME Bad # {} PROVE FALSE
  OBVIOUS
<1>1. IsWellFoundedOn(Less, Nat)
  BY NatLessThanWellFounded DEF OpToRel, Less
<1>2. PICK x \in Bad : \A y \in Bad : <<y, x>> \notin Less
  <2>1. Bad \subseteq Nat
    OBVIOUS
  <2> HIDE DEF Bad
  <2> QED BY <1>1, <2>1, WFMin
<1>3. x \in Nat /\ x \notin T /\ x # 0
  OBVIOUS
<1>4. x - 1 \in Nat /\ x - 1 < x /\ (x - 1) + 1 = x
  BY <1>3
<1>5. <<x - 1, x>> \in Less
  BY <1>3, <1>4 DEF Less
<1>6. x - 1 \in T
  BY <1>2, <1>4, <1>5
<1> QED BY <1>3, <1>4, <1>6

-----------------------------------------------------------------------------
(* The functions that are hooked                                           *)

\* What the assumption says of the function.
LEMMA ProgramFacts ==
    ASSUME program \in Programs
    PROVE  /\ isa \in {"arm64", "arm", "thumb"} /\ address \in Nat /\ address % 2 = 0
           /\ code \in Seq(Instruction)
           /\ \A k \in DOMAIN code :
                 /\ isa = "arm64" => A64!Encodes(code[k])
                 /\ isa = "arm" => A32!Encodes(code[k])
                 /\ isa = "thumb" => T32!Encodes(code[k])
<1>1. /\ program.isa \in {"arm64", "arm", "thumb"} /\ program.addr \in Nat /\ program.addr % 2 = 0
      /\ program.code \in Seq(Instruction)
  BY InlineHookAssumption DEF InlineHookAssumption
<1>2. ASSUME NEW k \in DOMAIN program.code
      PROVE  CASE program.isa = "arm64" -> A64!Encodes(program.code[k])
               [] program.isa = "arm" -> A32!Encodes(program.code[k])
               [] program.isa = "thumb" -> T32!Encodes(program.code[k])
  BY InlineHookAssumption DEF InlineHookAssumption
<1>3. ASSUME NEW k \in DOMAIN program.code
      PROVE  /\ program.isa = "arm64" => A64!Encodes(program.code[k])
             /\ program.isa = "arm" => A32!Encodes(program.code[k])
             /\ program.isa = "thumb" => T32!Encodes(program.code[k])
  BY <1>1, <1>2
<1> QED BY <1>1, <1>3 DEF isa, address, code

\* The places of the first n instructions come about one after another.
PlacedTo(f, n) == f[1] = 0 /\ \A i \in 2..n : f[i] = f[i - 1] + code[i - 1].width

\* There is a function as Begins declares it.
LEMMA PlacesExist ==
    ASSUME code \in Seq(Instruction)
    PROVE  \E f : PlacedTo(f, Len(code) + 1) /\ f = [n \in 1..(Len(code) + 1) |-> f[n]]
<1> DEFINE T == {n \in Nat : \E f : PlacedTo(f, n + 1) /\ f = [i \in 1..(n + 1) |-> f[i]]}
<1>1. 0 \in T
  <2> DEFINE f == [i \in 1..(0 + 1) |-> 0]
  <2>1. f[1] = 0 /\ f = [i \in 1..(0 + 1) |-> f[i]]
    OBVIOUS
  <2>2. 2..(0 + 1) = {}
    OBVIOUS
  <2> HIDE DEF f
  <2>3. PlacedTo(f, 0 + 1)
    BY <2>1, <2>2 DEF PlacedTo
  <2> QED BY <2>1, <2>3
<1>2. ASSUME NEW n \in Nat, n \in T PROVE n + 1 \in T
  <2>1. PICK f : PlacedTo(f, n + 1) /\ f = [i \in 1..(n + 1) |-> f[i]]
    BY <1>2
  <2> DEFINE m == n + 1 + 1
             g == [i \in 1..m |-> IF i = m THEN f[m - 1] + code[m - 1].width ELSE f[i]]
  <2>2. g = [i \in 1..m |-> g[i]]
    OBVIOUS
  <2>3. g[1] = 0
    BY <2>1 DEF PlacedTo
  <2>4. ASSUME NEW i \in 2..m PROVE g[i] = g[i - 1] + code[i - 1].width
    <3>1. CASE i = m
      BY <3>1
    <3>2. CASE i # m
      <4>1. i \in 2..(n + 1) /\ i \in 1..m /\ i - 1 \in 1..m /\ i - 1 # m
        BY <3>2
      <4>2. f[i] = f[i - 1] + code[i - 1].width
        BY <2>1, <4>1 DEF PlacedTo
      <4>3. g[i] = f[i] /\ g[i - 1] = f[i - 1]
        BY <3>2, <4>1
      <4> QED BY <4>2, <4>3
    <3> QED BY <3>1, <3>2
  <2> HIDE DEF g
  <2>5. PlacedTo(g, m)
    BY <2>3, <2>4 DEF PlacedTo
  <2> QED BY <2>2, <2>5
<1>3. Nat \subseteq T
  <2> HIDE DEF T
  <2> QED BY <1>1, <1>2, NatInductiveSet
<1>4. Len(code) \in T
  <2> HIDE DEF T
  <2> QED BY <1>3
<1> QED BY <1>4

\* An instruction begins where the one before it ends.
LEMMA BeginsUnfolds ==
    ASSUME code \in Seq(Instruction)
    PROVE  /\ Begins(1) = 0
           /\ \A k \in DOMAIN code : Begins(k + 1) = Begins(k) + code[k].width
<1> DEFINE n == Len(code) + 1
           place[k \in 1..n] == IF k = 1 THEN 0 ELSE place[k - 1] + code[k - 1].width
<1>0. n \in Nat /\ n > 0 /\ DOMAIN code = 1..(n - 1)
  OBVIOUS
<1>1. \A k : Begins(k) = place[k]
  BY DEF Begins
<1>2. PICK f : PlacedTo(f, n) /\ f = [k \in 1..n |-> f[k]]
  BY PlacesExist
<1>3. ASSUME NEW k \in 1..n PROVE f[k] = IF k = 1 THEN 0 ELSE f[k - 1] + code[k - 1].width
  <2>1. k # 1 => k \in 2..n
    BY <1>0
  <2> QED BY <1>2, <2>1 DEF PlacedTo
<1>4. f = [k \in 1..n |-> IF k = 1 THEN 0 ELSE f[k - 1] + code[k - 1].width]
  BY <1>2, <1>3
<1>5. place = [k \in 1..n |-> IF k = 1 THEN 0 ELSE place[k - 1] + code[k - 1].width]
  BY <1>4, Zenon
<1> HIDE DEF place
<1>6. ASSUME NEW k \in 1..n PROVE place[k] = IF k = 1 THEN 0 ELSE place[k - 1] + code[k - 1].width
  BY <1>5, Zenon
<1>7. place[1] = 0
  <2>1. 1 \in 1..n
    BY <1>0
  <2> QED BY <1>6, <2>1
<1>8. ASSUME NEW k \in DOMAIN code PROVE place[k + 1] = place[k] + code[k].width
  <2>1. k + 1 \in 1..n /\ k + 1 # 1 /\ (k + 1) - 1 = k
    BY <1>0
  <2> QED BY <1>6, <2>1
<1> QED BY <1>1, <1>7, <1>8

\* Instructions take room, so they do not overlap.
LEMMA BeginsGrows ==
    ASSUME code \in Seq(Instruction)
    PROVE  /\ \A k \in 1..(Len(code) + 1) : Begins(k) \in Nat /\ Begins(k) % 2 = 0
           /\ \A k \in DOMAIN code : code[k].width \in {2, 4} /\ Ends(k) = Begins(k + 1)
           /\ \A k, l \in 1..(Len(code) + 1) : k < l => Begins(k) + code[k].width <= Begins(l)
<1> DEFINE n == Len(code) + 1
<1>0. n \in Nat /\ DOMAIN code = 1..(n - 1)
  OBVIOUS
<1>1. ASSUME NEW k \in DOMAIN code PROVE code[k].width \in {2, 4}
  <2>1. code[k] \in Instruction
    OBVIOUS
  <2> QED BY <2>1 DEF Instruction
<1>2. /\ Begins(1) = 0
      /\ \A k \in DOMAIN code : Begins(k + 1) = Begins(k) + code[k].width
  BY BeginsUnfolds
<1> DEFINE T == {l \in Nat : l + 1 <= n =>
                    /\ \A k \in 1..(l + 1) : Begins(k) \in Nat /\ Begins(k) % 2 = 0
                    /\ \A k \in 1..l : Begins(k) + code[k].width <= Begins(l + 1)}
<1> HIDE DEF n
<1>3. 0 \in T
  BY <1>2
<1>4. ASSUME NEW l \in Nat, l \in T PROVE l + 1 \in T
  <2> SUFFICES ASSUME (l + 1) + 1 <= n
               PROVE  /\ \A k \in 1..((l + 1) + 1) : Begins(k) \in Nat /\ Begins(k) % 2 = 0
                      /\ \A k \in 1..(l + 1) : Begins(k) + code[k].width <= Begins((l + 1) + 1)
    OBVIOUS
  <2>1. /\ \A k \in 1..(l + 1) : Begins(k) \in Nat /\ Begins(k) % 2 = 0
        /\ \A k \in 1..l : Begins(k) + code[k].width <= Begins(l + 1)
    BY <1>0, <1>4
  <2>2. l + 1 \in DOMAIN code
    BY <1>0
  <2>3. Begins((l + 1) + 1) = Begins(l + 1) + code[l + 1].width /\ code[l + 1].width \in {2, 4}
    BY <1>1, <1>2, <2>2
  <2>4. Begins(l + 1) \in Nat /\ Begins(l + 1) % 2 = 0
    BY <2>1
  <2>5. Begins((l + 1) + 1) \in Nat /\ Begins((l + 1) + 1) % 2 = 0
    BY <2>3, <2>4
  <2>6. ASSUME NEW k \in 1..((l + 1) + 1) PROVE Begins(k) \in Nat /\ Begins(k) % 2 = 0
    <3>1. k = (l + 1) + 1 \/ k \in 1..(l + 1)
      OBVIOUS
    <3> QED BY <2>1, <2>5, <3>1
  <2>7. ASSUME NEW k \in 1..(l + 1) PROVE Begins(k) + code[k].width <= Begins((l + 1) + 1)
    <3>1. CASE k = l + 1
      BY <2>3, <2>4, <3>1
    <3>2. CASE k \in 1..l
      <4>1. k \in DOMAIN code /\ k \in 1..(l + 1)
        BY <1>0, <3>2
      <4>2. Begins(k) \in Nat /\ code[k].width \in {2, 4}
        BY <1>1, <2>1, <4>1
      <4>3. Begins(k) + code[k].width <= Begins(l + 1)
        BY <2>1, <3>2
      <4> QED BY <2>3, <2>4, <4>2, <4>3, SMTT(30)
    <3>3. k = l + 1 \/ k \in 1..l
      OBVIOUS
    <3> QED BY <3>1, <3>2, <3>3
  <2> QED BY <2>6, <2>7
<1>5. Nat \subseteq T
  <2> HIDE DEF T
  <2> QED BY <1>3, <1>4, NatInductiveSet
<1>6. ASSUME NEW k \in 1..n PROVE Begins(k) \in Nat /\ Begins(k) % 2 = 0
  <2>1. k - 1 \in Nat /\ (k - 1) + 1 = k /\ k <= n
    BY <1>0
  <2>2. k - 1 \in T
    BY <1>5, <2>1
  <2>3. k \in 1..((k - 1) + 1) /\ (k - 1) + 1 <= n
    BY <2>1
  <2> QED BY <2>2, <2>3
<1>7. ASSUME NEW k \in 1..n, NEW l \in 1..n, k < l PROVE Begins(k) + code[k].width <= Begins(l)
  <2>1. l - 1 \in Nat /\ (l - 1) + 1 = l /\ l <= n /\ k \in 1..(l - 1)
    BY <1>0, <1>7
  <2>2. l - 1 \in T
    BY <1>5, <2>1
  <2> QED BY <2>1, <2>2
<1>8. ASSUME NEW k \in DOMAIN code PROVE Ends(k) = Begins(k + 1)
  BY <1>2 DEF Ends
<1> QED BY <1>1, <1>6, <1>7, <1>8 DEF n

\* No two instructions begin at one place.
LEMMA BeginsOnce ==
    ASSUME code \in Seq(Instruction),
           NEW k \in 1..(Len(code) + 1), NEW l \in 1..(Len(code) + 1), Begins(k) = Begins(l)
    PROVE  k = l
<1>0. Len(code) \in Nat /\ DOMAIN code = 1..Len(code)
  OBVIOUS
<1>1. ASSUME NEW i \in 1..(Len(code) + 1), NEW j \in 1..(Len(code) + 1), i < j
      PROVE  Begins(i) # Begins(j)
  <2>1. i \in DOMAIN code
    BY <1>0, <1>1
  <2>2. code[i].width \in {2, 4} /\ Begins(i) \in Nat /\ Begins(j) \in Nat
    BY <2>1, BeginsGrows
  <2>3. Begins(i) + code[i].width <= Begins(j)
    BY <1>1, BeginsGrows
  <2> QED BY <2>2, <2>3
<1>2. ~(k < l) /\ ~(l < k)
  BY <1>1
<1> QED BY <1>0, <1>2

-----------------------------------------------------------------------------
(* The inductive invariant                                                 *)

\* What the trampoline has for the k-th instruction, when it stands at n.
Entry(k, n) ==
    LET site == address + Begins(k)
        r == Rewritten(code[k], site)
    IN  [insn |-> code[k], pc |-> site, place |-> n, room |-> Room(r, code[k]), relocated |-> r]
Entries == {Entry(k, n) : k \in DOMAIN code, n \in Nat}

\* The rewriter goes through the instructions in their order, and puts what it
\* has for one behind what it has for the one before; it does not go on behind
\* the backup.
TraceInv ==
    /\ out \in Seq(Entries) /\ Len(out) <= Len(code)
    /\ index = Begins(Len(out) + 1)
    /\ \A k \in DOMAIN out :
          /\ out[k] = Entry(k, out[k].place)
          /\ out[k].place = IF k = 1 THEN 0 ELSE out[k - 1].place + out[k - 1].room
          /\ Begins(k) < size

InlineInv ==
    /\ program \in Programs /\ phase \in {"start", "rewrite", "hooked"}
    /\ phase = "start" => out = <<>>
    /\ phase # "start" => patch \in JumpSizes /\ size = BackupSize(patch)
    /\ phase = "hooked" => index >= size
    /\ TraceInv

\* An entry has the fields it is made of.
LEMMA EntryFields ==
    ASSUME code \in Seq(Instruction), address \in Nat, NEW k \in DOMAIN code, NEW n \in Nat
    PROVE  LET e == Entry(k, n) IN
           /\ e.insn = code[k] /\ e.pc = address + Begins(k) /\ e.place = n
           /\ e.relocated = Rewritten(code[k], address + Begins(k))
           /\ e.room = (IF e.relocated.copied THEN code[k].width ELSE 8)
           /\ e.room \in {2, 4, 8}
           /\ e \in Entries
<1> DEFINE r == Rewritten(code[k], address + Begins(k))
<1>1. Entry(k, n) = [insn |-> code[k], pc |-> address + Begins(k), place |-> n,
                     room |-> Room(r, code[k]), relocated |-> r]
  BY DEF Entry
<1>2. code[k].width \in {2, 4}
  BY BeginsGrows
<1>3. Room(r, code[k]) = IF r.copied THEN code[k].width ELSE 8
  BY DEF Room
<1>4. Entry(k, n) \in Entries
  BY DEF Entries
<1> HIDE DEF r
<1> QED BY <1>1, <1>2, <1>3, <1>4 DEF r

\* Nothing is hooked in the beginning.
LEMMA InlineInitInv == InlineInit => InlineInv
<1> SUFFICES ASSUME InlineInit PROVE InlineInv
  OBVIOUS
<1>1. program \in Programs /\ phase = "start" /\ out = <<>> /\ index = 0
  BY DEF InlineInit
<1>2. code \in Seq(Instruction)
  BY <1>1, ProgramFacts
<1>3. Begins(1) = 0 /\ Len(code) \in Nat
  BY <1>2, BeginsUnfolds
<1>4. out \in Seq(Entries) /\ Len(out) = 0 /\ DOMAIN out = {}
  BY <1>1
<1>5. TraceInv
  BY <1>1, <1>3, <1>4 DEF TraceInv
<1> QED BY <1>1, <1>5 DEF InlineInv

\* Begins is about the function, which stays as it is.
LEMMA FunctionStays ==
    ASSUME UNCHANGED program
    PROVE  /\ isa' = isa /\ address' = address /\ code' = code
           /\ \A k : Begins(k)' = Begins(k)
<1>1. program' = program
  OBVIOUS
<1>2. isa' = isa /\ address' = address /\ code' = code
  BY <1>1 DEF isa, address, code
<1> QED BY <1>2 DEF Begins

\* What StartHook backs up is what the jump takes, or one halfword more.
LEMMA StartHookStep == ASSUME InlineInv, StartHook PROVE InlineInv'
<1>1. program \in Programs /\ phase = "start" /\ out = <<>> /\ phase' = "rewrite"
  BY DEF InlineInv, StartHook
<1>2. UNCHANGED program /\ UNCHANGED index /\ out' = <<>>
  BY <1>1 DEF StartHook
<1>3. isa' = isa /\ address' = address /\ code' = code /\ \A k : Begins(k)' = Begins(k)
  BY <1>2, FunctionStays
<1>4. patch' \in JumpSizes /\ size' = BackupSize(patch')
  BY DEF StartHook
<1>5. patch' \in JumpSizes'
  BY <1>3, <1>4 DEF JumpSizes
<1>6. size' = BackupSize(patch)'
  <2>1. \A n : Is32Bit(n)' = Is32Bit(n)
    BY <1>3 DEF Is32Bit
  <2> QED BY <1>3, <1>4, <2>1 DEF BackupSize
<1>7. TraceInv'
  <2>1. index = Begins(Len(out) + 1) /\ Len(out) = 0 /\ Len(out) <= Len(code)
    BY <1>1 DEF InlineInv, TraceInv
  <2>2. Len(out') = 0 /\ Len(out') <= Len(code') /\ DOMAIN out' = {} /\ out' \in Seq(Entries')
    BY <1>1, <1>2, <1>3, <2>1
  <2>3. index' = Begins(Len(out) + 1)'
    BY <1>2, <1>3, <2>1, <2>2
  <2> QED BY <2>2, <2>3 DEF TraceInv
<1> QED BY <1>1, <1>2, <1>5, <1>6, <1>7 DEF InlineInv

\* While only the trampoline and the index change, entries stay what they are.
LEMMA EntriesStay ==
    ASSUME UNCHANGED <<program, size>>
    PROVE  /\ \A i, site : Rewritten(i, site)' = Rewritten(i, site)
           /\ \A k, n : Entry(k, n)' = Entry(k, n)
           /\ Entries' = Entries
<1>1. isa' = isa /\ address' = address /\ code' = code /\ \A k : Begins(k)' = Begins(k)
  BY FunctionStays
<1>2. tail' = tail
  BY <1>1 DEF tail
<1>3. \A i, site : Rewritten(i, site)' = Rewritten(i, site)
  BY <1>1, <1>2 DEF Rewritten
<1>4. \A k, n : Entry(k, n)' = Entry(k, n)
  BY <1>1, <1>3 DEF Entry
<1> QED BY <1>1, <1>3, <1>4 DEF Entries

\* The instruction at index is the next one, and its entry is put at the end.
LEMMA RewriteInsnStep == ASSUME InlineInv, RewriteInsn PROVE InlineInv'
<1>1. /\ program \in Programs /\ phase = "rewrite" /\ index < size
      /\ UNCHANGED <<program, size, patch, phase>>
  BY DEF InlineInv, RewriteInsn
<1>2. /\ isa' = isa /\ address' = address /\ code' = code /\ \A k : Begins(k)' = Begins(k)
      /\ \A k, n : Entry(k, n)' = Entry(k, n)
      /\ Entries' = Entries
  BY <1>1, FunctionStays, EntriesStay
<1>3. code \in Seq(Instruction) /\ address \in Nat
  BY <1>1, ProgramFacts
<1> DEFINE m == Len(out)
<1>4. /\ out \in Seq(Entries) /\ m \in Nat /\ m <= Len(code) /\ index = Begins(m + 1)
      /\ DOMAIN out = 1..m /\ DOMAIN code = 1..Len(code) /\ Len(code) \in Nat
  BY <1>3 DEF InlineInv, TraceInv
<1>5. PICK k \in DOMAIN code :
         /\ Begins(k) = index
         /\ out' = Append(out, [insn |-> code[k], pc |-> address + index, place |-> Place,
                                room |-> Room(Rewritten(code[k], address + index), code[k]),
                                relocated |-> Rewritten(code[k], address + index)])
         /\ index' = index + code[k].width
  BY DEF RewriteInsn
<1>6. k = m + 1
  <2>1. k \in 1..(Len(code) + 1) /\ m + 1 \in 1..(Len(code) + 1)
    BY <1>4
  <2> QED BY <1>3, <1>4, <1>5, <2>1, BeginsOnce
<1>7. Place \in Nat /\ Place = IF m = 0 THEN 0 ELSE out[m].place + out[m].room
  <2>1. CASE m = 0
    <3>1. out = <<>>
      BY <1>4, <2>1
    <3> QED BY <2>1, <3>1 DEF Place
  <2>2. CASE m # 0
    <3>1. out # <<>> /\ m \in DOMAIN out /\ Last(out) = out[m]
      BY <1>4, <2>2 DEF Last
    <3>2. out[m] \in Entries
      BY <1>4, <3>1
    <3>3. PICK i \in DOMAIN code, n \in Nat : out[m] = Entry(i, n)
      BY <3>2 DEF Entries
    <3>4. out[m].place \in Nat /\ out[m].room \in {2, 4, 8}
      BY <1>3, <3>3, EntryFields
    <3> QED BY <2>2, <3>1, <3>4 DEF Place
  <2> QED BY <2>1, <2>2
<1>8. out' = Append(out, Entry(m + 1, Place))
  BY <1>5, <1>6 DEF Entry
<1>9. Entry(m + 1, Place) \in Entries
  BY <1>5, <1>6, <1>7 DEF Entries
<1>10. /\ out' \in Seq(Entries) /\ Len(out') = m + 1 /\ out'[m + 1] = Entry(m + 1, Place)
       /\ \A i \in 1..m : out'[i] = out[i]
       /\ DOMAIN out' = 1..(m + 1)
  BY <1>4, <1>8, <1>9
<1>11. index' = Begins(m + 1 + 1) /\ m + 1 <= Len(code)
  <2>1. \A i \in DOMAIN code : Begins(i + 1) = Begins(i) + code[i].width
    BY <1>3, BeginsUnfolds
  <2> QED BY <1>4, <1>5, <1>6, <2>1
<1>12. ASSUME NEW i \in 1..(m + 1)
       PROVE  /\ out'[i] = Entry(i, out'[i].place)
              /\ out'[i].place = IF i = 1 THEN 0 ELSE out'[i - 1].place + out'[i - 1].room
              /\ Begins(i) < size
  <2>1. CASE i \in 1..m
    <3>1. /\ out[i] = Entry(i, out[i].place)
          /\ out[i].place = IF i = 1 THEN 0 ELSE out[i - 1].place + out[i - 1].room
          /\ Begins(i) < size
      BY <1>4, <2>1 DEF InlineInv, TraceInv
    <3>2. out'[i] = out[i] /\ (i # 1 => out'[i - 1] = out[i - 1])
      BY <1>4, <1>10, <2>1
    <3> QED BY <3>1, <3>2
  <2>2. CASE i = m + 1
    <3>1. out'[i].place = Place
      BY <1>3, <1>5, <1>6, <1>7, <1>10, <2>2, EntryFields
    <3>2. out'[i] = Entry(i, out'[i].place)
      BY <1>10, <2>2, <3>1
    <3>3. i # 1 => out'[i - 1] = out[m] /\ i - 1 = m
      BY <1>4, <1>10, <2>2
    <3> QED BY <1>1, <1>4, <1>7, <2>2, <3>1, <3>2, <3>3
  <2>3. i \in 1..m \/ i = m + 1
    BY <1>4
  <2> QED BY <2>1, <2>2, <2>3
<1>13. TraceInv'
  BY <1>1, <1>2, <1>10, <1>11, <1>12 DEF TraceInv
<1>14. patch' \in JumpSizes' /\ size' = BackupSize(patch)'
  <2>1. patch \in JumpSizes /\ size = BackupSize(patch)
    BY <1>1 DEF InlineInv
  <2>2. \A n : Is32Bit(n)' = Is32Bit(n)
    BY <1>2 DEF Is32Bit
  <2>3. BackupSize(patch)' = BackupSize(patch) /\ JumpSizes' = JumpSizes
    BY <1>1, <1>2, <2>2 DEF BackupSize, JumpSizes
  <2> QED BY <1>1, <2>1, <2>3
<1> QED BY <1>1, <1>13, <1>14 DEF InlineInv

\* When the rewriter ends, and when nothing happens.
LEMMA FinishStep == ASSUME InlineInv, Finish \/ UNCHANGED inlineVars PROVE InlineInv'
<1>1. UNCHANGED <<program, size, patch, index, out>>
  BY DEF Finish, inlineVars
<1>2. \/ phase = "rewrite" /\ index >= size /\ phase' = "hooked"
      \/ phase' = phase
  BY DEF Finish, inlineVars
<1>3. /\ isa' = isa /\ address' = address /\ code' = code /\ \A k : Begins(k)' = Begins(k)
      /\ \A k, n : Entry(k, n)' = Entry(k, n)
      /\ Entries' = Entries
  BY <1>1, FunctionStays, EntriesStay
<1>4. TraceInv'
  BY <1>1, <1>3 DEF InlineInv, TraceInv
<1>5. BackupSize(patch)' = BackupSize(patch) /\ JumpSizes' = JumpSizes
  <2>1. \A n : Is32Bit(n)' = Is32Bit(n)
    BY <1>3 DEF Is32Bit
  <2> QED BY <1>1, <1>3, <2>1 DEF BackupSize, JumpSizes
<1> QED BY <1>1, <1>2, <1>4, <1>5 DEF InlineInv

\* Every step keeps the invariant.
LEMMA InlineInductive == InlineInv /\ [InlineNext]_inlineVars => InlineInv'
BY StartHookStep, RewriteInsnStep, FinishStep DEF InlineNext

\* The invariant holds from the choice of the backup to the end of the hook.
THEOREM InlineInvariance == InlineSpec => []InlineInv
<1>1. InlineInit => InlineInv
  BY InlineInitInv
<1>2. InlineInv /\ [InlineNext]_inlineVars => InlineInv'
  BY InlineInductive
<1> QED BY <1>1, <1>2, PTL DEF InlineSpec

-----------------------------------------------------------------------------
(* The end of the backup                                                   *)

\* On ARM and AArch64 all instructions are words.
LEMMA WordsBegin ==
    ASSUME code \in Seq(Instruction), \A k \in DOMAIN code : code[k].width = 4
    PROVE  \A k \in 1..(Len(code) + 1) : Begins(k) % 4 = 0
<1>0. Len(code) \in Nat /\ DOMAIN code = 1..Len(code)
  OBVIOUS
<1> DEFINE n == Len(code) + 1
           T == {l \in Nat : l + 1 <= n => Begins(l + 1) % 4 = 0}
<1>1. /\ Begins(1) = 0
      /\ \A k \in DOMAIN code : Begins(k + 1) = Begins(k) + code[k].width
  BY BeginsUnfolds
<1>2. \A k \in 1..n : Begins(k) \in Nat
  BY BeginsGrows
<1>3. 0 \in T
  BY <1>1
<1>4. ASSUME NEW l \in Nat, l \in T PROVE l + 1 \in T
  <2> SUFFICES ASSUME (l + 1) + 1 <= n PROVE Begins((l + 1) + 1) % 4 = 0
    OBVIOUS
  <2>1. l + 1 \in DOMAIN code /\ l + 1 \in 1..n /\ l + 1 <= n
    BY <1>0
  <2>2. Begins(l + 1) \in Nat /\ Begins(l + 1) % 4 = 0
    BY <1>2, <1>4, <2>1
  <2>3. Begins((l + 1) + 1) = Begins(l + 1) + 4
    BY <1>1, <2>1
  <2> QED BY <2>2, <2>3
<1>5. Nat \subseteq T
  <2> HIDE DEF T
  <2> QED BY <1>3, <1>4, NatInductiveSet
<1>6. ASSUME NEW k \in 1..n PROVE Begins(k) % 4 = 0
  <2>1. k - 1 \in Nat /\ (k - 1) + 1 = k /\ k <= n
    BY <1>0
  <2>2. k - 1 \in T
    BY <1>5, <2>1
  <2> QED BY <2>1, <2>2
<1> QED BY <1>6

\* The last instruction that was rewritten reaches the end of the backup.
LEMMA LastReaches ==
    ASSUME InlineInv, phase = "hooked"
    PROVE  LET m == Len(out) IN
           /\ m \in DOMAIN code /\ m \in DOMAIN out
           /\ Begins(m) \in Nat /\ size \in Nat /\ Begins(m) < size
           /\ index = Begins(m) + code[m].width /\ index = Ends(m) /\ size <= index
           /\ code[m].width \in {2, 4}
<1> DEFINE m == Len(out)
<1>1. code \in Seq(Instruction) /\ isa \in {"arm64", "arm", "thumb"} /\ address \in Nat
  BY ProgramFacts DEF InlineInv
<1>2. /\ out \in Seq(Entries) /\ m <= Len(code) /\ index = Begins(m + 1)
      /\ \A k \in DOMAIN out : Begins(k) < size
      /\ patch \in JumpSizes /\ size = BackupSize(patch) /\ index >= size
  BY DEF InlineInv, TraceInv
<1>3. patch \in Nat /\ patch > 0
  <2>1. CASE isa = "arm64"
    <3>1. PICK n \in MovSizes : patch = 4 * (n + 1)
      BY <1>2, <2>1 DEF JumpSizes
    <3>2. n \in 1..4
      BY InlineHookAssumption DEF InlineHookAssumption
    <3> QED BY <3>1, <3>2
  <2>2. CASE isa \in {"arm", "thumb"}
    BY <1>2, <2>2 DEF JumpSizes
  <2> QED BY <1>1, <2>1, <2>2
<1>4. size \in Nat /\ size > 0
  BY <1>2, <1>3 DEF BackupSize
<1>5. m \in Nat /\ DOMAIN out = 1..m /\ Len(code) \in Nat /\ DOMAIN code = 1..Len(code)
  BY <1>1, <1>2
<1>6. m # 0
  BY <1>1, <1>2, <1>4, BeginsUnfolds
<1>7. m \in DOMAIN code /\ m \in DOMAIN out /\ m \in 1..(Len(code) + 1)
  BY <1>2, <1>5, <1>6
<1>8. Begins(m) \in Nat /\ code[m].width \in {2, 4} /\ Ends(m) = Begins(m + 1)
  BY <1>1, <1>7, BeginsGrows
<1>9. Begins(m + 1) = Begins(m) + code[m].width
  BY <1>1, <1>7, BeginsUnfolds
<1> QED BY <1>2, <1>4, <1>7, <1>8, <1>9

\* On ARM and AArch64 the backup consists of words.
LEMMA WordsWhole ==
    ASSUME InlineInv, phase = "hooked", isa # "thumb"
    PROVE  index = size /\ \A k \in DOMAIN code : code[k].width = 4
<1>1. code \in Seq(Instruction) /\ isa \in {"arm64", "arm"}
  BY ProgramFacts DEF InlineInv
<1>2. ASSUME NEW k \in DOMAIN code PROVE code[k].width = 4
  <2>1. A64!Encodes(code[k]) \/ A32!Encodes(code[k])
    BY <1>1, ProgramFacts DEF InlineInv
  <2> QED BY <2>1 DEF A64!Encodes, A32!Encodes
<1> DEFINE m == Len(out)
<1>3. /\ m \in DOMAIN code /\ Begins(m) \in Nat /\ size \in Nat /\ Begins(m) < size
      /\ index = Begins(m) + code[m].width /\ size <= index
  BY LastReaches
<1>4. m \in 1..(Len(code) + 1)
  BY <1>1, <1>3
<1>5. Begins(m) % 4 = 0
  BY <1>1, <1>2, <1>4, WordsBegin
<1>6. patch \in JumpSizes /\ size = patch
  BY <1>1 DEF InlineInv, BackupSize
<1>7. size % 4 = 0
  <2>1. CASE isa = "arm64"
    <3>1. PICK n \in MovSizes : patch = 4 * (n + 1)
      BY <1>6, <2>1 DEF JumpSizes
    <3>2. n \in 1..4
      BY InlineHookAssumption DEF InlineHookAssumption
    <3> QED BY <1>6, <3>1, <3>2
  <2>2. CASE isa = "arm"
    BY <1>6, <2>2 DEF JumpSizes
  <2> QED BY <1>1, <2>1, <2>2
<1> QED BY <1>2, <1>3, <1>5, <1>7

\* An instruction is where its neighbours end and begin.
LEMMA NoOverlap ==
    ASSUME code \in Seq(Instruction), NEW k \in DOMAIN code, NEW l \in 1..(Len(code) + 1)
    PROVE  /\ Begins(k) \in Nat /\ Begins(l) \in Nat /\ code[k].width \in {2, 4}
           /\ Ends(k) = Begins(k) + code[k].width
           /\ Begins(l) <= Begins(k) \/ Ends(k) <= Begins(l)
<1>0. Len(code) \in Nat /\ DOMAIN code = 1..Len(code)
  OBVIOUS
<1>1. k \in 1..(Len(code) + 1)
  BY <1>0
<1>2. /\ Begins(k) \in Nat /\ Begins(l) \in Nat /\ code[k].width \in {2, 4}
      /\ k < l => Begins(k) + code[k].width <= Begins(l)
  BY <1>1, BeginsGrows
<1>3. l < k => Begins(l) <= Begins(k)
  <2> SUFFICES ASSUME l < k PROVE Begins(l) <= Begins(k)
    OBVIOUS
  <2>1. l \in DOMAIN code
    BY <1>0, <1>1
  <2>2. code[l].width \in {2, 4} /\ Begins(l) + code[l].width <= Begins(k)
    BY <1>1, <2>1, BeginsGrows
  <2> QED BY <1>2, <2>2
<1>4. k < l \/ l < k \/ k = l
  BY <1>0
<1> QED BY <1>2, <1>3, <1>4 DEF Ends

\* On Thumb it may end one halfword early, where the last halfword but one of
\* the jump is taken for the first of an instruction.
LEMMA ThumbWindow ==
    ASSUME InlineInv, phase = "hooked", isa = "thumb"
    PROVE  \/ index = size
           \/ /\ size = patch /\ index = size + 2
              /\ \E k \in DOMAIN code : code[k].looks /\ code[k].width = 4 /\ Ends(k) = size - 2
<1>1. code \in Seq(Instruction)
  BY ProgramFacts DEF InlineInv
<1> DEFINE m == Len(out)
<1>2. /\ m \in DOMAIN code /\ Begins(m) \in Nat /\ size \in Nat /\ Begins(m) < size
      /\ index = Begins(m) + code[m].width /\ size <= index /\ code[m].width \in {2, 4}
  BY LastReaches
<1>3. m \in 1..(Len(code) + 1)
  BY <1>1, <1>2
<1>4. Begins(m) % 2 = 0
  BY <1>1, <1>3, BeginsGrows
<1>5. patch \in {8, 10} /\ size = BackupSize(patch)
  BY DEF InlineInv, JumpSizes
<1> SUFFICES ASSUME index # size
             PROVE  /\ size = patch /\ index = size + 2
                    /\ \E k \in DOMAIN code : code[k].looks /\ code[k].width = 4 /\ Ends(k) = size - 2
  OBVIOUS
<1>6. size % 2 = 0
  BY <1>5 DEF BackupSize
<1>7. code[m].width = 4 /\ Begins(m) = size - 2 /\ index = size + 2
  BY <1>2, <1>4, <1>6
<1>8. \A k \in DOMAIN code : /\ Begins(k) \in Nat /\ code[k].width \in {2, 4}
                             /\ Ends(k) = Begins(k) + code[k].width
                             /\ Begins(m) <= Begins(k) \/ Ends(k) <= Begins(m)
  BY <1>1, <1>3, NoOverlap
<1>9. size = patch
  <2> SUFFICES ASSUME size # patch PROVE FALSE
    OBVIOUS
  <2>1. size = patch + 2 /\ ~Is32Bit(patch - 4) /\ Is32Bit(patch - 2)
    BY <1>5 DEF BackupSize
  <2>2. PICK k \in DOMAIN code : code[k].width = 4 /\ \/ Begins(k) = patch - 2
                                                      \/ Begins(k) + 2 = patch - 2 /\ code[k].looks
    BY <2>1 DEF Is32Bit
  <2>3. CASE Begins(k) = patch - 2
    BY <1>5, <1>7, <1>8, <2>1, <2>2, <2>3
  <2>4. CASE Begins(k) + 2 = patch - 2
    <3>1. Begins(k) = patch - 4
      BY <1>5, <1>8, <2>4
    <3> QED BY <2>1, <2>2, <3>1 DEF Is32Bit
  <2> QED BY <2>2, <2>3, <2>4
<1>10. Is32Bit(patch - 2)
  BY <1>2, <1>7, <1>9 DEF Is32Bit
<1>11. Is32Bit(patch - 4)
  BY <1>5, <1>9, <1>10 DEF BackupSize
<1>12. PICK k \in DOMAIN code : code[k].width = 4 /\ \/ Begins(k) = patch - 4
                                                     \/ Begins(k) + 2 = patch - 4 /\ code[k].looks
  BY <1>11 DEF Is32Bit
<1>13. Begins(k) # patch - 4
  BY <1>5, <1>7, <1>8, <1>9, <1>12
<1>14. code[k].looks /\ code[k].width = 4 /\ Ends(k) = size - 2
  BY <1>5, <1>8, <1>9, <1>12, <1>13
<1> QED BY <1>7, <1>9, <1>14

\* The backup ends between two instructions, but for the halfword that looks
\* like the beginning of one; for any function, any place of it and any jump.
THEOREM WindowIsWholeAlways == InlineSpec => []WindowIsWhole
<1>1. InlineInv => WindowIsWhole
  <2> SUFFICES ASSUME InlineInv, Hooked
               PROVE  \/ Whole /\ index = size
                      \/ /\ isa = "thumb" /\ size = patch /\ index = size + 2
                         /\ \E k \in DOMAIN code : code[k].looks /\ Ends(k) = size - 2
    BY DEF WindowIsWhole
  <2>1. phase = "hooked"
    BY DEF Hooked
  <2>2. index = size => Whole
    BY <2>1, LastReaches DEF Whole
  <2> QED BY <2>1, <2>2, WordsWhole, ThumbWindow
<1> QED BY <1>1, InlineInvariance, PTL

-----------------------------------------------------------------------------
(* Places in the trampoline                                                *)

Copied(k) == out[k].relocated.copied

\* Where the trampoline has the k-th instruction, or its own end.
PlaceOf(k) == IF k = Len(out) + 1 THEN Place ELSE out[k].place

\* The entries, and the instructions they are for.
LEMMA TraceFacts ==
    ASSUME InlineInv
    PROVE  /\ code \in Seq(Instruction) /\ address \in Nat /\ Len(out) \in Nat /\ Len(out) <= Len(code)
           /\ DOMAIN out = 1..Len(out) /\ Len(code) \in Nat /\ DOMAIN code = 1..Len(code)
           /\ index = Begins(Len(out) + 1)
           /\ \A k \in 1..Len(out) :
                 /\ out[k].insn = code[k] /\ out[k].pc = address + Begins(k)
                 /\ out[k].relocated = Rewritten(code[k], address + Begins(k))
                 /\ out[k].room = (IF Copied(k) THEN code[k].width ELSE 8)
                 /\ code[k].width \in {2, 4} /\ Begins(k + 1) = Begins(k) + code[k].width
                 /\ out[k].place \in Nat
           /\ \A k \in 1..(Len(out) + 1) : Begins(k) \in Nat /\ Begins(k) % 2 = 0
           /\ \A k, l \in 1..(Len(out) + 1) : k < l => Begins(k) + code[k].width <= Begins(l)
<1>1. code \in Seq(Instruction) /\ address \in Nat
  BY ProgramFacts DEF InlineInv
<1>2. /\ out \in Seq(Entries) /\ Len(out) <= Len(code) /\ index = Begins(Len(out) + 1)
      /\ \A k \in DOMAIN out : out[k] = Entry(k, out[k].place)
  BY DEF InlineInv, TraceInv
<1>3. /\ Len(out) \in Nat /\ DOMAIN out = 1..Len(out)
      /\ Len(code) \in Nat /\ DOMAIN code = 1..Len(code)
  BY <1>1, <1>2
<1>4. ASSUME NEW k \in 1..Len(out)
      PROVE  /\ out[k].insn = code[k] /\ out[k].pc = address + Begins(k)
             /\ out[k].relocated = Rewritten(code[k], address + Begins(k))
             /\ out[k].room = (IF Copied(k) THEN code[k].width ELSE 8)
             /\ code[k].width \in {2, 4} /\ Begins(k + 1) = Begins(k) + code[k].width
             /\ out[k].place \in Nat
  <2>1. k \in DOMAIN code /\ k \in DOMAIN out
    BY <1>2, <1>3
  <2>2. out[k] \in Entries /\ out[k] = Entry(k, out[k].place)
    BY <1>2, <2>1
  <2>3. PICK i \in DOMAIN code, n \in Nat : out[k] = Entry(i, n)
    BY <2>2 DEF Entries
  <2>4. out[k].place \in Nat
    BY <1>1, <2>3, EntryFields
  <2>5. /\ out[k].insn = code[k] /\ out[k].pc = address + Begins(k)
        /\ out[k].relocated = Rewritten(code[k], address + Begins(k))
        /\ out[k].room = (IF out[k].relocated.copied THEN code[k].width ELSE 8)
    BY <1>1, <2>1, <2>2, <2>4, EntryFields
  <2>6. code[k].width \in {2, 4} /\ Begins(k + 1) = Begins(k) + code[k].width
    BY <1>1, <2>1, BeginsGrows, BeginsUnfolds
  <2> QED BY <2>4, <2>5, <2>6 DEF Copied
<1>5. \A k \in 1..(Len(out) + 1) : k \in 1..(Len(code) + 1)
  BY <1>2, <1>3
<1>6. \A k \in 1..(Len(out) + 1) : Begins(k) \in Nat /\ Begins(k) % 2 = 0
  BY <1>1, <1>5, BeginsGrows
<1>7. \A k, l \in 1..(Len(out) + 1) : k < l => Begins(k) + code[k].width <= Begins(l)
  BY <1>1, <1>5, BeginsGrows
<1> QED BY <1>1, <1>2, <1>3, <1>4, <1>6, <1>7

\* One entry begins where the one before it ends.
LEMMA PlacesFollow ==
    ASSUME InlineInv
    PROVE  /\ \A k \in 1..(Len(out) + 1) : PlaceOf(k) \in Nat /\ PlaceOf(k) % 2 = 0
           /\ \A k \in 1..Len(out) :
                 /\ PlaceOf(k) = out[k].place
                 /\ PlaceOf(k + 1) = PlaceOf(k) + (IF Copied(k) THEN code[k].width ELSE 8)
<1> DEFINE m == Len(out)
<1>1. /\ m \in Nat /\ DOMAIN out = 1..m
      /\ \A k \in 1..m : /\ out[k].room = (IF Copied(k) THEN code[k].width ELSE 8)
                         /\ code[k].width \in {2, 4} /\ out[k].place \in Nat
  BY TraceFacts
<1>2. \A k \in 1..m : out[k].place = IF k = 1 THEN 0 ELSE out[k - 1].place + out[k - 1].room
  BY <1>1 DEF InlineInv, TraceInv
<1>3. Place = IF m = 0 THEN 0 ELSE out[m].place + out[m].room
  <2>1. CASE m = 0
    <3>1. out = <<>>
      <4>1. out \in Seq(Entries)
        BY DEF InlineInv, TraceInv
      <4> QED BY <2>1, <4>1
    <3> QED BY <2>1, <3>1 DEF Place
  <2>2. CASE m # 0
    <3>1. out # <<>> /\ Last(out) = out[m]
      BY <2>2 DEF Last
    <3> QED BY <2>2, <3>1 DEF Place
  <2> QED BY <2>1, <2>2
<1>4. ASSUME NEW k \in 1..m
      PROVE  /\ PlaceOf(k) = out[k].place
             /\ PlaceOf(k + 1) = PlaceOf(k) + (IF Copied(k) THEN code[k].width ELSE 8)
  <2>1. PlaceOf(k) = out[k].place
    BY <1>1 DEF PlaceOf
  <2>2. CASE k = m
    <3>1. PlaceOf(k + 1) = Place /\ m # 0
      BY <1>1, <2>2 DEF PlaceOf
    <3> QED BY <1>1, <1>3, <2>1, <2>2, <3>1
  <2>3. CASE k # m
    <3>1. k + 1 \in 1..m /\ k + 1 # 1 /\ (k + 1) - 1 = k
      <4>1. m \in Nat
        BY <1>1
      <4> HIDE DEF m
      <4> QED BY <2>3, <4>1
    <3>2. PlaceOf(k + 1) = out[k + 1].place
      BY <1>1, <3>1 DEF PlaceOf
    <3>3. out[k + 1].place = out[k].place + out[k].room
      BY <1>2, <3>1
    <3> QED BY <1>1, <2>1, <3>2, <3>3
  <2> QED BY <2>1, <2>2, <2>3
<1>5. PlaceOf(1) = 0
  <2>1. CASE m = 0
    BY <1>3, <2>1 DEF PlaceOf
  <2>2. CASE m # 0
    <3>1. 1 \in 1..m
      BY <1>1, <2>2
    <3> QED BY <1>2, <1>4, <3>1
  <2> QED BY <2>1, <2>2
<1> DEFINE T == {l \in Nat : l <= m => PlaceOf(l + 1) \in Nat /\ PlaceOf(l + 1) % 2 = 0}
<1> HIDE DEF m
<1>6. 0 \in T
  BY <1>5
<1>7. ASSUME NEW l \in Nat, l \in T PROVE l + 1 \in T
  <2> SUFFICES ASSUME l + 1 <= m PROVE PlaceOf((l + 1) + 1) \in Nat /\ PlaceOf((l + 1) + 1) % 2 = 0
    OBVIOUS
  <2>1. l + 1 \in 1..m /\ l <= m
    BY <1>1
  <2>2. PlaceOf(l + 1) \in Nat /\ PlaceOf(l + 1) % 2 = 0
    BY <1>7, <2>1
  <2>3. /\ PlaceOf((l + 1) + 1) = PlaceOf(l + 1) + (IF Copied(l + 1) THEN code[l + 1].width ELSE 8)
        /\ code[l + 1].width \in {2, 4}
    BY <1>1, <1>4, <2>1
  <2> QED BY <2>2, <2>3
<1>8. Nat \subseteq T
  <2> HIDE DEF T
  <2> QED BY <1>6, <1>7, NatInductiveSet
<1>9. ASSUME NEW k \in 1..(m + 1) PROVE PlaceOf(k) \in Nat /\ PlaceOf(k) % 2 = 0
  <2>1. k - 1 \in Nat /\ (k - 1) + 1 = k /\ k - 1 <= m
    BY <1>1
  <2>2. k - 1 \in T
    BY <1>8, <2>1
  <2> QED BY <2>1, <2>2
<1> QED BY <1>4, <1>9 DEF m

\* How much further apart the k-th and the l-th are in the trampoline.
Grown(k, l) == (PlaceOf(l) - PlaceOf(k)) - (Begins(l) - Begins(k))

\* They are as far apart as they were exactly when all from one to the other
\* were copied; otherwise at least a word further.
LEMMA Stretch ==
    ASSUME InlineInv, NEW k \in 1..(Len(out) + 1), NEW l \in 1..(Len(out) + 1), k <= l
    PROVE  /\ Grown(k, l) \in Nat
           /\ (\A i \in k..(l - 1) : Copied(i)) => Grown(k, l) = 0
           /\ (\E i \in k..(l - 1) : ~Copied(i)) => Grown(k, l) >= 4
<1> DEFINE m == Len(out)
           Fits(h) == /\ Grown(k, h) \in Nat
                      /\ (\A i \in k..(h - 1) : Copied(i)) => Grown(k, h) = 0
                      /\ (\E i \in k..(h - 1) : ~Copied(i)) => Grown(k, h) >= 4
           T == {d \in Nat : k + d <= m + 1 => Fits(k + d)}
<1>1. /\ m \in Nat
      /\ \A i \in 1..m : code[i].width \in {2, 4} /\ Begins(i + 1) = Begins(i) + code[i].width
      /\ \A i \in 1..(m + 1) : Begins(i) \in Nat
  BY TraceFacts
<1>2. /\ \A i \in 1..(m + 1) : PlaceOf(i) \in Nat
      /\ \A i \in 1..m : PlaceOf(i + 1) = PlaceOf(i) + (IF Copied(i) THEN code[i].width ELSE 8)
  BY PlacesFollow
<1> HIDE DEF m
<1>3. 0 \in T
  <2>1. k \in 1..(m + 1) /\ k + 0 = k /\ k..(k - 1) = {}
    BY DEF m
  <2>2. Grown(k, k) = 0
    BY <1>1, <1>2, <2>1 DEF Grown
  <2> QED BY <2>1, <2>2
<1>4. ASSUME NEW d \in Nat, d \in T PROVE d + 1 \in T
  <2> SUFFICES ASSUME k + (d + 1) <= m + 1 PROVE Fits(k + (d + 1))
    OBVIOUS
  <2> DEFINE h == k + d
  <2>1. h \in 1..m /\ h \in 1..(m + 1) /\ h + 1 \in 1..(m + 1) /\ h <= m + 1 /\ k + (d + 1) = h + 1
    BY <1>1 DEF m
  <2>2. Fits(h)
    BY <1>4, <2>1
  <2>3. k..((h + 1) - 1) = (k..(h - 1)) \union {h}
    <3>1. h \in Nat /\ k \in Nat /\ k <= h
      BY DEF m
    <3> QED BY <3>1
  <2> HIDE DEF h
  <2>4. Grown(k, h + 1) = Grown(k, h) + (IF Copied(h) THEN 0 ELSE 8 - code[h].width)
    <3>1. /\ PlaceOf(h) \in Nat /\ PlaceOf(h + 1) \in Nat /\ PlaceOf(k) \in Nat
          /\ PlaceOf(h + 1) = PlaceOf(h) + (IF Copied(h) THEN code[h].width ELSE 8)
      BY <1>2, <2>1 DEF m
    <3>2. /\ Begins(h) \in Nat /\ Begins(k) \in Nat /\ code[h].width \in {2, 4}
          /\ Begins(h + 1) = Begins(h) + code[h].width
      BY <1>1, <2>1 DEF m
    <3>3. Grown(k, h + 1) = (PlaceOf(h + 1) - PlaceOf(k)) - (Begins(h + 1) - Begins(k))
      BY DEF Grown
    <3>4. Grown(k, h) = (PlaceOf(h) - PlaceOf(k)) - (Begins(h) - Begins(k))
      BY DEF Grown
    <3>5. CASE Copied(h)
      <4>1. PlaceOf(h + 1) = PlaceOf(h) + code[h].width
        BY <3>1, <3>5
      <4>2. Grown(k, h + 1) = Grown(k, h)
        <5>1. /\ PlaceOf(h) \in Nat /\ PlaceOf(k) \in Nat /\ Begins(h) \in Nat /\ Begins(k) \in Nat
              /\ code[h].width \in Nat /\ Begins(h + 1) = Begins(h) + code[h].width
          BY <3>1, <3>2, SMTT(30)
        <5>2. Grown(k, h + 1) = ((PlaceOf(h) + code[h].width) - PlaceOf(k))
                                - ((Begins(h) + code[h].width) - Begins(k))
          BY <3>3, <4>1, <5>1, Zenon
        <5> DEFINE a == PlaceOf(h)
                   b == PlaceOf(k)
                   c == Begins(h)
                   e == Begins(k)
                   w == code[h].width
        <5>3. a \in Int /\ b \in Int /\ c \in Int /\ e \in Int /\ w \in Int
          BY <5>1
        <5> HIDE DEF a, b, c, e, w
        <5>4. ((a + w) - b) - ((c + w) - e) = (a - b) - (c - e)
          BY <5>3
        <5>5. Grown(k, h + 1) = (a - b) - (c - e)
          BY <5>2, <5>4, Zenon DEF a, b, c, e, w
        <5> QED BY <3>4, <5>5, Zenon DEF a, b, c, e, w
      <4>3. Grown(k, h) \in Int
        BY <3>1, <3>2, <3>4
      <4> QED BY <3>5, <4>2, <4>3
    <3>6. CASE ~Copied(h)
      <4>1. PlaceOf(h + 1) = PlaceOf(h) + 8
        BY <3>1, <3>6
      <4>2. Grown(k, h + 1) = Grown(k, h) + (8 - code[h].width)
        <5>1. /\ PlaceOf(h) \in Nat /\ PlaceOf(k) \in Nat /\ Begins(h) \in Nat /\ Begins(k) \in Nat
              /\ code[h].width \in Nat /\ Begins(h + 1) = Begins(h) + code[h].width
          BY <3>1, <3>2, SMTT(30)
        <5>2. Grown(k, h + 1) = ((PlaceOf(h) + 8) - PlaceOf(k))
                                - ((Begins(h) + code[h].width) - Begins(k))
          BY <3>3, <4>1, <5>1, Zenon
        <5> DEFINE a == PlaceOf(h)
                   b == PlaceOf(k)
                   c == Begins(h)
                   e == Begins(k)
                   w == code[h].width
        <5>3. a \in Int /\ b \in Int /\ c \in Int /\ e \in Int /\ w \in Int
          BY <5>1
        <5> HIDE DEF a, b, c, e, w
        <5>4. ((a + 8) - b) - ((c + w) - e) = ((a - b) - (c - e)) + (8 - w)
          BY <5>3
        <5>5. Grown(k, h + 1) = ((a - b) - (c - e)) + (8 - w)
          BY <5>2, <5>4, Zenon DEF a, b, c, e, w
        <5> QED BY <3>4, <5>5, Zenon DEF a, b, c, e, w
      <4> QED BY <3>6, <4>2
    <3> QED BY <3>5, <3>6
  <2>5. code[h].width \in {2, 4}
    BY <1>1, <2>1
  <2>6. Fits(h + 1)
    <3>1. CASE Copied(h)
      <4>1. Grown(k, h + 1) = Grown(k, h)
        BY <2>2, <2>4, <3>1
      <4> QED BY <2>2, <2>3, <3>1, <4>1
    <3>2. CASE ~Copied(h)
      <4>1. Grown(k, h + 1) \in Nat /\ Grown(k, h + 1) >= 4
        <5>1. Grown(k, h) \in Nat /\ Grown(k, h + 1) = Grown(k, h) + (8 - code[h].width)
          BY <2>2, <2>4, <3>2
        <5> HIDE DEF Fits
        <5> QED BY <2>5, <5>1, SMTT(30)
      <4> QED BY <2>3, <3>2, <4>1
    <3> QED BY <3>1, <3>2
  <2> HIDE DEF Fits
  <2> QED BY <2>1, <2>6
<1>5. Nat \subseteq T
  <2> HIDE DEF T
  <2> QED BY <1>3, <1>4, NatInductiveSet
<1>6. l - k \in Nat /\ k + (l - k) = l /\ l <= m + 1
  BY <1>1 DEF m
<1>7. l - k \in T
  <2> HIDE DEF T
  <2> QED BY <1>5, <1>6
<1>8. Fits(l)
  <2> HIDE DEF Fits
  <2> QED BY <1>6, <1>7
<1> QED BY <1>8

\* Two places are as far apart as they were, but for a difference of less than
\* a word, only when all from one to the other were copied.
LEMMA Between ==
    ASSUME InlineInv, NEW k \in 1..(Len(out) + 1), NEW l \in 1..(Len(out) + 1), NEW d \in {-2, 0, 2}
    PROVE  PlaceOf(k) - Begins(k) + d = PlaceOf(l) - Begins(l)
             <=> d = 0 /\ \A i \in (k..(l - 1)) \union (l..(k - 1)) : Copied(i)
<1>1. /\ PlaceOf(k) \in Nat /\ PlaceOf(l) \in Nat /\ Begins(k) \in Nat /\ Begins(l) \in Nat
      /\ Len(out) \in Nat
  BY PlacesFollow, TraceFacts
<1>2. CASE k <= l
  <2>1. l..(k - 1) = {}
    BY <1>1, <1>2
  <2>2. /\ Grown(k, l) \in Nat
        /\ (\A i \in k..(l - 1) : Copied(i)) => Grown(k, l) = 0
        /\ (\E i \in k..(l - 1) : ~Copied(i)) => Grown(k, l) >= 4
    BY <1>2, Stretch
  <2>3. PlaceOf(k) - Begins(k) + d = PlaceOf(l) - Begins(l) <=> Grown(k, l) = d
    BY <1>1, SMTT(30) DEF Grown
  <2> QED BY <2>1, <2>2, <2>3
<1>3. CASE l <= k
  <2>1. k..(l - 1) = {}
    BY <1>1, <1>3
  <2>2. /\ Grown(l, k) \in Nat
        /\ (\A i \in l..(k - 1) : Copied(i)) => Grown(l, k) = 0
        /\ (\E i \in l..(k - 1) : ~Copied(i)) => Grown(l, k) >= 4
    BY <1>3, Stretch
  <2>3. PlaceOf(k) - Begins(k) + d = PlaceOf(l) - Begins(l) <=> Grown(l, k) = -d
    BY <1>1, SMTT(30) DEF Grown
  <2> QED BY <2>1, <2>2, <2>3, SMTT(30)
<1> QED BY <1>1, <1>2, <1>3

-----------------------------------------------------------------------------
(* Where a place of the function has gone                                  *)

\* o, counted from address_, is in the j-th instruction or at its own end.
In(j, o) == /\ Begins(j) <= o
            /\ IF j = Len(out) + 1 THEN o = Begins(j) ELSE o < Begins(j) + code[j].width

\* Of two places, the lower and the higher one.
LEMMA MinMax ==
    ASSUME NEW a \in Int, NEW b \in Int
    PROVE  /\ Min({a, b}) = IF a < b THEN a ELSE b
           /\ Max({a, b}) = IF a < b THEN b ELSE a
<1>1. Min({a, b}) = IF a < b THEN a ELSE b
  <2> DEFINE Lowest(x) == x \in {a, b} /\ \A y \in {a, b} : x <= y
  <2>1. Lowest(IF a < b THEN a ELSE b)
    OBVIOUS
  <2>2. \A x : Lowest(x) => x = IF a < b THEN a ELSE b
    OBVIOUS
  <2> QED BY <2>1, <2>2, Zenon DEF Min
<1>2. Max({a, b}) = IF a < b THEN b ELSE a
  <2> DEFINE Highest(x) == x \in {a, b} /\ \A y \in {a, b} : x >= y
  <2>1. Highest(IF a < b THEN b ELSE a)
    OBVIOUS
  <2>2. \A x : Highest(x) => x = IF a < b THEN b ELSE a
    OBVIOUS
  <2> QED BY <2>1, <2>2, Zenon DEF Max
<1> QED BY <1>1, <1>2

\* Every place of what was rewritten is in an instruction.
LEMMA Located ==
    ASSUME InlineInv, NEW o \in Int, 0 <= o, o <= index
    PROVE  \E j \in 1..(Len(out) + 1) : In(j, o)
<1> DEFINE m == Len(out)
           T == {l \in Nat : l <= m => \A x \in Nat :
                    x < Begins(l + 1) => \E j \in 1..l : Begins(j) <= x /\ x < Begins(j) + code[j].width}
<1>1. /\ m \in Nat /\ index = Begins(m + 1) /\ Begins(1) = 0
      /\ \A i \in 1..m : code[i].width \in {2, 4} /\ Begins(i + 1) = Begins(i) + code[i].width
      /\ \A i \in 1..(m + 1) : Begins(i) \in Nat
  BY TraceFacts, BeginsUnfolds
<1> HIDE DEF m
<1>2. 0 \in T
  BY <1>1
<1>3. ASSUME NEW l \in Nat, l \in T PROVE l + 1 \in T
  <2> SUFFICES ASSUME l + 1 <= m, NEW x \in Nat, x < Begins((l + 1) + 1)
               PROVE  \E j \in 1..(l + 1) : Begins(j) <= x /\ x < Begins(j) + code[j].width
    OBVIOUS
  <2>1. l + 1 \in 1..m /\ l + 1 \in 1..(m + 1) /\ l + 1 \in 1..(l + 1) /\ l <= m
    BY <1>1
  <2>2. CASE x < Begins(l + 1)
    <3>1. PICK j \in 1..l : Begins(j) <= x /\ x < Begins(j) + code[j].width
      BY <1>3, <2>1, <2>2
    <3>2. j \in 1..(l + 1)
      OBVIOUS
    <3> QED BY <3>1, <3>2
  <2>3. CASE ~(x < Begins(l + 1))
    <3>1. Begins((l + 1) + 1) = Begins(l + 1) + code[l + 1].width /\ Begins(l + 1) \in Nat
      BY <1>1, <2>1
    <3>2. Begins(l + 1) <= x
      BY <2>3, <3>1
    <3> QED BY <2>1, <3>1, <3>2
  <2> QED BY <2>2, <2>3
<1>4. Nat \subseteq T
  <2> HIDE DEF T
  <2> QED BY <1>2, <1>3, NatInductiveSet
<1>5. CASE o = index
  <2>1. m + 1 \in 1..(m + 1) /\ Begins(m + 1) <= o
    BY <1>1, <1>5
  <2> QED BY <1>1, <1>5, <2>1 DEF In, m
<1>6. CASE o < index
  <2>1. m \in T
    <3> HIDE DEF T
    <3> QED BY <1>1, <1>4
  <2>2. PICK j \in 1..m : Begins(j) <= o /\ o < Begins(j) + code[j].width
    BY <1>1, <1>6, <2>1
  <2>3. j \in 1..(m + 1) /\ j # m + 1
    BY <1>1
  <2> QED BY <2>2, <2>3 DEF In, m
<1>7. index \in Nat
  BY <1>1
<1> QED BY <1>5, <1>6, <1>7

\* The arithmetic of Overlaps.
LEMMA OverlapOf ==
    ASSUME NEW i \in Int, NEW j \in Int, NEW k \in Int, NEW o \in Int,
           NEW bi \in Int, NEW bj \in Int, NEW bk \in Int,
           NEW wi \in {2, 4}, NEW wj \in Int, NEW wk \in {2, 4},
           i < j => bi + wi <= bj, j < i => bj + wj <= bi, i = j => bi = bj /\ wi = wj,
           i < k => bi + wi <= bk, k < i => bk + wk <= bi, i = k => bi = bk /\ wi = wk,
           k < j => bk + wk <= bj, j < k => bj + wj <= bk, k = j => bk = bj /\ wk = wj,
           bj <= o, o = bj \/ o < bj + wj, j < i \/ j < k => wj > 0
    PROVE  /\ (IF o < bk THEN o ELSE bk) < bi + wi
           /\ bi < (IF o < bk THEN bk ELSE o)
           <=> (i = j /\ o # bj) \/ (k <= i /\ i < j) \/ (j <= i /\ i < k)
<1>1. CASE o < bk
  <2>1. i < k <=> bi < bk
    OBVIOUS
  <2>2. j < k
    BY <1>1
  <2>3. o < bi + wi <=> j <= i
    <3>1. CASE i < j
      BY <3>1
    <3>2. CASE i = j
      BY <3>2
    <3>3. CASE j < i
      <4>1. o < bi
        BY <3>3
      <4> QED BY <3>3, <4>1
    <3> QED BY <3>1, <3>2, <3>3
  <2> QED BY <1>1, <2>1, <2>2, <2>3
<1>2. CASE ~(o < bk)
  <2>1. k <= i <=> bk < bi + wi
    OBVIOUS
  <2>2. k <= j
    BY <1>2
  <2>3. bi < o <=> i < j \/ (i = j /\ o # bj)
    <3>1. CASE i < j
      BY <3>1
    <3>2. CASE i = j
      BY <3>2
    <3>3. CASE j < i
      <4>1. o <= bi
        BY <3>3
      <4> QED BY <3>3, <4>1
    <3> QED BY <3>1, <3>2, <3>3
  <2> QED BY <1>2, <2>1, <2>2, <2>3
<1> QED BY <1>1, <1>2

\* What lies between the k-th instruction and a place in the j-th.
LEMMA Overlaps ==
    ASSUME InlineInv, NEW k \in 1..Len(out), NEW i \in 1..Len(out), NEW j \in 1..(Len(out) + 1),
           NEW o \in Int, In(j, o)
    PROVE  /\ (IF o < Begins(k) THEN o ELSE Begins(k)) < Begins(i) + code[i].width
           /\ Begins(i) < (IF o < Begins(k) THEN Begins(k) ELSE o)
           <=> (i = j /\ o # Begins(j)) \/ (k <= i /\ i < j) \/ (j <= i /\ i < k)
<1> DEFINE m == Len(out)
           w == IF j = m + 1 THEN 0 ELSE code[j].width
<1>1. /\ m \in Nat
      /\ \A x \in 1..m : code[x].width \in {2, 4}
      /\ \A x \in 1..(m + 1) : Begins(x) \in Nat
      /\ \A x, y \in 1..(m + 1) : x < y => Begins(x) + code[x].width <= Begins(y)
  BY TraceFacts
<1> HIDE DEF m
<1>2. k \in 1..m /\ i \in 1..m /\ j \in 1..(m + 1) /\ k \in 1..(m + 1) /\ i \in 1..(m + 1)
  BY <1>1 DEF m
<1>3. j # m + 1 => w = code[j].width /\ w \in {2, 4}
  <2>1. j # m + 1 => j \in 1..m
    BY <1>1, <1>2
  <2> QED BY <1>1, <2>1
<1>4. w \in Int /\ (j < i \/ j < k => w > 0)
  BY <1>1, <1>2, <1>3, SMTT(30)
<1>5. Begins(j) <= o /\ (o = Begins(j) \/ o < Begins(j) + w)
  BY <1>3 DEF In, m
<1>6. /\ i < j => Begins(i) + code[i].width <= Begins(j)
      /\ j < i => Begins(j) + w <= Begins(i)
      /\ i = j => Begins(i) = Begins(j) /\ code[i].width = w
      /\ i < k => Begins(i) + code[i].width <= Begins(k)
      /\ k < i => Begins(k) + code[k].width <= Begins(i)
      /\ i = k => Begins(i) = Begins(k) /\ code[i].width = code[k].width
      /\ k < j => Begins(k) + code[k].width <= Begins(j)
      /\ j < k => Begins(j) + w <= Begins(k)
      /\ k = j => Begins(k) = Begins(j) /\ code[k].width = w
  <2>1. \A x \in 1..m : j = x => j # m + 1
    BY <1>1
  <2>2. \A x \in 1..m : j < x => j # m + 1
    BY <1>1
  <2> HIDE DEF w
  <2> QED BY <1>1, <1>2, <1>3, <2>1, <2>2
<1>7. i \in Int /\ j \in Int /\ k \in Int /\ Begins(i) \in Int /\ Begins(j) \in Int /\ Begins(k) \in Int
      /\ code[i].width \in {2, 4} /\ code[k].width \in {2, 4}
  BY <1>1, <1>2
<1> HIDE DEF w
<1> QED BY <1>4, <1>5, <1>6, <1>7, OverlapOf, SMTT(60)

\* From one place to another there are only copies.
Cleared(k, o) ==
    \A i \in 1..Len(out) :
        /\ (IF o < Begins(k) THEN o ELSE Begins(k)) < Begins(i) + code[i].width
        /\ Begins(i) < (IF o < Begins(k) THEN Begins(k) ELSE o)
        => Copied(i)

\* That is so when the instruction it stands in, and all from one to the other, were
\* copied.
LEMMA ClearedIs ==
    ASSUME InlineInv, NEW k \in 1..Len(out), NEW j \in 1..(Len(out) + 1), NEW o \in Int, In(j, o)
    PROVE  Cleared(k, o) <=> /\ j # Len(out) + 1 /\ o # Begins(j) => Copied(j)
                             /\ \A i \in (k..(j - 1)) \union (j..(k - 1)) : Copied(i)
<1> DEFINE m == Len(out)
           Over(i) == /\ (IF o < Begins(k) THEN o ELSE Begins(k)) < Begins(i) + code[i].width
                      /\ Begins(i) < (IF o < Begins(k) THEN Begins(k) ELSE o)
<1>1. m \in Nat
  BY TraceFacts
<1>2. \A i \in 1..m : Over(i) <=> (i = j /\ o # Begins(j)) \/ (k <= i /\ i < j) \/ (j <= i /\ i < k)
  BY Overlaps
<1>3. Cleared(k, o) <=> \A i \in 1..m : Over(i) => Copied(i)
  BY DEF Cleared
<1> HIDE DEF Over, m
<1>4. k \in 1..m /\ j \in 1..(m + 1)
  BY DEF m
<1>5. \A i \in (k..(j - 1)) \union (j..(k - 1)) : i \in 1..m /\ ((k <= i /\ i < j) \/ (j <= i /\ i < k))
  BY <1>1, <1>4
<1>6. \A i \in 1..m : (k <= i /\ i < j) \/ (j <= i /\ i < k) => i \in (k..(j - 1)) \union (j..(k - 1))
  BY <1>1, <1>4
<1>7. j # m + 1 <=> j \in 1..m
  BY <1>1, <1>4
<1> QED BY <1>2, <1>3, <1>5, <1>6, <1>7 DEF m

\* The members of Moved.
LEMMA MovedHas ==
    ASSUME InlineInv, NEW n \in Int, NEW y \in Int
    PROVE  y \in Moved(n) <=>
              \/ \E j \in 1..Len(out) :
                    /\ \/ n = address + Begins(j)
                       \/ /\ Copied(j) /\ address + Begins(j) < n
                          /\ n < address + Begins(j) + code[j].width
                    /\ y = PlaceOf(j) + n - (address + Begins(j))
              \/ n = tail /\ y = Place
<1> DEFINE m == Len(out)
<1>1. /\ DOMAIN out = 1..m /\ address \in Nat
      /\ \A j \in 1..m : /\ out[j].insn = code[j] /\ out[j].pc = address + Begins(j)
                         /\ Begins(j) \in Nat
  <2>1. m \in Nat /\ \A j \in 1..m : j \in 1..(m + 1)
    BY TraceFacts
  <2> QED BY <2>1, TraceFacts
<1>2. \A j \in 1..m : PlaceOf(j) = out[j].place /\ PlaceOf(j) \in Nat
  <2>1. m \in Nat /\ \A j \in 1..m : j \in 1..(m + 1)
    BY TraceFacts
  <2> QED BY <2>1, PlacesFollow
<1> HIDE DEF m
<1>3. \A x : x \in Range(out) <=> \E j \in 1..m : x = out[j]
  BY <1>1 DEF Range
<1>4. y \in {e.place : e \in {x \in Range(out) : x.pc = n}}
        <=> \E j \in 1..m : n = address + Begins(j) /\ y = PlaceOf(j)
  BY <1>1, <1>2, <1>3
<1>5. y \in {e.place + n - e.pc :
              e \in {x \in Range(out) : x.relocated.copied /\ x.pc < n /\ n < x.pc + x.insn.width}}
        <=> \E j \in 1..m : /\ Copied(j) /\ address + Begins(j) < n
                            /\ n < address + Begins(j) + code[j].width
                            /\ y = PlaceOf(j) + n - (address + Begins(j))
  <2> DEFINE Covers(x) == x.relocated.copied /\ x.pc < n /\ n < x.pc + x.insn.width
             Shown(x) == x.place + n - x.pc
  <2>1. ASSUME NEW j \in 1..m
        PROVE  /\ Covers(out[j]) <=> /\ Copied(j) /\ address + Begins(j) < n
                                     /\ n < address + Begins(j) + code[j].width
               /\ Shown(out[j]) = PlaceOf(j) + n - (address + Begins(j))
    BY <1>1, <1>2 DEF Copied
  <2> HIDE DEF Covers, Shown
  <2>2. y \in {Shown(e) : e \in {x \in Range(out) : Covers(x)}}
          <=> \E j \in 1..m : Covers(out[j]) /\ y = Shown(out[j])
    BY <1>3, Zenon
  <2>3. y \in {Shown(e) : e \in {x \in Range(out) : Covers(x)}}
          <=> \E j \in 1..m : /\ Copied(j) /\ address + Begins(j) < n
                              /\ n < address + Begins(j) + code[j].width
                              /\ y = PlaceOf(j) + n - (address + Begins(j))
    BY <2>1, <2>2, Zenon
  <2> QED BY <2>3, Zenon DEF Covers, Shown
<1>6. y \in (IF n = tail THEN {Place} ELSE {}) <=> n = tail /\ y = Place
  OBVIOUS
<1>7. \A j \in 1..m : n = address + Begins(j) => PlaceOf(j) = PlaceOf(j) + n - (address + Begins(j))
  BY <1>1, <1>2
<1>8. y \in Moved(n) <=> \/ \E j \in 1..m : n = address + Begins(j) /\ y = PlaceOf(j)
                         \/ \E j \in 1..m : /\ Copied(j) /\ address + Begins(j) < n
                                            /\ n < address + Begins(j) + code[j].width
                                            /\ y = PlaceOf(j) + n - (address + Begins(j))
                         \/ n = tail /\ y = Place
  BY <1>4, <1>5, <1>6, Zenon DEF Moved
<1> QED BY <1>7, <1>8 DEF m

\* A copy of the k-th instruction, which is d further off, finds a place where it
\* expects it when that was copied with all that lies between; the end of the
\* backup aside, when that is in the middle of an instruction.
LEMMA Finds ==
    ASSUME InlineInv, phase = "hooked", NEW k \in 1..Len(out), NEW n \in Int, NEW d \in {-2, 0, 2},
           index = size \/ (index = size + 2 /\ n # tail + 1 /\ (n = tail => d # 2))
    PROVE  PlaceOf(k) + n - (address + Begins(k)) + d \in Moved(n)
             <=> n \in address..tail /\ Cleared(k, n - address) /\ d = 0
<1> DEFINE m == Len(out)
           o == n - address
           y == PlaceOf(k) + n - (address + Begins(k)) + d
<1>1. m \in Nat /\ address \in Nat /\ index = Begins(m + 1)
  BY TraceFacts
<1>2. /\ \A x \in 1..(m + 1) : PlaceOf(x) \in Nat /\ Begins(x) \in Nat
      /\ \A x \in 1..m : code[x].width \in {2, 4} /\ Begins(x) + code[x].width <= Begins(m + 1)
      /\ \A a, b \in 1..(m + 1) : a < b => Begins(a) + code[a].width <= Begins(b)
  <2>1. /\ \A x \in 1..(m + 1) : PlaceOf(x) \in Nat /\ Begins(x) \in Nat
        /\ \A x \in 1..m : code[x].width \in {2, 4}
        /\ \A a, b \in 1..(m + 1) : a < b => Begins(a) + code[a].width <= Begins(b)
    BY TraceFacts, PlacesFollow
  <2> HIDE DEF m
  <2>2. \A x \in 1..m : x \in 1..(m + 1) /\ m + 1 \in 1..(m + 1) /\ x < m + 1
    BY <1>1
  <2>3. \A x \in 1..m : Begins(x) + code[x].width <= Begins(m + 1)
    BY <2>1, <2>2
  <2> QED BY <2>1, <2>3
<1>3. PlaceOf(m + 1) = Place
  BY DEF PlaceOf
<1>4. size \in Nat
  BY LastReaches
<1>5. tail = address + size
  BY DEF tail
<1> HIDE DEF m
<1>6. k \in 1..m /\ k \in 1..(m + 1) /\ m + 1 \in 1..(m + 1) /\ \A x \in 1..m : x \in 1..(m + 1) /\ x # m + 1
  BY <1>1 DEF m
<1>7. Begins(k) \in Nat /\ PlaceOf(k) \in Nat /\ index \in Nat /\ y \in Int
  BY <1>1, <1>2, <1>6, SMTT(30)
<1>8. y \in Moved(n) <=>
        \/ \E j \in 1..m :
              /\ \/ n = address + Begins(j)
                 \/ /\ Copied(j) /\ address + Begins(j) < n
                    /\ n < address + Begins(j) + code[j].width
              /\ y = PlaceOf(j) + n - (address + Begins(j))
        \/ n = tail /\ y = Place
  <2> HIDE DEF y
  <2> QED BY <1>7, MovedHas DEF m
<1>9. CASE ~(0 <= o /\ o < index)  /\ n # tail
  <2>1. ASSUME NEW j \in 1..m
        PROVE  /\ n # address + Begins(j)
               /\ address + Begins(j) < n => ~(n < address + Begins(j) + code[j].width)
    <3>1. /\ Begins(j) \in Nat /\ code[j].width \in {2, 4}
          /\ Begins(j) + code[j].width <= index
      BY <1>1, <1>2, <1>6
    <3> DEFINE b == Begins(j)
               w == code[j].width
    <3>2. b \in Nat /\ w \in Nat /\ w > 0 /\ b + w <= index
      BY <3>1
    <3> HIDE DEF b, w
    <3>3. n # address + b /\ (address + b < n => ~(n < address + b + w))
      BY <1>1, <1>7, <1>9, <3>2, SMTT(30)
    <3> QED BY <3>3 DEF b, w
  <2>2. y \notin Moved(n)
    BY <1>8, <1>9, <2>1
  <2>3. n \notin address..tail
    BY <1>1, <1>4, <1>5, <1>7, <1>9, SMTT(30)
  <2> QED BY <2>2, <2>3
<1>10. CASE n = tail /\ index = size
  <2>1. In(m + 1, o) /\ o = Begins(m + 1) /\ o \in Int /\ n \in address..tail
    <3>1. address \in Nat /\ Begins(m + 1) = index /\ tail = address + index
      BY <1>1, <1>5, <1>10 DEF m
    <3>2. o = index /\ o \in Int /\ n \in address..tail
      BY <1>7, <1>10, <3>1
    <3> HIDE DEF o
    <3> QED BY <3>1, <3>2 DEF In, m
  <2>2. ASSUME NEW j \in 1..m
        PROVE  /\ n # address + Begins(j)
               /\ address + Begins(j) < n => ~(n < address + Begins(j) + code[j].width)
    <3>1. /\ Begins(j) \in Nat /\ code[j].width \in {2, 4}
          /\ Begins(j) + code[j].width <= o /\ o = n - address
      BY <1>2, <1>6, <2>1
    <3> DEFINE b == Begins(j)
               w == code[j].width
    <3>2. b \in Nat /\ w \in Nat /\ w > 0 /\ b + w <= o /\ o = n - address
      BY <3>1
    <3> HIDE DEF o, b, w
    <3>3. n # address + b /\ (address + b < n => ~(n < address + b + w))
      BY <1>1, <2>1, <3>2
    <3> QED BY <3>3 DEF b, w
  <2>3. y \in Moved(n) <=> y = PlaceOf(m + 1)
    BY <1>3, <1>8, <1>10, <2>2
  <2>4. y = PlaceOf(m + 1) <=> PlaceOf(k) - Begins(k) + d = PlaceOf(m + 1) - Begins(m + 1)
    <3>1. PlaceOf(m + 1) \in Nat /\ n = address + Begins(m + 1) /\ Begins(m + 1) \in Nat
      BY <1>1, <1>2, <1>6, <2>1
    <3>2. ASSUME NEW a \in Int, NEW p \in Int, NEW q \in Int, NEW b \in Int, NEW c \in Int
          PROVE  p + (a + c) - (a + b) + d = q <=> p - b + d = q - c
      OBVIOUS
    <3>3. PlaceOf(k) + (address + Begins(m + 1)) - (address + Begins(k)) + d = PlaceOf(m + 1)
            <=> PlaceOf(k) - Begins(k) + d = PlaceOf(m + 1) - Begins(m + 1)
      <4> DEFINE p == PlaceOf(k)
                 q == PlaceOf(m + 1)
                 b == Begins(k)
                 c == Begins(m + 1)
      <4>1. p \in Nat /\ q \in Nat /\ b \in Nat /\ c \in Nat
        BY <1>2, <1>6, <1>7, <3>1
      <4> HIDE DEF p, q, b, c
      <4>2. p + (address + c) - (address + b) + d = q <=> p - b + d = q - c
        BY <1>1, <3>2, <4>1
      <4> QED BY <4>2 DEF p, q, b, c
    <3> QED BY <3>1, <3>3
  <2>5. PlaceOf(k) - Begins(k) + d = PlaceOf(m + 1) - Begins(m + 1)
          <=> d = 0 /\ \A i \in (k..((m + 1) - 1)) \union ((m + 1)..(k - 1)) : Copied(i)
    BY <1>6, Between DEF m
  <2>6. Cleared(k, o) <=> \A i \in (k..((m + 1) - 1)) \union ((m + 1)..(k - 1)) : Copied(i)
    <3> HIDE DEF o
    <3>1. Cleared(k, o) <=> /\ m + 1 # Len(out) + 1 /\ o # Begins(m + 1) => Copied(m + 1)
                            /\ \A i \in (k..((m + 1) - 1)) \union ((m + 1)..(k - 1)) : Copied(i)
      BY <1>6, <2>1, ClearedIs DEF m
    <3> QED BY <3>1 DEF m
  <2> QED BY <2>1, <2>3, <2>4, <2>5, <2>6
<1>11. CASE 0 <= o /\ o < index
  <2>1. o \in Int /\ n = address + o /\ n \in Int
    BY <1>1
  <2> HIDE DEF o, y
  <2>2. PICK j \in 1..(m + 1) : In(j, o)
    BY <1>7, <1>11, <2>1, Located DEF m
  <2>3. j # m + 1 /\ j \in 1..m
    <3>1. j # m + 1
      BY <1>1, <1>7, <1>11, <2>1, <2>2 DEF In, m
    <3> QED BY <1>1, <3>1
  <2>4. /\ Begins(j) <= o /\ o < Begins(j) + code[j].width
        /\ Begins(j) \in Nat /\ PlaceOf(j) \in Nat /\ code[j].width \in {2, 4}
    BY <1>1, <1>2, <1>6, <2>2, <2>3 DEF In, m
  <2>5. ASSUME NEW i \in 1..m, i # j
        PROVE  /\ n # address + Begins(i)
               /\ address + Begins(i) < n => ~(n < address + Begins(i) + code[i].width)
    <3>1. i < j \/ j < i
      BY <2>3, <2>5
    <3>2. /\ Begins(i) \in Nat /\ code[i].width \in {2, 4}
          /\ i < j => Begins(i) + code[i].width <= Begins(j)
          /\ j < i => Begins(j) + code[j].width <= Begins(i)
      BY <1>2, <1>6, <2>3
    <3>3. o < Begins(i) \/ Begins(i) + code[i].width <= o
      BY <2>1, <2>4, <3>1, <3>2, SMTT(30)
    <3>4. Begins(i) \in Nat /\ code[i].width \in Nat /\ code[i].width > 0
      BY <3>2
    <3> QED BY <1>1, <2>1, <3>3, <3>4, SMTT(30)
  <2>6. n = tail => y # Place
    <3> SUFFICES ASSUME n = tail, y = PlaceOf(m + 1) PROVE FALSE
      BY <1>3
    <3>1. index = size + 2 /\ d # 2 /\ Begins(m + 1) = size + 2 /\ o = size
      BY <1>1, <1>4, <1>5, <1>7, <1>11, <2>1
    <3>2. Grown(k, m + 1) \in Nat
      <4>1. k <= m + 1
        BY <1>1, <1>6
      <4> QED BY <1>6, <4>1, Stretch DEF m
    <3>3. PlaceOf(m + 1) \in Nat
      BY <1>2, <1>6
    <3>4. Grown(k, m + 1) = (PlaceOf(m + 1) - PlaceOf(k)) - (Begins(m + 1) - Begins(k))
      BY DEF Grown
    <3>5. y = PlaceOf(k) + n - (address + Begins(k)) + d
      BY DEF y
    <3>6. PlaceOf(k) + n - (address + Begins(k)) + d = PlaceOf(k) + size - Begins(k) + d
      BY <1>1, <1>4, <1>7, <2>1, <3>1
    <3>7. PlaceOf(m + 1) = PlaceOf(k) + size - Begins(k) + d
      BY <3>5, <3>6
    <3>8. Begins(m + 1) \in Int /\ Begins(k) \in Int /\ PlaceOf(k) \in Int /\ d \in Int /\ size \in Int
      BY <1>4, <1>7, <3>1, <3>3
    <3>9. Grown(k, m + 1) = d - 2
      BY <3>1, <3>4, <3>7, <3>8, SMTT(30)
    <3> QED BY <1>4, <1>7, <3>1, <3>2, <3>9
  <2> DEFINE b == Begins(j)
             w == code[j].width
  <2> HIDE DEF b, w
  <2>13. b \in Nat /\ w \in {2, 4} /\ b <= o /\ o < b + w
    BY <2>4 DEF b, w
  <2>7. y \in Moved(n) <=> (o = Begins(j) \/ Copied(j)) /\ y = PlaceOf(j) + n - (address + Begins(j))
    <3>1. y \in Moved(n) <=>
             /\ \/ n = address + Begins(j)
                \/ Copied(j) /\ address + Begins(j) < n /\ n < address + Begins(j) + code[j].width
             /\ y = PlaceOf(j) + n - (address + Begins(j))
      BY <1>8, <2>3, <2>5, <2>6
    <3>2. n = address + Begins(j) <=> o = Begins(j)
      <4>1. n = address + b <=> o = b
        BY <1>1, <2>1, <2>13
      <4> QED BY <4>1 DEF b
    <3>3. o # Begins(j) => address + Begins(j) < n /\ n < address + Begins(j) + code[j].width
      <4>1. o # b => address + b < n /\ n < address + b + w
        BY <1>1, <2>1, <2>13
      <4> QED BY <4>1 DEF b, w
    <3> QED BY <3>1, <3>2, <3>3
  <2>8. y = PlaceOf(j) + n - (address + Begins(j))
          <=> PlaceOf(k) - Begins(k) + d = PlaceOf(j) - Begins(j)
    <3>1. ASSUME NEW a \in Int, NEW p \in Int, NEW q \in Int, NEW x \in Int, NEW c \in Int
          PROVE  p + n - (a + x) + d = q + n - (a + c) <=> p - x + d = q - c
      OBVIOUS
    <3>2. PlaceOf(k) + n - (address + Begins(k)) + d = PlaceOf(j) + n - (address + Begins(j))
            <=> PlaceOf(k) - Begins(k) + d = PlaceOf(j) - Begins(j)
      <4> DEFINE p == PlaceOf(k)
                 q == PlaceOf(j)
                 x == Begins(k)
      <4>1. p \in Nat /\ q \in Nat /\ x \in Nat
        BY <1>7, <2>4
      <4> HIDE DEF p, q, x
      <4>2. p + n - (address + x) + d = q + n - (address + b) <=> p - x + d = q - b
        BY <1>1, <2>13, <3>1, <4>1
      <4> QED BY <4>2 DEF p, q, x, b
    <3> QED BY <3>2 DEF y
  <2>9. PlaceOf(k) - Begins(k) + d = PlaceOf(j) - Begins(j)
          <=> d = 0 /\ \A i \in (k..(j - 1)) \union (j..(k - 1)) : Copied(i)
    BY <1>6, <2>2, Between DEF m
  <2>10. Cleared(k, o) <=> /\ o # Begins(j) => Copied(j)
                           /\ \A i \in (k..(j - 1)) \union (j..(k - 1)) : Copied(i)
    BY <1>6, <2>1, <2>2, <2>3, ClearedIs DEF m
  <2>11. n \in address..tail
    BY <1>1, <1>4, <1>5, <1>7, <1>11, <2>1
  <2> QED BY <2>7, <2>8, <2>9, <2>10, <2>11 DEF y, o
<1>12. n = tail => index = size \/ (0 <= o /\ o < index)
  BY <1>1, <1>4, <1>5, <1>7
<1> QED BY <1>9, <1>10, <1>11, <1>12

-----------------------------------------------------------------------------
(* Copies                                                                  *)

\* How much further off a copy finds what it counts from a word.
Aligned(i) == isa = "thumb" /\ i.op \in T32!ReadsWordAligned
Shift(k) == IF Aligned(code[k]) THEN ((address + Begins(k)) % 4) - (PlaceOf(k) % 4) ELSE 0

\* The distance is a halfword at most, and none for a copy that stands to the word as
\* it stood.
LEMMA ShiftIs ==
    ASSUME InlineInv, NEW k \in 1..Len(out)
    PROVE  /\ Shift(k) \in {-2, 0, 2}
           /\ Shift(k) = 0 <=> (Aligned(code[k]) => PlaceOf(k) % 4 = (address + Begins(k)) % 4)
           /\ \A n \in Int : Base(code[k], PlaceOf(k)) + n - Base(code[k], address + Begins(k))
                               = PlaceOf(k) + n - (address + Begins(k)) + Shift(k)
<1>1. k \in 1..(Len(out) + 1)
  BY TraceFacts
<1> DEFINE q == PlaceOf(k)
           b == Begins(k)
<1>2. q \in Nat /\ q % 2 = 0 /\ b \in Nat /\ b % 2 = 0
  BY <1>1, PlacesFollow, TraceFacts
<1>3. address \in Nat /\ address % 2 = 0
  BY ProgramFacts DEF InlineInv
<1>4. Shift(k) = IF Aligned(code[k]) THEN ((address + b) % 4) - (q % 4) ELSE 0
  BY DEF Shift
<1>5. \A x : Base(code[k], x) = IF Aligned(code[k]) THEN x - (x % 4) ELSE x
  BY DEF Base, Aligned, RoundDown
<1> HIDE DEF q, b
<1>6. (address + b) % 4 \in {0, 2} /\ q % 4 \in {0, 2}
  BY <1>2, <1>3
<1>7. Shift(k) \in {-2, 0, 2} /\ (Shift(k) = 0 <=> (Aligned(code[k]) => q % 4 = (address + b) % 4))
  <2>1. CASE Aligned(code[k])
    <3> DEFINE u == (address + b) % 4
               v == q % 4
    <3>1. Shift(k) = u - v
      BY <1>4, <2>1, Zenon
    <3>2. u \in {0, 2} /\ v \in {0, 2}
      BY <1>6
    <3> HIDE DEF u, v
    <3>3. Shift(k) \in {-2, 0, 2} /\ (Shift(k) = 0 <=> v = u)
      BY <3>1, <3>2
    <3> QED BY <2>1, <3>3 DEF u, v
  <2>2. CASE ~Aligned(code[k])
    BY <1>4, <2>2
  <2> QED BY <2>1, <2>2
<1>8. ASSUME NEW n \in Int
      PROVE  Base(code[k], q) + n - Base(code[k], address + b) = q + n - (address + b) + Shift(k)
  <2>1. CASE Aligned(code[k])
    <3>1. /\ Base(code[k], q) = q - (q % 4)
          /\ Base(code[k], address + b) = (address + b) - ((address + b) % 4)
          /\ Shift(k) = ((address + b) % 4) - (q % 4)
      BY <1>4, <1>5, <2>1
    <3> DEFINE u == (address + b) % 4
               v == q % 4
               x == address + b
    <3>2. u \in {0, 2} /\ v \in {0, 2} /\ x \in Int
      BY <1>2, <1>3, <1>6
    <3>3. Base(code[k], q) = q - v /\ Base(code[k], x) = x - u /\ Shift(k) = u - v
      BY <3>1, Zenon
    <3> HIDE DEF u, v, x
    <3>4. (q - v) + n - (x - u) = q + n - x + (u - v)
      BY <1>2, <3>2
    <3>5. Base(code[k], q) + n - Base(code[k], x) = q + n - x + Shift(k)
      BY <3>3, <3>4, Zenon
    <3> QED BY <3>5 DEF x
  <2>2. CASE ~Aligned(code[k])
    <3>1. Base(code[k], q) = q /\ Base(code[k], address + b) = address + b /\ Shift(k) = 0
      BY <1>4, <1>5, <2>2
    <3> QED BY <1>2, <1>3, <3>1
  <2> QED BY <2>1, <2>2
<1> QED BY <1>7, <1>8 DEF q, b

\* Stays and Undisturbed, of the k-th entry.
LEMMA StaysIs ==
    ASSUME InlineInv, NEW k \in 1..Len(out), Anchors(code[k], address + Begins(k)) \subseteq Int
    PROVE  Stays(out[k]) <=> \A n \in Anchors(code[k], address + Begins(k)) :
                                PlaceOf(k) + n - (address + Begins(k)) + Shift(k) \in Moved(n)
<1>1. out[k].insn = code[k] /\ out[k].pc = address + Begins(k) /\ out[k].place = PlaceOf(k)
  BY TraceFacts, PlacesFollow
<1>2. Stays(out[k]) <=> \A n \in Anchors(code[k], address + Begins(k)) :
         Base(code[k], PlaceOf(k)) + n - Base(code[k], address + Begins(k)) \in Moved(n)
  BY <1>1 DEF Stays
<1>3. \A n \in Int : Base(code[k], PlaceOf(k)) + n - Base(code[k], address + Begins(k))
                       = PlaceOf(k) + n - (address + Begins(k)) + Shift(k)
  BY ShiftIs
<1>4. \A n \in Anchors(code[k], address + Begins(k)) :
         Base(code[k], PlaceOf(k)) + n - Base(code[k], address + Begins(k))
           = PlaceOf(k) + n - (address + Begins(k)) + Shift(k)
  BY <1>3, Zenon
<1> QED BY <1>2, <1>4, Zenon

\* Undisturbed in those terms.
LEMMA UndisturbedIs ==
    ASSUME InlineInv, NEW k \in 1..Len(out), Anchors(code[k], address + Begins(k)) \subseteq Int
    PROVE  Undisturbed(out[k]) <=> \A n \in Anchors(code[k], address + Begins(k)) :
                                      n \in address..tail /\ Cleared(k, n - address) /\ Shift(k) = 0
<1> DEFINE m == Len(out)
           site == address + Begins(k)
           Clear(n) == \A x \in Range(out) :
                          Min({n, site}) < x.pc + x.insn.width /\ x.pc < Max({n, site}) => x.relocated.copied
<1>1. out[k].insn = code[k] /\ out[k].pc = site /\ out[k].place = PlaceOf(k)
  BY TraceFacts, PlacesFollow
<1>2. Shift(k) = 0 <=> (isa = "thumb" /\ code[k].op \in T32!ReadsWordAligned => PlaceOf(k) % 4 = site % 4)
  BY ShiftIs DEF Aligned
<1>3. /\ m \in Nat /\ address \in Nat /\ DOMAIN out = 1..m
      /\ \A i \in 1..m : /\ out[i].insn = code[i] /\ out[i].pc = address + Begins(i)
                         /\ code[i].width \in {2, 4}
      /\ \A i \in 1..(m + 1) : Begins(i) \in Nat
  BY TraceFacts
<1> HIDE DEF m
<1>4. k \in 1..m /\ \A i \in 1..m : i \in 1..(m + 1)
  BY <1>3 DEF m
<1>5. ASSUME NEW n \in Int PROVE Clear(n) <=> Cleared(k, n - address)
  <2> DEFINE o == n - address
             Over(i) == /\ (IF o < Begins(k) THEN o ELSE Begins(k)) < Begins(i) + code[i].width
                        /\ Begins(i) < (IF o < Begins(k) THEN Begins(k) ELSE o)
  <2>1. site \in Int /\ Begins(k) \in Nat
    BY <1>3, <1>4
  <2>2. Min({n, site}) = (IF n < site THEN n ELSE site) /\ Max({n, site}) = (IF n < site THEN site ELSE n)
    BY <2>1, MinMax
  <2>3. ASSUME NEW i \in 1..m
        PROVE  Min({n, site}) < out[i].pc + out[i].insn.width /\ out[i].pc < Max({n, site}) <=> Over(i)
    <3> DEFINE b == Begins(i)
               c == Begins(k)
               w == code[i].width
    <3>1. b \in Nat /\ c \in Nat /\ w \in Nat /\ out[i].pc = address + b /\ out[i].insn.width = w
      <4>1. code[i].width \in {2, 4}
        BY <1>3
      <4>2. code[i].width \in Nat
        BY <4>1
      <4> QED BY <1>3, <1>4, <2>1, <4>2
    <3> HIDE DEF b, w, c
    <3>2. /\ (IF n < address + c THEN n ELSE address + c) < address + b + w
          /\ address + b < (IF n < address + c THEN address + c ELSE n)
          <=> /\ (IF o < c THEN o ELSE c) < b + w
              /\ b < (IF o < c THEN c ELSE o)
      BY <1>3, <3>1
    <3>3. Min({n, site}) = (IF n < address + c THEN n ELSE address + c)
          /\ Max({n, site}) = (IF n < address + c THEN address + c ELSE n)
      BY <2>2 DEF c
    <3>4. Min({n, site}) < out[i].pc + out[i].insn.width /\ out[i].pc < Max({n, site})
            <=> /\ (IF n < address + c THEN n ELSE address + c) < address + b + w
                /\ address + b < (IF n < address + c THEN address + c ELSE n)
      BY <3>1, <3>3, Zenon
    <3> HIDE DEF o
    <3> QED BY <3>2, <3>4, Zenon DEF b, c, w
  <2>4. \A x : x \in Range(out) <=> \E i \in 1..m : x = out[i]
    BY <1>3 DEF Range
  <2>5. Cleared(k, o) <=> \A i \in 1..m : Over(i) => Copied(i)
    BY DEF Cleared, m
  <2> HIDE DEF Over, site
  <2> QED BY <2>3, <2>4, <2>5, Zenon DEF Copied
<1>6. Undisturbed(out[k]) <=> \A n \in Anchors(code[k], site) :
         n \in address..tail /\ Clear(n) /\ Shift(k) = 0
  BY <1>1, <1>2, Zenon DEF Undisturbed
<1> HIDE DEF Clear
<1> QED BY <1>5, <1>6, Zenon

\* What the offsets of the encodings make of the anchors.
LEMMA AnchorsInt ==
    ASSUME InlineInv, NEW k \in 1..Len(out)
    PROVE  Anchors(code[k], address + Begins(k)) \subseteq Int
<1> DEFINE site == address + Begins(k)
<1>1. site \in Int /\ code[k] \in Instruction
  <2>1. /\ address \in Nat /\ Len(out) \in Nat /\ code \in Seq(Instruction)
        /\ Len(code) \in Nat /\ Len(out) <= Len(code)
    BY TraceFacts
  <2>2. k \in 1..(Len(out) + 1) /\ k \in 1..Len(code)
    BY <2>1
  <2>3. Begins(k) \in Nat
    BY <2>2, TraceFacts
  <2> QED BY <2>1, <2>2, <2>3
<1>2. code[k].off \in Int
  BY <1>1 DEF Instruction
<1>3. isa \in {"arm64", "arm", "thumb"}
  BY ProgramFacts DEF InlineInv
<1> HIDE DEF site
<1>4. CASE isa = "arm64"
  <2>1. A64!Anchors(code[k], site) \subseteq Int
    BY <1>1, <1>2 DEF A64!Anchors
  <2> QED BY <1>4, <2>1 DEF Anchors, site
<1>5. CASE isa = "arm"
  <2>1. A32!Anchors(code[k], site) \subseteq Int
    BY <1>1, <1>2 DEF A32!Anchors, A32!P, A32!Nowhere
  <2> QED BY <1>5, <2>1 DEF Anchors, site
<1>6. CASE isa = "thumb"
  <2>1. T32!Anchors(code[k], site) \subseteq Int
    BY <1>1, <1>2 DEF T32!Anchors, T32!P, T32!Word, T32!RoundDown
  <2> QED BY <1>6, <2>1 DEF Anchors, site
<1> QED BY <1>3, <1>4, <1>5, <1>6

\* In a backup that ends early, all instructions of 32 bits stand between words.
LEMMA EarlyEnd ==
    ASSUME InlineInv, phase = "hooked", index # size
    PROVE  /\ isa = "thumb" /\ index = size + 2 /\ (address + size) % 4 = 0
           /\ \A k \in 1..Len(out) : code[k].width = 4 => (address + Begins(k)) % 4 = 2
<1> DEFINE m == Len(out)
<1>1. code \in Seq(Instruction) /\ address \in Nat /\ address % 2 = 0 /\ isa \in {"arm64", "arm", "thumb"}
  BY ProgramFacts DEF InlineInv
<1>2. isa = "thumb"
  BY <1>1, WordsWhole
<1>3. /\ size = patch /\ index = size + 2
      /\ \E k \in DOMAIN code : code[k].looks /\ code[k].width = 4 /\ Ends(k) = size - 2
  BY <1>2, ThumbWindow
<1>4. patch = IF address % 4 # 0 THEN 10 ELSE 8
  BY <1>2 DEF InlineInv, JumpSizes
<1>5. (address + size) % 4 = 0
  BY <1>1, <1>3, <1>4
<1>6. /\ m \in DOMAIN code /\ Begins(m) \in Nat /\ Begins(m) < size
      /\ index = Begins(m) + code[m].width /\ code[m].width \in {2, 4}
  BY LastReaches
<1>7. DOMAIN out = 1..m /\ m \in Nat /\ Len(code) \in Nat /\ DOMAIN code = 1..Len(code) /\ m <= Len(code)
  BY TraceFacts
<1>8. PICK l \in DOMAIN code : code[l].width = 4 /\ Ends(l) = size - 2
  BY <1>3
<1> HIDE DEF m
<1>9. Begins(m) = size - 2 /\ size \in {8, 10}
  <2>1. size \in {8, 10}
    BY <1>3, <1>4
  <2>2. m \in 1..(Len(code) + 1)
    BY <1>6, <1>7
  <2>3. Begins(m) % 2 = 0
    BY <1>1, <2>2, BeginsGrows
  <2> DEFINE b == Begins(m)
             w == code[m].width
  <2>4. b \in Nat /\ b < size /\ size + 2 = b + w /\ w \in {2, 4} /\ b % 2 = 0
    BY <1>3, <1>6, <2>3
  <2> HIDE DEF b, w
  <2>5. b = size - 2
    BY <2>1, <2>4
  <2> QED BY <2>1, <2>5 DEF b
<1>10. Begins(l) = size - 6
  BY <1>1, <1>8, <1>9, NoOverlap
<1>11. ASSUME NEW k \in 1..m, code[k].width = 4 PROVE (address + Begins(k)) % 4 = 2
  <2>1. k \in DOMAIN code /\ k \in 1..(Len(code) + 1) /\ l \in 1..(Len(code) + 1)
    BY <1>7
  <2>2. /\ Begins(k) \in Nat /\ Ends(k) = Begins(k) + 4
        /\ Begins(l) <= Begins(k) \/ Ends(k) <= Begins(l)
    BY <1>1, <1>11, <2>1, NoOverlap
  <2>3. Begins(k) <= Begins(l) \/ Ends(l) <= Begins(k)
    BY <1>1, <1>8, <2>1, NoOverlap
  <2>4. Begins(m) <= Begins(k) \/ Ends(k) <= Begins(m)
    <3>1. m \in 1..(Len(code) + 1)
      BY <1>6, <1>7
    <3> QED BY <1>1, <2>1, <3>1, NoOverlap
  <2>5. Begins(k) <= Begins(m)
    <3>1. m \in 1..(m + 1) /\ k \in 1..(m + 1) /\ (k < m \/ k = m)
      BY <1>7, SMTT(30)
    <3>2. k < m => Begins(k) + code[k].width <= Begins(m)
      BY <3>1, TraceFacts DEF m
    <3> QED BY <1>11, <2>2, <3>1, <3>2, <1>6
  <2>6. Begins(k) % 2 = 0
    BY <1>1, <2>1, BeginsGrows
  <2> DEFINE b == Begins(k)
  <2>7. /\ b \in Nat /\ b % 2 = 0
        /\ size - 6 <= b \/ b + 4 <= size - 6
        /\ b <= size - 6 \/ size - 2 <= b
        /\ size - 2 <= b \/ b + 4 <= size - 2
        /\ b <= size - 2
    BY <1>8, <1>9, <1>10, <2>2, <2>3, <2>4, <2>5, <2>6
  <2> HIDE DEF b
  <2>8. b = size - 2 \/ b = size - 6 \/ (b = 0 /\ size = 10)
    BY <1>9, <2>7
  <2>9. (address + b) % 4 = 2
    <3>1. CASE size = 10
      <4>1. address % 4 = 2
        BY <1>1, <1>3, <1>4, <3>1
      <4> QED BY <1>1, <2>8, <3>1, <4>1
    <3>2. CASE size = 8
      <4>1. address % 4 = 0
        BY <1>1, <1>3, <1>4, <3>2
      <4> QED BY <1>1, <2>8, <3>2, <4>1
    <3> QED BY <1>9, <3>1, <3>2
  <2> QED BY <2>9 DEF b
<1> QED BY <1>2, <1>3, <1>5, <1>11 DEF m

\* A Thumb load that was copied reads from before the end of the backup.
LEMMA CopiedLoad ==
    ASSUME NEW i \in Instruction, NEW site \in Int, NEW t \in Int,
           i.op \in {"ldr", "ldr32", "ldrb32"}, T32!RewriteThumb(i, site, t).copied
    PROVE  T32!Word(site + 4 + i.off) < t
<1>1. T32!EmitCode.copied = TRUE /\ \A ops : T32!Emit(ops).copied = FALSE
  BY DEF T32!EmitCode, T32!Emit
<1>2. CASE i.op = "ldr"
  <2>1. T32!RewriteThumb(i, site, t) = T32!RewriteThumb_LDR_PC16(i, site, t)
    BY <1>2 DEF T32!RewriteThumb
  <2>2. T32!RewriteThumb_LDR_PC16(i, site, t)
          = IF T32!Word(site + 4 + i.off) < t THEN T32!EmitCode
            ELSE T32!Emit(<<T32!Mov(i.rd, T32!Word(site + 4 + i.off)), T32!Op(i.rd, T32!At(i.rd))>>)
    BY Zenon DEF T32!RewriteThumb_LDR_PC16, T32!P
  <2> QED BY <1>1, <2>1, <2>2
<1>3. CASE i.op \in {"ldr32", "ldrb32"}
  <2>1. T32!RewriteThumb(i, site, t) = T32!RewriteThumb_LDRL32(i, site, t)
    BY <1>3 DEF T32!RewriteThumb
  <2>2. T32!RewriteThumb_LDRL32(i, site, t)
          = IF T32!Word(site + 4 + i.off) < t THEN T32!EmitCode
            ELSE T32!Emit(<<T32!Mov(i.rd, T32!Word(site + 4 + i.off)),
                            T32!Op(i.rd, IF i.op = "ldrb32" THEN T32!Half(i.rd) ELSE T32!At(i.rd))>>)
    BY Zenon DEF T32!RewriteThumb_LDRL32, T32!P
  <2> QED BY <1>1, <2>1, <2>2
<1> QED BY <1>2, <1>3

\* A copied instruction that refers to the halfword behind a backup that ends
\* early refers to the next one as well.
LEMMA ThumbTail ==
    ASSUME NEW i \in Instruction, T32!Encodes(i), NEW site \in Int, site % 2 = 0,
           NEW t \in Int, t % 4 = 0, i.width = 4 => site % 4 = 2, T32!RewriteThumb(i, site, t).copied
    PROVE  /\ t + 1 \in T32!Anchors(i, site) => t + 2 \in T32!Anchors(i, site)
           /\ t \in T32!Anchors(i, site) /\ i.op \in T32!ReadsWordAligned => t - 1 \in T32!Anchors(i, site)
<1>0. i.off \in Int
  BY DEF Instruction
<1>1. CASE i.op \in {"b", "b32", "bl32", "b_cond", "b_cond32", "cbz", "cbnz"}
  <2>1. T32!Anchors(i, site) = {site + 4 + i.off} /\ i.off % 2 = 0 /\ i.op \notin T32!ReadsWordAligned
    BY <1>1 DEF T32!Anchors, T32!P, T32!Encodes, T32!ReadsWordAligned
  <2>2. t + 1 # site + 4 + i.off
    BY <1>0, <2>1
  <2> QED BY <2>1, <2>2
<1>2. CASE i.op = "ldr"
  <2> DEFINE m == (site + 4) - ((site + 4) % 4) + i.off
  <2>1. T32!Anchors(i, site) = m..(m + 3)
    BY <1>2, Zenon DEF T32!Anchors, T32!P, T32!Word, T32!RoundDown
  <2>2. i.off % 4 = 0
    BY <1>2 DEF T32!Encodes
  <2>3. (site + 4 + i.off) - ((site + 4 + i.off) % 4) < t
    BY <1>2, CopiedLoad DEF T32!Word, T32!RoundDown
  <2>4. m \in Int /\ m % 4 = 0 /\ m < t
    BY <1>0, <2>2, <2>3
  <2> HIDE DEF m
  <2>5. m + 3 < t
    BY <2>4
  <2> QED BY <2>1, <2>4, <2>5
<1>3. CASE i.op \in {"ldr32", "ldrb32"}
  <2> DEFINE m == (site + 4) - ((site + 4) % 4) + i.off
  <2>1. i.width = 4
    BY <1>3 DEF T32!Encodes
  <2>2. (site + 4 + i.off) - ((site + 4 + i.off) % 4) < t
    BY <1>3, CopiedLoad DEF T32!Word, T32!RoundDown
  <2>3. m \in Int /\ m = site + 2 + i.off
    BY <1>0, <2>1
  <2>4. m + 2 < t
    BY <1>0, <2>2, <2>3
  <2>5. T32!Anchors(i, site) = IF i.op = "ldr32" THEN m..(m + 3) ELSE {m}
    BY <1>3, Zenon DEF T32!Anchors, T32!P, T32!Word, T32!RoundDown
  <2> HIDE DEF m
  <2>6. CASE i.op = "ldr32"
    <3>1. T32!Anchors(i, site) = m..(m + 3)
      BY <2>5, <2>6
    <3> QED BY <2>3, <2>4, <3>1
  <2>7. CASE i.op = "ldrb32"
    <3>1. T32!Anchors(i, site) = {m}
      BY <2>5, <2>7
    <3> QED BY <2>3, <2>4, <3>1
  <2> QED BY <1>3, <2>6, <2>7
<1>4. CASE i.op \notin {"b", "b32", "bl32", "b_cond", "b_cond32", "cbz", "cbnz", "ldr", "ldr32", "ldrb32"}
  BY <1>4 DEF T32!Anchors
<1> QED BY <1>1, <1>2, <1>3, <1>4

\* A copy does what the instruction did exactly when it refers to a place in the
\* backup, or to its end, with nothing but copies in between, and when it
\* stands to the word as it stood.
LEMMA CopiesAreExact ==
    ASSUME InlineInv, phase = "hooked", NEW k \in 1..Len(out), Copied(k)
    PROVE  Stays(out[k]) <=> Undisturbed(out[k])
<1> DEFINE site == address + Begins(k)
           A == Anchors(code[k], site)
           Goes(n) == PlaceOf(k) + n - site + Shift(k) \in Moved(n)
           Fine(n) == n \in address..tail /\ Cleared(k, n - address) /\ Shift(k) = 0
<1>1. A \subseteq Int
  BY AnchorsInt
<1>2. /\ Stays(out[k]) <=> \A n \in A : Goes(n)
      /\ Undisturbed(out[k]) <=> \A n \in A : Fine(n)
  BY <1>1, StaysIs, UndisturbedIs
<1>3. Shift(k) \in {-2, 0, 2}
  BY ShiftIs
<1>4. ASSUME NEW n \in Int, index = size \/ (index = size + 2 /\ n # tail + 1 /\ (n = tail => Shift(k) # 2))
      PROVE  Goes(n) <=> Fine(n)
  BY <1>3, <1>4, Finds
<1>5. tail \in Int /\ address \in Int
  <2>1. size \in Nat /\ address \in Nat
    BY LastReaches, TraceFacts
  <2> QED BY <2>1 DEF tail
<1>6. CASE index = size
  <2> HIDE DEF A, Goes, Fine
  <2> QED BY <1>1, <1>2, <1>4, <1>6
<1>7. CASE index # size
  <2>1. isa = "thumb" /\ index = size + 2 /\ (address + size) % 4 = 0
        /\ (code[k].width = 4 => site % 4 = 2)
    BY <1>7, EarlyEnd
  <2>2. /\ tail + 1 \in A => tail + 2 \in A
        /\ tail \in A /\ Aligned(code[k]) => tail - 1 \in A
    <3>1. A = T32!Anchors(code[k], site) /\ (Aligned(code[k]) <=> code[k].op \in T32!ReadsWordAligned)
      BY <2>1 DEF Anchors, Aligned
    <3>2. T32!RewriteThumb(code[k], site, tail).copied
      <4>1. out[k].relocated = Rewritten(code[k], site)
        BY TraceFacts
      <4>2. Rewritten(code[k], site) = T32!RewriteThumb(code[k], site, tail)
        BY <2>1 DEF Rewritten
      <4> QED BY <4>1, <4>2 DEF Copied
    <3>3. code[k] \in Instruction /\ T32!Encodes(code[k]) /\ site \in Int /\ site % 2 = 0
      <4>1. /\ Len(out) \in Nat /\ code \in Seq(Instruction)
            /\ Len(code) \in Nat /\ Len(out) <= Len(code) /\ DOMAIN code = 1..Len(code)
        BY TraceFacts
      <4>2. k \in 1..(Len(out) + 1) /\ k \in DOMAIN code
        BY <4>1
      <4>3. Begins(k) \in Nat /\ Begins(k) % 2 = 0
        BY <4>2, TraceFacts
      <4>4. address \in Nat /\ address % 2 = 0 /\ T32!Encodes(code[k])
        BY <2>1, <4>2, ProgramFacts DEF InlineInv
      <4> QED BY <4>1, <4>2, <4>3, <4>4, SMTT(30)
    <3>4. tail % 4 = 0
      BY <2>1 DEF tail
    <3> HIDE DEF A, site
    <3> QED BY <1>5, <2>1, <3>1, <3>2, <3>3, <3>4, ThumbTail DEF site
  <2>3. CASE tail + 1 \in A
    <3>1. ~Fine(tail + 1) /\ ~Fine(tail + 2)
      BY <1>5
    <3>2. ~Goes(tail + 2)
      <4>1. tail + 2 \in Int /\ tail + 2 # tail + 1 /\ tail + 2 # tail
        BY <1>5
      <4> HIDE DEF Goes, Fine
      <4> QED BY <1>4, <2>1, <3>1, <4>1
    <3> HIDE DEF A, Goes, Fine
    <3> QED BY <1>2, <2>2, <2>3, <3>1, <3>2
  <2>4. CASE tail + 1 \notin A /\ tail \in A /\ Shift(k) = 2
    <3>1. Aligned(code[k])
      BY <2>4 DEF Shift
    <3>2. ~Fine(tail - 1)
      BY <2>4
    <3>3. ~Goes(tail - 1)
      <4>1. tail - 1 \in Int /\ tail - 1 # tail + 1 /\ tail - 1 # tail
        BY <1>5
      <4> HIDE DEF Goes, Fine
      <4> QED BY <1>4, <2>1, <3>2, <4>1
    <3> HIDE DEF A, Goes, Fine
    <3> QED BY <1>2, <2>2, <2>4, <3>1, <3>2, <3>3
  <2>5. CASE tail + 1 \notin A /\ ~(tail \in A /\ Shift(k) = 2)
    <3> HIDE DEF A, Goes, Fine
    <3>1. ASSUME NEW n \in A PROVE Goes(n) <=> Fine(n)
      BY <1>1, <1>4, <2>1, <2>5
    <3> QED BY <1>2, <3>1
  <2> QED BY <2>3, <2>4, <2>5
<1> QED BY <1>6, <1>7

-----------------------------------------------------------------------------
(* The machine                                                             *)

\* A state of the machine, and an operation, from their parts.
St(g, s, n, d, f) == [reg |-> g, stack |-> s, next |-> n, reads |-> d, fault |-> f]
Ins(dst, val, w) == [dst |-> dst, val |-> val, when |-> w]

On == <<"on">>
No == FALSE
Yes == TRUE
Always == BOOLEAN
OnlyYes == {TRUE}
OnlyNo == {FALSE}
Old == [r \in Reg |-> <<"old", r>>]
Put(g, r, e) == [g EXCEPT ![r] = e]
Mem(x) == <<"mem", x>>
HalfWord(x) == <<"half", x>>
Sum2(x, y) == <<"sum", {x, y}>>
Compared(x, y) == <<"compare", x, y>>
Ret == << <<"old", "ret">> >>

\* f lists the states that a run goes through.
Runs(f, ops, outcome) ==
    f = [n \in 0..Len(ops) |-> IF n = 0 THEN Start ELSE Execute(f[n - 1], ops[n], outcome)]

\* Run takes the last state of such a list.
LEMMA RunIs ==
    ASSUME NEW ops, NEW outcome, NEW f, Runs(f, ops, outcome)
    PROVE  \E g : Runs(g, ops, outcome) /\ Run(ops, outcome) = g[Len(ops)]
<1> DEFINE after[n \in 0..Len(ops)] == IF n = 0 THEN Start ELSE Execute(after[n - 1], ops[n], outcome)
<1>1. Run(ops, outcome) = after[Len(ops)]
  BY Zenon DEF Run
<1>2. after = [n \in 0..Len(ops) |-> IF n = 0 THEN Start ELSE Execute(after[n - 1], ops[n], outcome)]
  BY Zenon DEF Runs
<1>3. Runs(after, ops, outcome)
  <2> HIDE DEF after
  <2> QED BY <1>2, Zenon DEF Runs
<1> HIDE DEF after
<1> QED BY <1>1, <1>3, Zenon

\* A run of at most four operations, of which all but the first len are nothing.
LEMMA RunSteps ==
    ASSUME NEW ops, NEW outcome, NEW len \in 1..4, Len(ops) = len,
           NEW s1, s1 = Execute(Start, ops[1], outcome),
           NEW s2, len >= 2 => s2 = Execute(s1, ops[2], outcome),
           NEW s3, len >= 3 => s3 = Execute(s2, ops[3], outcome),
           NEW s4, len >= 4 => s4 = Execute(s3, ops[4], outcome)
    PROVE  Run(ops, outcome) = IF len = 1 THEN s1 ELSE IF len = 2 THEN s2 ELSE IF len = 3 THEN s3 ELSE s4
<1> DEFINE f == [n \in 0..len |-> IF n = 0 THEN Start ELSE IF n = 1 THEN s1
                                  ELSE IF n = 2 THEN s2 ELSE IF n = 3 THEN s3 ELSE s4]
<1>1. f = [n \in 0..len |-> f[n]]
  OBVIOUS
<1>2. /\ f[0] = Start /\ f[1] = s1
      /\ len >= 2 => f[2] = s2
      /\ len >= 3 => f[3] = s3
      /\ len >= 4 => f[4] = s4
  OBVIOUS
<1>3. \A n \in 0..len : n = 0 \/ n = 1 \/ (n = 2 /\ len >= 2) \/ (n = 3 /\ len >= 3) \/ (n = 4 /\ len >= 4)
  OBVIOUS
<1>4. 1 - 1 = 0 /\ 2 - 1 = 1 /\ 3 - 1 = 2 /\ 4 - 1 = 3
  OBVIOUS
<1>5. len >= 4 => len >= 3 /\ len >= 2
  OBVIOUS
<1>6. len >= 3 => len >= 2
  OBVIOUS
<1> HIDE DEF f
<1>7. \A n \in 0..len : f[n] = IF n = 0 THEN Start ELSE Execute(f[n - 1], ops[n], outcome)
  BY <1>2, <1>3, <1>4, <1>5, <1>6
<1>8. Runs(f, ops, outcome)
  BY <1>1, <1>7 DEF Runs
<1>9. PICK g : Runs(g, ops, outcome) /\ Run(ops, outcome) = g[Len(ops)]
  BY <1>8, RunIs
<1>10. \A n \in 0..len : g[n] = IF n = 0 THEN Start ELSE Execute(g[n - 1], ops[n], outcome)
  BY <1>9 DEF Runs
<1>11. /\ g[1] = s1
       /\ len >= 2 => g[2] = s2
       /\ len >= 3 => g[3] = s3
       /\ len >= 4 => g[4] = s4
  <2>1. 0 \in 0..len /\ 1 \in 0..len /\ (len >= 2 => 2 \in 0..len)
        /\ (len >= 3 => 3 \in 0..len) /\ (len >= 4 => 4 \in 0..len)
    OBVIOUS
  <2>2. g[0] = Start /\ g[1] = Execute(g[0], ops[1], outcome)
    BY <1>4, <1>10, <2>1
  <2>3. len >= 2 => g[2] = Execute(g[1], ops[2], outcome)
    BY <1>4, <1>10, <2>1
  <2>4. len >= 3 => g[3] = Execute(g[2], ops[3], outcome)
    BY <1>4, <1>10, <2>1
  <2>5. len >= 4 => g[4] = Execute(g[3], ops[4], outcome)
    BY <1>4, <1>10, <2>1
  <2> QED BY <1>5, <1>6, <2>2, <2>3, <2>4, <2>5
<1>12. Run(ops, outcome) = g[len]
  BY <1>9
<1>13. len = 1 \/ (len = 2 /\ len >= 2) \/ (len = 3 /\ len >= 3) \/ (len = 4 /\ len >= 4)
  OBVIOUS
<1> QED BY <1>11, <1>12, <1>13

\* A run of one operation executes it from the start.
LEMMA RunOne ==
    ASSUME NEW a, NEW outcome
    PROVE  Run(<<a>>, outcome) = Execute(Start, a, outcome)
BY RunSteps, Len(<<a>>) = 1, <<a>>[1] = a, 1 \in 1..4

\* A run of two operations.
LEMMA RunTwo ==
    ASSUME NEW a, NEW b, NEW outcome
    PROVE  Run(<<a, b>>, outcome) = Execute(Execute(Start, a, outcome), b, outcome)
<1> DEFINE ops == <<a, b>>
           s1 == Execute(Start, a, outcome)
           s2 == Execute(s1, b, outcome)
<1>1. Len(ops) = 2 /\ ops[1] = a /\ ops[2] = b /\ 2 \in 1..4
  OBVIOUS
<1> HIDE DEF ops, s1, s2
<1>2. Run(ops, outcome) = s2
  <2>1. s1 = Execute(Start, ops[1], outcome) /\ s2 = Execute(s1, ops[2], outcome)
    BY <1>1, Zenon DEF s1, s2
  <2> QED BY <1>1, <2>1, RunSteps
<1> QED BY <1>2, Zenon DEF ops, s1, s2

\* A run of three.
LEMMA RunThree ==
    ASSUME NEW a, NEW b, NEW c, NEW outcome
    PROVE  Run(<<a, b, c>>, outcome) = Execute(Execute(Execute(Start, a, outcome), b, outcome), c, outcome)
<1> DEFINE ops == <<a, b, c>>
           s1 == Execute(Start, a, outcome)
           s2 == Execute(s1, b, outcome)
           s3 == Execute(s2, c, outcome)
<1>1. Len(ops) = 3 /\ ops[1] = a /\ ops[2] = b /\ ops[3] = c /\ 3 \in 1..4
  OBVIOUS
<1> HIDE DEF ops, s1, s2, s3
<1>2. Run(ops, outcome) = s3
  <2>1. /\ s1 = Execute(Start, ops[1], outcome) /\ s2 = Execute(s1, ops[2], outcome)
        /\ s3 = Execute(s2, ops[3], outcome)
    BY <1>1, Zenon DEF s1, s2, s3
  <2> QED BY <1>1, <2>1, RunSteps
<1> QED BY <1>2, Zenon DEF ops, s1, s2, s3

\* A run of four.
LEMMA RunFour ==
    ASSUME NEW a, NEW b, NEW c, NEW d, NEW outcome
    PROVE  Run(<<a, b, c, d>>, outcome)
             = Execute(Execute(Execute(Execute(Start, a, outcome), b, outcome), c, outcome), d, outcome)
<1> DEFINE ops == <<a, b, c, d>>
           s1 == Execute(Start, a, outcome)
           s2 == Execute(s1, b, outcome)
           s3 == Execute(s2, c, outcome)
           s4 == Execute(s3, d, outcome)
<1>1. Len(ops) = 4 /\ ops[1] = a /\ ops[2] = b /\ ops[3] = c /\ ops[4] = d /\ 4 \in 1..4
  OBVIOUS
<1> HIDE DEF ops, s1, s2, s3, s4
<1>2. Run(ops, outcome) = s4
  <2>1. /\ s1 = Execute(Start, ops[1], outcome) /\ s2 = Execute(s1, ops[2], outcome)
        /\ s3 = Execute(s2, ops[3], outcome) /\ s4 = Execute(s3, ops[4], outcome)
    BY <1>1, Zenon DEF s1, s2, s3, s4
  <2> QED BY <1>1, <2>1, RunSteps
<1> QED BY <1>2, Zenon DEF ops, s1, s2, s3, s4

\* The parts of a state are what it was made of.
LEMMA Parts ==
    ASSUME NEW g, NEW s, NEW n, NEW d, NEW f
    PROVE  /\ St(g, s, n, d, f).reg = g /\ St(g, s, n, d, f).stack = s /\ St(g, s, n, d, f).next = n
           /\ St(g, s, n, d, f).reads = d /\ St(g, s, n, d, f).fault = f
BY DEF St

\* An operation that does not run, because of a jump before it or for its outcome.
LEMMA Skips ==
    ASSUME NEW g, NEW s, NEW n, NEW d, NEW f, NEW op, NEW outcome, n # On \/ outcome \notin op.when
    PROVE  Execute(St(g, s, n, d, f), op, outcome) = St(g, s, n, d, f)
<1>1. St(g, s, n, d, f).next = n
  BY DEF St
<1> QED BY <1>1 DEF Execute, On

\* One that runs has its effect.
LEMMA Runs1 ==
    ASSUME NEW g, NEW s, NEW d, NEW f, NEW dst, NEW v, NEW w, NEW outcome, outcome \in w
    PROVE  Execute(St(g, s, On, d, f), Ins(dst, v, w), outcome) = Effect(St(g, s, On, d, f), Ins(dst, v, w))
<1>1. St(g, s, On, d, f).next = <<"on">> /\ Ins(dst, v, w).when = w
  BY DEF St, On, Ins
<1> QED BY <1>1 DEF Execute

\* What a register holds, as far as code may know: not pc.
Holds(g, r) == IF r = "pc" THEN <<"junk">> ELSE g[r]

\* The values of the terms.
LEMMA ValueIs ==
    ASSUME NEW g, NEW s, NEW d, NEW f, NEW r
    PROVE  Value(St(g, s, On, d, f), r) = Holds(g, r)
BY DEF Value, Junk, St, Holds

\* A constant is its own value, and reads nothing.
LEMMA EvalConstant ==
    ASSUME NEW m, NEW e, e[1] \notin {"reg", "load", "loadhalf", "plus", "compare"}
    PROVE  Eval(m, e) = e /\ Reads(m, e) = {}
BY DEF Eval, Reads

\* A copy of a register has the value of the register.
LEMMA EvalReg ==
    ASSUME NEW g, NEW s, NEW d, NEW f, NEW r
    PROVE  /\ Eval(St(g, s, On, d, f), Of(r)) = Holds(g, r)
           /\ Reads(St(g, s, On, d, f), Of(r)) = {}
BY ValueIs DEF Eval, Reads, Of

\* A load reads the word it has as its value.
LEMMA EvalLoad ==
    ASSUME NEW g, NEW s, NEW d, NEW f, NEW r
    PROVE  /\ Eval(St(g, s, On, d, f), At(r)) = Mem(Holds(g, r))
           /\ Reads(St(g, s, On, d, f), At(r)) = {Holds(g, r)}
<1> DEFINE m == St(g, s, On, d, f)
<1>1. Value(m, r) = Holds(g, r)
  BY ValueIs
<1> HIDE DEF m
<1>2. Eval(m, At(r)) = Mem(Holds(g, r)) /\ Reads(m, At(r)) = {Holds(g, r)}
  BY <1>1 DEF Eval, Reads, At, Mem
<1> QED BY <1>2, Zenon DEF m

\* So does the load of a halfword.
LEMMA EvalHalf ==
    ASSUME NEW g, NEW s, NEW d, NEW f, NEW r
    PROVE  /\ Eval(St(g, s, On, d, f), Half(r)) = HalfWord(Holds(g, r))
           /\ Reads(St(g, s, On, d, f), Half(r)) = {Holds(g, r)}
<1> DEFINE m == St(g, s, On, d, f)
<1>1. Value(m, r) = Holds(g, r)
  BY ValueIs
<1> HIDE DEF m
<1>2. Eval(m, Half(r)) = HalfWord(Holds(g, r)) /\ Reads(m, Half(r)) = {Holds(g, r)}
  BY <1>1 DEF Eval, Reads, Half, HalfWord
<1> QED BY <1>2, Zenon DEF m

\* A sum is that of the two values.
LEMMA EvalPlus ==
    ASSUME NEW g, NEW s, NEW d, NEW f, NEW r, NEW q
    PROVE  /\ Eval(St(g, s, On, d, f), Plus(r, q)) = Sum2(Holds(g, r), Holds(g, q))
           /\ Reads(St(g, s, On, d, f), Plus(r, q)) = {}
<1> DEFINE m == St(g, s, On, d, f)
<1>1. Value(m, r) = Holds(g, r) /\ Value(m, q) = Holds(g, q)
  BY ValueIs
<1> HIDE DEF m
<1>2. Eval(m, Plus(r, q)) = Sum2(Holds(g, r), Holds(g, q)) /\ Reads(m, Plus(r, q)) = {}
  BY <1>1 DEF Eval, Reads, Plus, Sum2
<1> QED BY <1>2, Zenon DEF m

\* A comparison says what the two values were.
LEMMA EvalCompare ==
    ASSUME NEW g, NEW s, NEW d, NEW f, NEW r, NEW q
    PROVE  /\ Eval(St(g, s, On, d, f), Compare(r, q)) = Compared(Holds(g, r), Holds(g, q))
           /\ Reads(St(g, s, On, d, f), Compare(r, q)) = {}
<1> DEFINE m == St(g, s, On, d, f)
<1>1. Value(m, r) = Holds(g, r) /\ Value(m, q) = Holds(g, q)
  BY ValueIs
<1> HIDE DEF m
<1>2. Eval(m, Compare(r, q)) = Compared(Holds(g, r), Holds(g, q)) /\ Reads(m, Compare(r, q)) = {}
  BY <1>1 DEF Eval, Reads, Compare, Compared
<1> QED BY <1>2, Zenon DEF m

\* An operation on a register puts its value there.
LEMMA OnReg ==
    ASSUME NEW g, NEW s, NEW d, NEW f, NEW r \in Reg, NEW v, NEW w, NEW outcome, outcome \in w
    PROVE  Execute(St(g, s, On, d, f), Ins(r, v, w), outcome)
             = St(Put(g, r, Eval(St(g, s, On, d, f), v)), s, On, d \union Reads(St(g, s, On, d, f), v), f)
<1> DEFINE m == St(g, s, On, d, f)
           e == Eval(m, v)
           x == Reads(m, v)
           h == Put(g, r, e)
           y == d \union x
           k == St(h, s, On, d, f)
<1>1. m.reg = g /\ m.reads = d
  BY Parts
<1>2. r \notin {"pc", "push", "pop", "touch", "fault"}
  BY DEF Reg
<1> HIDE DEF h, y
<1>3. [m EXCEPT !.reg = h] = k
  BY DEF St
<1>4. [k EXCEPT !.reads = y] = St(h, s, On, y, f)
  BY DEF St
<1>5. Execute(m, Ins(r, v, w), outcome) = Effect(m, Ins(r, v, w))
  BY Runs1
<1> HIDE DEF m, k
<1>6. Effect(m, Ins(r, v, w)) = [m EXCEPT !.reg[r] = e, !.reads = @ \union x]
  BY <1>2 DEF Effect, Ins
<1> HIDE DEF e, x
<1>7. Effect(m, Ins(r, v, w)) = [[m EXCEPT !.reg = [m.reg EXCEPT ![r] = e]] EXCEPT !.reads = m.reads \union x]
  BY <1>6
<1>8. Effect(m, Ins(r, v, w)) = [k EXCEPT !.reads = y]
  BY <1>1, <1>3, <1>7, Zenon DEF h, y, Put
<1> QED BY <1>4, <1>5, <1>8, Zenon DEF h, y, m, e, x

\* One on pc ends the run with its value.
LEMMA OnPc ==
    ASSUME NEW g, NEW s, NEW d, NEW f, NEW v, NEW w, NEW outcome, outcome \in w
    PROVE  Execute(St(g, s, On, d, f), Ins("pc", v, w), outcome)
             = St(g, s, Eval(St(g, s, On, d, f), v), d \union Reads(St(g, s, On, d, f), v), f)
<1> DEFINE m == St(g, s, On, d, f)
           e == Eval(m, v)
           x == Reads(m, v)
           y == d \union x
           k == St(g, s, e, d, f)
<1>1. m.reads = d
  BY Parts
<1> HIDE DEF y, e
<1>3. [m EXCEPT !.next = e] = k
  BY DEF St
<1>4. [k EXCEPT !.reads = y] = St(g, s, e, y, f)
  BY DEF St
<1>5. Execute(m, Ins("pc", v, w), outcome) = Effect(m, Ins("pc", v, w))
  BY Runs1
<1> HIDE DEF m, k
<1>6. Effect(m, Ins("pc", v, w)) = [m EXCEPT !.next = e, !.reads = @ \union x]
  BY DEF Effect, Ins, e
<1> HIDE DEF x
<1>7. Effect(m, Ins("pc", v, w)) = [[m EXCEPT !.next = e] EXCEPT !.reads = m.reads \union x]
  BY <1>6
<1>8. Effect(m, Ins("pc", v, w)) = [k EXCEPT !.reads = y]
  BY <1>1, <1>3, <1>7, Zenon DEF y
<1> QED BY <1>4, <1>5, <1>8, Zenon DEF y, m, e, x

\* A push puts its value on the stack.
LEMMA OnPush ==
    ASSUME NEW g, NEW s, NEW d, NEW f, NEW r \in Reg, NEW w, NEW outcome, outcome \in w
    PROVE  Execute(St(g, s, On, d, f), Ins("push", Of(r), w), outcome) = St(g, Append(s, g[r]), On, d, f)
<1> DEFINE m == St(g, s, On, d, f)
           y == Append(s, g[r])
<1>1. m.stack = s
  BY Parts
<1>2. r # "pc"
  BY DEF Reg
<1>3. Eval(m, Of(r)) = g[r]
  <2>1. Eval(m, Of(r)) = Holds(g, r)
    BY EvalReg
  <2> QED BY <1>2, <2>1 DEF Holds
<1> HIDE DEF y
<1>4. [m EXCEPT !.stack = y] = St(g, y, On, d, f)
  BY DEF St
<1>5. Execute(m, Ins("push", Of(r), w), outcome) = Effect(m, Ins("push", Of(r), w))
  BY Runs1
<1> HIDE DEF m
<1>6. Effect(m, Ins("push", Of(r), w)) = [m EXCEPT !.stack = Append(@, Eval(m, Of(r)))]
  BY DEF Effect, Ins, Of
<1>7. Effect(m, Ins("push", Of(r), w)) = [m EXCEPT !.stack = y]
  BY <1>1, <1>3, <1>6 DEF y
<1> QED BY <1>4, <1>5, <1>7, Zenon DEF y, m

\* A pop takes it from there.
LEMMA OnPop ==
    ASSUME NEW g, NEW s, NEW d, NEW f, NEW r \in Reg, NEW w, NEW outcome, outcome \in w
    PROVE  Execute(St(g, s, On, d, f), Ins("pop", <<r>>, w), outcome)
             = St(Put(g, r, Last(s)), Front(s), On, d, f)
<1> DEFINE m == St(g, s, On, d, f)
           h == Put(g, r, Last(s))
           y == Front(s)
           k == St(h, s, On, d, f)
<1>1. m.reg = g /\ m.stack = s
  BY Parts
<1> HIDE DEF h, y
<1>2. [m EXCEPT !.reg = h] = k
  BY DEF St
<1>3. [k EXCEPT !.stack = y] = St(h, y, On, d, f)
  BY DEF St
<1>4. Execute(m, Ins("pop", <<r>>, w), outcome) = Effect(m, Ins("pop", <<r>>, w))
  BY Runs1
<1> HIDE DEF m, k
<1>5. Effect(m, Ins("pop", <<r>>, w)) = [m EXCEPT !.reg[r] = Last(m.stack), !.stack = Front(@)]
  <2>1. Ins("pop", <<r>>, w).dst = "pop" /\ Ins("pop", <<r>>, w).val[1] = r
    BY DEF Ins
  <2> QED BY <2>1 DEF Effect
<1>6. Effect(m, Ins("pop", <<r>>, w))
        = [[m EXCEPT !.reg = [m.reg EXCEPT ![r] = Last(s)]] EXCEPT !.stack = Front(m.stack)]
  BY <1>1, <1>5
<1>7. Effect(m, Ins("pop", <<r>>, w)) = [k EXCEPT !.stack = y]
  BY <1>1, <1>2, <1>6, Zenon DEF h, y, Put
<1> QED BY <1>3, <1>4, <1>7, Zenon DEF h, y, m

\* A touch reads a place.
LEMMA OnTouch ==
    ASSUME NEW g, NEW s, NEW d, NEW f, NEW v, NEW w, NEW outcome, outcome \in w
    PROVE  Execute(St(g, s, On, d, f), Ins("touch", v, w), outcome) = St(g, s, On, d \union {v}, f)
<1> DEFINE m == St(g, s, On, d, f)
           y == d \union {v}
<1>1. m.reads = d
  BY Parts
<1>2. Execute(m, Ins("touch", v, w), outcome) = Effect(m, Ins("touch", v, w))
  BY Runs1
<1> HIDE DEF y
<1>3. [m EXCEPT !.reads = y] = St(g, s, On, y, f)
  BY DEF St
<1> HIDE DEF m
<1>4. Effect(m, Ins("touch", v, w)) = [m EXCEPT !.reads = @ \union {v}]
  BY DEF Effect, Ins
<1>5. Effect(m, Ins("touch", v, w)) = [m EXCEPT !.reads = y]
  BY <1>1, <1>4 DEF y
<1> QED BY <1>2, <1>3, <1>5, Zenon DEF m, y

\* A fault sets the mark that is never taken back.
LEMMA OnFault ==
    ASSUME NEW g, NEW s, NEW d, NEW f, NEW v, NEW w, NEW outcome, outcome \in w
    PROVE  Execute(St(g, s, On, d, f), Ins("fault", v, w), outcome) = St(g, s, On, d, Yes)
<1> DEFINE m == St(g, s, On, d, f)
<1>1. Execute(m, Ins("fault", v, w), outcome) = Effect(m, Ins("fault", v, w))
  BY Runs1
<1>2. [m EXCEPT !.fault = Yes] = St(g, s, On, d, Yes)
  <2>1. ASSUME NEW x PROVE [m EXCEPT !.fault = x] = St(g, s, On, d, x)
    BY DEF St
  <2> HIDE DEF m
  <2> QED BY <2>1, Zenon
<1> HIDE DEF m
<1>3. Effect(m, Ins("fault", v, w)) = [m EXCEPT !.fault = Yes]
  BY DEF Effect, Ins, Yes
<1> QED BY <1>1, <1>2, <1>3, Zenon DEF m

\* What is pushed can be popped.
LEMMA PushPop ==
    ASSUME NEW a, NEW b
    PROVE  /\ Last(Append(<<a>>, b)) = b /\ Front(Append(<<a>>, b)) = <<a>> /\ Append(<<a>>, b) # <<a>>
           /\ Last(<<a>>) = a
<1> DEFINE S == {a, b}
           s == Append(<<a>>, b)
<1>1. <<a>> \in Seq(S) /\ Len(<<a>>) = 1 /\ <<a>>[1] = a /\ b \in S
  OBVIOUS
<1>2. s \in Seq(S) /\ Len(s) = 2 /\ s[1] = a /\ s[2] = b
  BY <1>1
<1> HIDE DEF s, S
<1>3. Last(s) = b /\ s # <<a>> /\ Last(<<a>>) = a
  BY <1>1, <1>2 DEF Last
<1>4. Front(s) = <<a>>
  <2>1. Front(s) = SubSeq(s, 1, 1)
    <3>1. Len(s) - 1 = 1
      BY <1>2
    <3> QED BY <3>1, Zenon DEF Front
  <2>2. SubSeq(s, 1, 1) \in Seq(S) /\ Len(SubSeq(s, 1, 1)) = 1 /\ SubSeq(s, 1, 1)[1] = a
    BY <1>2
  <2>3. \A n \in 1..1 : SubSeq(s, 1, 1)[n] = <<a>>[n]
    BY <1>1, <2>2
  <2> QED BY <1>1, <2>1, <2>2, <2>3, SeqEqual
<1> QED BY <1>3, <1>4 DEF s

\* The operations that occur, where the run goes on to them.  A move of a constant into
\* a register.
LEMMA MoveReg ==
    ASSUME NEW g, NEW s, NEW d, NEW f, NEW r \in Reg,
           NEW t, t[1] \notin {"reg", "load", "loadhalf", "plus", "compare"},
           NEW w, NEW outcome, outcome \in w
    PROVE  Execute(St(g, s, On, d, f), Ins(r, t, w), outcome)
             = St(Put(g, r, t), s, On, d, f)
<1>1. Eval(St(g, s, On, d, f), t) = t /\ Reads(St(g, s, On, d, f), t) = {}
  BY EvalConstant
<1>2. Execute(St(g, s, On, d, f), Ins(r, t, w), outcome)
        = St(Put(g, r, Eval(St(g, s, On, d, f), t)), s, On, d \union Reads(St(g, s, On, d, f), t), f)
  BY OnReg
<1>3. d \union {} = d
  OBVIOUS
<1> QED BY <1>1, <1>2, <1>3, Zenon

\* A move of a register into another.
LEMMA CopyReg ==
    ASSUME NEW g, NEW s, NEW d, NEW f, NEW r \in Reg, NEW q, NEW w, NEW outcome, outcome \in w
    PROVE  Execute(St(g, s, On, d, f), Ins(r, Of(q), w), outcome)
             = St(Put(g, r, Holds(g, q)), s, On, d, f)
<1>1. Eval(St(g, s, On, d, f), Of(q)) = Holds(g, q) /\ Reads(St(g, s, On, d, f), Of(q)) = {}
  BY EvalReg
<1>2. Execute(St(g, s, On, d, f), Ins(r, Of(q), w), outcome)
        = St(Put(g, r, Eval(St(g, s, On, d, f), Of(q))), s, On, d \union Reads(St(g, s, On, d, f), Of(q)), f)
  BY OnReg
<1>3. d \union {} = d
  OBVIOUS
<1> QED BY <1>1, <1>2, <1>3, Zenon

\* A load into a register.
LEMMA LoadReg ==
    ASSUME NEW g, NEW s, NEW d, NEW f, NEW r \in Reg, NEW q, NEW w, NEW outcome, outcome \in w
    PROVE  Execute(St(g, s, On, d, f), Ins(r, At(q), w), outcome)
             = St(Put(g, r, Mem(Holds(g, q))), s, On, d \union {Holds(g, q)}, f)
<1>1. Eval(St(g, s, On, d, f), At(q)) = Mem(Holds(g, q)) /\ Reads(St(g, s, On, d, f), At(q)) = {Holds(g, q)}
  BY EvalLoad
<1>2. Execute(St(g, s, On, d, f), Ins(r, At(q), w), outcome)
        = St(Put(g, r, Eval(St(g, s, On, d, f), At(q))), s, On, d \union Reads(St(g, s, On, d, f), At(q)), f)
  BY OnReg
<1> QED BY <1>1, <1>2, Zenon

\* A load of a halfword into a register.
LEMMA LoadHalfReg ==
    ASSUME NEW g, NEW s, NEW d, NEW f, NEW r \in Reg, NEW q, NEW w, NEW outcome, outcome \in w
    PROVE  Execute(St(g, s, On, d, f), Ins(r, Half(q), w), outcome)
             = St(Put(g, r, HalfWord(Holds(g, q))), s, On, d \union {Holds(g, q)}, f)
<1>1. Eval(St(g, s, On, d, f), Half(q)) = HalfWord(Holds(g, q))
        /\ Reads(St(g, s, On, d, f), Half(q)) = {Holds(g, q)}
  BY EvalHalf
<1>2. Execute(St(g, s, On, d, f), Ins(r, Half(q), w), outcome)
        = St(Put(g, r, Eval(St(g, s, On, d, f), Half(q))), s, On,
            d \union Reads(St(g, s, On, d, f), Half(q)), f)
  BY OnReg
<1> QED BY <1>1, <1>2, Zenon

\* A sum that goes into a register.
LEMMA PlusReg ==
    ASSUME NEW g, NEW s, NEW d, NEW f, NEW r \in Reg, NEW p, NEW q, NEW w, NEW outcome, outcome \in w
    PROVE  Execute(St(g, s, On, d, f), Ins(r, Plus(p, q), w), outcome)
             = St(Put(g, r, Sum2(Holds(g, p), Holds(g, q))), s, On, d, f)
<1>1. Eval(St(g, s, On, d, f), Plus(p, q)) = Sum2(Holds(g, p), Holds(g, q))
        /\ Reads(St(g, s, On, d, f), Plus(p, q)) = {}
  BY EvalPlus
<1>2. Execute(St(g, s, On, d, f), Ins(r, Plus(p, q), w), outcome)
        = St(Put(g, r, Eval(St(g, s, On, d, f), Plus(p, q))), s, On,
            d \union Reads(St(g, s, On, d, f), Plus(p, q)), f)
  BY OnReg
<1>3. d \union {} = d
  OBVIOUS
<1> QED BY <1>1, <1>2, <1>3, Zenon

\* What a comparison says goes into a register.
LEMMA CompareReg ==
    ASSUME NEW g, NEW s, NEW d, NEW f, NEW r \in Reg, NEW p, NEW q, NEW w, NEW outcome, outcome \in w
    PROVE  Execute(St(g, s, On, d, f), Ins(r, Compare(p, q), w), outcome)
             = St(Put(g, r, Compared(Holds(g, p), Holds(g, q))), s, On, d, f)
<1>1. Eval(St(g, s, On, d, f), Compare(p, q)) = Compared(Holds(g, p), Holds(g, q))
        /\ Reads(St(g, s, On, d, f), Compare(p, q)) = {}
  BY EvalCompare
<1>2. Execute(St(g, s, On, d, f), Ins(r, Compare(p, q), w), outcome)
        = St(Put(g, r, Eval(St(g, s, On, d, f), Compare(p, q))), s, On,
            d \union Reads(St(g, s, On, d, f), Compare(p, q)), f)
  BY OnReg
<1>3. d \union {} = d
  OBVIOUS
<1> QED BY <1>1, <1>2, <1>3, Zenon

\* A jump to a constant.
LEMMA MovePc ==
    ASSUME NEW g, NEW s, NEW d, NEW f, NEW t, t[1] \notin {"reg", "load", "loadhalf", "plus", "compare"},
           NEW w, NEW outcome, outcome \in w
    PROVE  Execute(St(g, s, On, d, f), Ins("pc", t, w), outcome)
             = St(g, s, t, d, f)
<1>1. Eval(St(g, s, On, d, f), t) = t /\ Reads(St(g, s, On, d, f), t) = {}
  BY EvalConstant
<1>2. Execute(St(g, s, On, d, f), Ins("pc", t, w), outcome)
        = St(g, s, Eval(St(g, s, On, d, f), t), d \union Reads(St(g, s, On, d, f), t), f)
  BY OnPc
<1>3. d \union {} = d
  OBVIOUS
<1> QED BY <1>1, <1>2, <1>3, Zenon

\* A jump to what a register holds.
LEMMA CopyPc ==
    ASSUME NEW g, NEW s, NEW d, NEW f, NEW q, NEW w, NEW outcome, outcome \in w
    PROVE  Execute(St(g, s, On, d, f), Ins("pc", Of(q), w), outcome)
             = St(g, s, Holds(g, q), d, f)
<1>1. Eval(St(g, s, On, d, f), Of(q)) = Holds(g, q) /\ Reads(St(g, s, On, d, f), Of(q)) = {}
  BY EvalReg
<1>2. Execute(St(g, s, On, d, f), Ins("pc", Of(q), w), outcome)
        = St(g, s, Eval(St(g, s, On, d, f), Of(q)), d \union Reads(St(g, s, On, d, f), Of(q)), f)
  BY OnPc
<1>3. d \union {} = d
  OBVIOUS
<1> QED BY <1>1, <1>2, <1>3, Zenon

\* A jump to what memory holds.
LEMMA LoadPc ==
    ASSUME NEW g, NEW s, NEW d, NEW f, NEW q, NEW w, NEW outcome, outcome \in w
    PROVE  Execute(St(g, s, On, d, f), Ins("pc", At(q), w), outcome)
             = St(g, s, Mem(Holds(g, q)), d \union {Holds(g, q)}, f)
<1>1. Eval(St(g, s, On, d, f), At(q)) = Mem(Holds(g, q)) /\ Reads(St(g, s, On, d, f), At(q)) = {Holds(g, q)}
  BY EvalLoad
<1>2. Execute(St(g, s, On, d, f), Ins("pc", At(q), w), outcome)
        = St(g, s, Eval(St(g, s, On, d, f), At(q)), d \union Reads(St(g, s, On, d, f), At(q)), f)
  BY OnPc
<1> QED BY <1>1, <1>2, Zenon

\* A jump to a halfword of it.
LEMMA LoadHalfPc ==
    ASSUME NEW g, NEW s, NEW d, NEW f, NEW q, NEW w, NEW outcome, outcome \in w
    PROVE  Execute(St(g, s, On, d, f), Ins("pc", Half(q), w), outcome)
             = St(g, s, HalfWord(Holds(g, q)), d \union {Holds(g, q)}, f)
<1>1. Eval(St(g, s, On, d, f), Half(q)) = HalfWord(Holds(g, q))
        /\ Reads(St(g, s, On, d, f), Half(q)) = {Holds(g, q)}
  BY EvalHalf
<1>2. Execute(St(g, s, On, d, f), Ins("pc", Half(q), w), outcome)
        = St(g, s, Eval(St(g, s, On, d, f), Half(q)), d \union Reads(St(g, s, On, d, f), Half(q)), f)
  BY OnPc
<1> QED BY <1>1, <1>2, Zenon

\* A jump to a sum.
LEMMA PlusPc ==
    ASSUME NEW g, NEW s, NEW d, NEW f, NEW p, NEW q, NEW w, NEW outcome, outcome \in w
    PROVE  Execute(St(g, s, On, d, f), Ins("pc", Plus(p, q), w), outcome)
             = St(g, s, Sum2(Holds(g, p), Holds(g, q)), d, f)
<1>1. Eval(St(g, s, On, d, f), Plus(p, q)) = Sum2(Holds(g, p), Holds(g, q))
        /\ Reads(St(g, s, On, d, f), Plus(p, q)) = {}
  BY EvalPlus
<1>2. Execute(St(g, s, On, d, f), Ins("pc", Plus(p, q), w), outcome)
        = St(g, s, Eval(St(g, s, On, d, f), Plus(p, q)), d \union Reads(St(g, s, On, d, f), Plus(p, q)), f)
  BY OnPc
<1>3. d \union {} = d
  OBVIOUS
<1> QED BY <1>1, <1>2, <1>3, Zenon

-----------------------------------------------------------------------------
(* Outcomes                                                                *)

\* Two pieces of code agree on an outcome when they end alike.
LEMMA OutcomesAre ==
    ASSUME NEW ops, NEW others, NEW outcome,
           NEW g, NEW s, NEW n, NEW d, NEW f, Run(ops, outcome) = St(g, s, n, d, f),
           NEW h, NEW t, NEW k, NEW c, NEW e, Run(others, outcome) = St(h, t, k, c, e)
    PROVE  Outcome(ops, outcome) = Outcome(others, outcome)
             <=> /\ \A r \in Reg \ Scratch : g[r] = h[r]
                 /\ s = t /\ n = k /\ d = c /\ f = e
<1> DEFINE a == [r \in Reg \ Scratch |-> g[r]]
           b == [r \in Reg \ Scratch |-> h[r]]
<1>1. a = b <=> \A r \in Reg \ Scratch : g[r] = h[r]
  <2>1. a = b => \A r \in Reg \ Scratch : a[r] = b[r]
    OBVIOUS
  <2>2. (\A r \in Reg \ Scratch : g[r] = h[r]) => a = b
    OBVIOUS
  <2> QED BY <2>1, <2>2
<1>2. Outcome(ops, outcome) = [St(g, s, n, d, f) EXCEPT !.reg = a]
  <2>1. St(g, s, n, d, f).reg = g
    BY Parts
  <2> QED BY <2>1, Zenon DEF Outcome
<1>3. Outcome(others, outcome) = [St(h, t, k, c, e) EXCEPT !.reg = b]
  <2>1. St(h, t, k, c, e).reg = h
    BY Parts
  <2> QED BY <2>1, Zenon DEF Outcome
<1> HIDE DEF a, b
<1>4. [St(g, s, n, d, f) EXCEPT !.reg = a] = St(a, s, n, d, f)
  BY DEF St
<1>5. [St(h, t, k, c, e) EXCEPT !.reg = b] = St(b, t, k, c, e)
  BY DEF St
<1>6. St(a, s, n, d, f) = St(b, t, k, c, e) <=> a = b /\ s = t /\ n = k /\ d = c /\ f = e
  <2>1. St(a, s, n, d, f) = St(b, t, k, c, e)
          => /\ St(a, s, n, d, f).reg = St(b, t, k, c, e).reg
             /\ St(a, s, n, d, f).stack = St(b, t, k, c, e).stack
             /\ St(a, s, n, d, f).next = St(b, t, k, c, e).next
             /\ St(a, s, n, d, f).reads = St(b, t, k, c, e).reads
             /\ St(a, s, n, d, f).fault = St(b, t, k, c, e).fault
    BY Zenon
  <2>2. /\ St(a, s, n, d, f).reg = a /\ St(a, s, n, d, f).stack = s /\ St(a, s, n, d, f).next = n
        /\ St(a, s, n, d, f).reads = d /\ St(a, s, n, d, f).fault = f
    BY Parts
  <2>3. /\ St(b, t, k, c, e).reg = b /\ St(b, t, k, c, e).stack = t /\ St(b, t, k, c, e).next = k
        /\ St(b, t, k, c, e).reads = c /\ St(b, t, k, c, e).fault = e
    BY Parts
  <2> QED BY <2>1, <2>2, <2>3, Zenon
<1> QED BY <1>1, <1>2, <1>3, <1>4, <1>5, <1>6, Zenon

\* The destinations are those of the ends of the two runs.
LEMMA Leads ==
    ASSUME NEW ops, NEW x,
           NEW g, NEW s, NEW n, NEW d, NEW f, Run(ops, Yes) = St(g, s, n, d, f),
           NEW h, NEW t, NEW k, NEW c, NEW e, Run(ops, No) = St(h, t, k, c, e)
    PROVE  x \in Destinations(ops) <=> x \in {n, g["lr"], Last(s), k, h["lr"], Last(t)}
<1> DEFINE D(oc) == LET m == Run(ops, oc) IN {m.next, m.reg["lr"], Last(m.stack)}
<1>1. Destinations(ops) = UNION {D(oc) : oc \in BOOLEAN}
  BY DEF Destinations
<1>2. D(Yes) = {n, g["lr"], Last(s)}
  <2>1. St(g, s, n, d, f).next = n /\ St(g, s, n, d, f).reg = g /\ St(g, s, n, d, f).stack = s
    BY Parts
  <2> QED BY <2>1
<1>3. D(No) = {k, h["lr"], Last(t)}
  <2>1. St(h, t, k, c, e).next = k /\ St(h, t, k, c, e).reg = h /\ St(h, t, k, c, e).stack = t
    BY Parts
  <2> QED BY <2>1
<1> HIDE DEF D
<1>4. x \in Destinations(ops) <=> x \in D(Yes) \/ x \in D(No)
  <2>1. \A oc \in BOOLEAN : oc = Yes \/ oc = No
    BY DEF Yes, No
  <2>2. x \in Destinations(ops) <=> \E oc \in BOOLEAN : x \in D(oc)
    BY <1>1, Zenon
  <2>3. Yes \in BOOLEAN /\ No \in BOOLEAN
    BY DEF Yes, No
  <2> QED BY <2>1, <2>2, <2>3, Zenon
<1> QED BY <1>2, <1>3, <1>4

-----------------------------------------------------------------------------
(* Runs of the pieces of code that occur                                   *)

Begun == St(Old, Ret, On, {}, No)

\* What is kept in terms of constants is taken as it is.
Plain(t) == t[1] \notin {"reg", "load", "loadhalf", "plus", "compare"}

\* Where a run starts, in terms of the parts.
LEMMA StartBegun == Start = Begun
BY DEF Begun, Start, St, Old, Ret, On, No

\* One operation that does not run for an outcome changes nothing.
LEMMA SkipOne ==
    ASSUME NEW r, NEW v, NEW w, NEW outcome, outcome \notin w
    PROVE  Run(<<Ins(r, v, w)>>, outcome) = Begun
<1>1. Ins(r, v, w).when = w
  BY DEF Ins
<1>2. Execute(Begun, Ins(r, v, w), outcome) = Begun
  BY <1>1, Skips DEF Begun
<1> QED BY <1>2, RunOne, StartBegun

\* Nor do two.
LEMMA SkipTwo ==
    ASSUME NEW r, NEW v, NEW q, NEW u, NEW w, NEW outcome, outcome \notin w
    PROVE  Run(<<Ins(r, v, w), Ins(q, u, w)>>, outcome) = Begun
<1>1. Ins(r, v, w).when = w /\ Ins(q, u, w).when = w
  BY DEF Ins
<1>2. Execute(Begun, Ins(r, v, w), outcome) = Begun
  BY <1>1, Skips DEF Begun
<1>3. Execute(Begun, Ins(q, u, w), outcome) = Begun
  BY <1>1, Skips DEF Begun
<1> QED BY <1>2, <1>3, RunTwo, StartBegun

\* Nor do four.
LEMMA SkipFour ==
    ASSUME NEW r, NEW v, NEW q, NEW u, NEW o, NEW x, NEW p, NEW y, NEW w, NEW outcome, outcome \notin w
    PROVE  Run(<<Ins(r, v, w), Ins(q, u, w), Ins(o, x, w), Ins(p, y, w)>>, outcome) = Begun
<1>1. Ins(r, v, w).when = w /\ Ins(q, u, w).when = w /\ Ins(o, x, w).when = w /\ Ins(p, y, w).when = w
  BY DEF Ins
<1>2. Execute(Begun, Ins(r, v, w), outcome) = Begun
  BY <1>1, Skips DEF Begun
<1>3. Execute(Begun, Ins(q, u, w), outcome) = Begun
  BY <1>1, Skips DEF Begun
<1>4. Execute(Begun, Ins(o, x, w), outcome) = Begun
  BY <1>1, Skips DEF Begun
<1>5. Execute(Begun, Ins(p, y, w), outcome) = Begun
  BY <1>1, Skips DEF Begun
<1> QED BY <1>2, <1>3, <1>4, <1>5, RunFour, StartBegun

\* A move by itself.
LEMMA MoveRun ==
    ASSUME NEW r \in Reg, NEW t, Plain(t), NEW w, NEW outcome, outcome \in w
    PROVE  Run(<<Ins(r, t, w)>>, outcome) = St(Put(Old, r, t), Ret, On, {}, No)
<1>1. Execute(Begun, Ins(r, t, w), outcome) = St(Put(Old, r, t), Ret, On, {}, No)
  BY MoveReg DEF Begun, Plain
<1> QED BY <1>1, RunOne, StartBegun

\* A jump by itself.
LEMMA JumpRun ==
    ASSUME NEW t, Plain(t), NEW w, NEW outcome, outcome \in w
    PROVE  Run(<<Ins("pc", t, w)>>, outcome) = St(Old, Ret, t, {}, No)
<1>1. Execute(Begun, Ins("pc", t, w), outcome) = St(Old, Ret, t, {}, No)
  BY MovePc DEF Begun, Plain
<1> QED BY <1>1, RunOne, StartBegun

\* A prefetch by itself.
LEMMA TouchRun ==
    ASSUME NEW t, NEW w, NEW outcome, outcome \in w
    PROVE  Run(<<Ins("touch", t, w)>>, outcome) = St(Old, Ret, On, {} \union {t}, No)
<1>1. Execute(Begun, Ins("touch", t, w), outcome) = St(Old, Ret, On, {} \union {t}, No)
  BY OnTouch DEF Begun
<1> QED BY <1>1, RunOne, StartBegun

\* A move and one operation more.
LEMMA PairRun ==
    ASSUME NEW r \in Reg, NEW t, Plain(t), NEW w, NEW op, NEW outcome, outcome \in w
    PROVE  Run(<<Ins(r, t, w), op>>, outcome)
             = Execute(St(Put(Old, r, t), Ret, On, {}, No), op, outcome)
<1>1. Execute(Begun, Ins(r, t, w), outcome) = St(Put(Old, r, t), Ret, On, {}, No)
  BY MoveReg DEF Begun, Plain
<1> QED BY <1>1, RunTwo, StartBegun

\* What stands behind a jump is not reached.
LEMMA BehindJump ==
    ASSUME NEW t, Plain(t), t # On, NEW w, NEW op, NEW outcome, outcome \in w
    PROVE  Run(<<Ins("pc", t, w), op>>, outcome) = St(Old, Ret, t, {}, No)
<1>1. Execute(Begun, Ins("pc", t, w), outcome) = St(Old, Ret, t, {}, No)
  BY MovePc DEF Begun, Plain
<1>2. Execute(St(Old, Ret, t, {}, No), op, outcome) = St(Old, Ret, t, {}, No)
  BY Skips
<1> QED BY <1>1, <1>2, RunTwo, StartBegun

\* The contents of the registers after a write.
LEMMA PutAt ==
    ASSUME NEW g, DOMAIN g = Reg, NEW r \in Reg, NEW e, NEW q \in Reg
    PROVE  Put(g, r, e)[q] = IF q = r THEN e ELSE g[q]
BY DEF Put

\* A write leaves the registers that there are.
LEMMA PutFull ==
    ASSUME NEW g, DOMAIN g = Reg, NEW r, NEW e
    PROVE  DOMAIN Put(g, r, e) = Reg
BY DEF Put

\* Before the code runs each register holds its own old value.
LEMMA OldIs == DOMAIN Old = Reg /\ \A r \in Reg : Old[r] = <<"old", r>> /\ r # "pc"
BY DEF Old, Reg

\* A register holds what was put into it.
LEMMA HoldsPut ==
    ASSUME NEW g, DOMAIN g = Reg, NEW r \in Reg, NEW e
    PROVE  Holds(Put(g, r, e), r) = e
<1>1. r # "pc"
  BY DEF Reg
<1>2. Put(g, r, e)[r] = e
  BY PutAt
<1> QED BY <1>1, <1>2 DEF Holds

\* An address is put into a register, and a word is loaded from there.
LEMMA LoadRun ==
    ASSUME NEW r \in Reg, NEW q \in Reg, NEW t, Plain(t), NEW w, NEW outcome, outcome \in w
    PROVE  Run(<<Ins(r, t, w), Ins(q, At(r), w)>>, outcome)
             = St(Put(Put(Old, r, t), q, Mem(t)), Ret, On, {} \union {t}, No)
<1>1. Holds(Put(Old, r, t), r) = t
  BY HoldsPut, OldIs
<1>2. Execute(St(Put(Old, r, t), Ret, On, {}, No), Ins(q, At(r), w), outcome)
        = St(Put(Put(Old, r, t), q, Mem(t)), Ret, On, {} \union {t}, No)
  BY <1>1, LoadReg
<1> QED BY <1>2, PairRun

\* An address is put into a register, and a halfword is loaded from there.
LEMMA LoadHalfRun ==
    ASSUME NEW r \in Reg, NEW q \in Reg, NEW t, Plain(t), NEW w, NEW outcome, outcome \in w
    PROVE  Run(<<Ins(r, t, w), Ins(q, Half(r), w)>>, outcome)
             = St(Put(Put(Old, r, t), q, HalfWord(t)), Ret, On, {} \union {t}, No)
<1>1. Holds(Put(Old, r, t), r) = t
  BY HoldsPut, OldIs
<1>2. Execute(St(Put(Old, r, t), Ret, On, {}, No), Ins(q, Half(r), w), outcome)
        = St(Put(Put(Old, r, t), q, HalfWord(t)), Ret, On, {} \union {t}, No)
  BY <1>1, LoadHalfReg
<1> QED BY <1>2, PairRun

\* The word that is loaded is where the code goes on.
LEMMA LoadPcRun ==
    ASSUME NEW r \in Reg, NEW t, Plain(t), NEW w, NEW outcome, outcome \in w
    PROVE  Run(<<Ins(r, t, w), Ins("pc", At(r), w)>>, outcome)
             = St(Put(Old, r, t), Ret, Mem(t), {} \union {t}, No)
<1>1. Holds(Put(Old, r, t), r) = t
  BY HoldsPut, OldIs
<1>2. Execute(St(Put(Old, r, t), Ret, On, {}, No), Ins("pc", At(r), w), outcome)
        = St(Put(Old, r, t), Ret, Mem(t), {} \union {t}, No)
  BY <1>1, LoadPc
<1> QED BY <1>2, PairRun

\* The halfword that is loaded is where the code goes on.
LEMMA LoadHalfPcRun ==
    ASSUME NEW r \in Reg, NEW t, Plain(t), NEW w, NEW outcome, outcome \in w
    PROVE  Run(<<Ins(r, t, w), Ins("pc", Half(r), w)>>, outcome)
             = St(Put(Old, r, t), Ret, HalfWord(t), {} \union {t}, No)
<1>1. Holds(Put(Old, r, t), r) = t
  BY HoldsPut, OldIs
<1>2. Execute(St(Put(Old, r, t), Ret, On, {}, No), Ins("pc", Half(r), w), outcome)
        = St(Put(Old, r, t), Ret, HalfWord(t), {} \union {t}, No)
  BY <1>1, LoadHalfPc
<1> QED BY <1>2, PairRun

\* The address is where the code goes on.
LEMMA FarRun ==
    ASSUME NEW r \in Reg, NEW t, Plain(t), NEW w, NEW outcome, outcome \in w
    PROVE  Run(<<Ins(r, t, w), Ins("pc", Of(r), w)>>, outcome) = St(Put(Old, r, t), Ret, t, {}, No)
<1>1. Holds(Put(Old, r, t), r) = t
  BY HoldsPut, OldIs
<1>2. Execute(St(Put(Old, r, t), Ret, On, {}, No), Ins("pc", Of(r), w), outcome)
        = St(Put(Old, r, t), Ret, t, {}, No)
  BY <1>1, CopyPc
<1> QED BY <1>2, PairRun

\* lr is written, and a jump follows.
LEMMA LinkRun ==
    ASSUME NEW t, Plain(t), NEW u, Plain(u), NEW w, NEW outcome, outcome \in w
    PROVE  Run(<<Ins("lr", t, w), Ins("pc", u, w)>>, outcome) = St(Put(Old, "lr", t), Ret, u, {}, No)
<1>1. "lr" \in Reg
  BY DEF Reg
<1>2. Execute(St(Put(Old, "lr", t), Ret, On, {}, No), Ins("pc", u, w), outcome)
        = St(Put(Old, "lr", t), Ret, u, {}, No)
  BY MovePc DEF Plain
<1> QED BY <1>1, <1>2, PairRun

\* lr is written, and a jump by way of xt follows.
LEMMA FarLinkRun ==
    ASSUME NEW t, Plain(t), NEW u, Plain(u), NEW w, NEW outcome, outcome \in w
    PROVE  Run(<<Ins("lr", t, w), Ins("xt", u, w), Ins("pc", Of("xt"), w)>>, outcome)
             = St(Put(Put(Old, "lr", t), "xt", u), Ret, u, {}, No)
<1>1. "lr" \in Reg /\ "xt" \in Reg
  BY DEF Reg
<1> DEFINE g == Put(Old, "lr", t)
<1>2. DOMAIN g = Reg
  BY OldIs, PutFull
<1>3. Execute(Begun, Ins("lr", t, w), outcome) = St(g, Ret, On, {}, No)
  BY <1>1, MoveReg DEF Begun, Plain
<1> HIDE DEF g
<1>4. Execute(St(g, Ret, On, {}, No), Ins("xt", u, w), outcome) = St(Put(g, "xt", u), Ret, On, {}, No)
  BY <1>1, MoveReg DEF Plain
<1>5. Holds(Put(g, "xt", u), "xt") = u
  BY <1>1, <1>2, HoldsPut
<1>6. Execute(St(Put(g, "xt", u), Ret, On, {}, No), Ins("pc", Of("xt"), w), outcome)
        = St(Put(g, "xt", u), Ret, u, {}, No)
  BY <1>5, CopyPc
<1>7. Run(<<Ins("lr", t, w), Ins("xt", u, w), Ins("pc", Of("xt"), w)>>, outcome)
        = St(Put(g, "xt", u), Ret, u, {}, No)
  BY <1>3, <1>4, <1>6, RunThree, StartBegun
<1> QED BY <1>7, Zenon DEF g

\* A register is borrowed for an operation, which may jump.
LEMMA BorrowRun ==
    ASSUME NEW b \in Reg, NEW t, Plain(t), NEW w, NEW op, NEW outcome, outcome \in w,
           NEW h, NEW n, NEW d, NEW f,
           Execute(St(Put(Old, b, t), Append(Ret, <<"old", b>>), On, {}, No), op, outcome)
             = St(h, Append(Ret, <<"old", b>>), n, d, f)
    PROVE  Run(<<Ins("push", Of(b), w), Ins(b, t, w), op, Ins("pop", <<b>>, w)>>, outcome)
             = IF n = On THEN St(Put(h, b, <<"old", b>>), Ret, On, d, f)
                         ELSE St(h, Append(Ret, <<"old", b>>), n, d, f)
<1> DEFINE s == Append(Ret, <<"old", b>>)
           x == Ins("pop", <<b>>, w)
<1>1. Execute(Begun, Ins("push", Of(b), w), outcome) = St(Old, s, On, {}, No)
  <2>1. Append(Ret, Old[b]) = s
    BY OldIs
  <2>2. Execute(Begun, Ins("push", Of(b), w), outcome) = St(Old, Append(Ret, Old[b]), On, {}, No)
    BY OnPush DEF Begun
  <2> QED BY <2>1, <2>2, Zenon
<1>2. Execute(St(Old, s, On, {}, No), Ins(b, t, w), outcome) = St(Put(Old, b, t), s, On, {}, No)
  BY MoveReg DEF Plain
<1>3. Last(s) = <<"old", b>> /\ Front(s) = Ret
  BY PushPop DEF Ret
<1> HIDE DEF s
<1>4. n = On => Execute(St(h, s, n, d, f), x, outcome) = St(Put(h, b, <<"old", b>>), Ret, On, d, f)
  BY <1>3, OnPop
<1>5. n # On => Execute(St(h, s, n, d, f), x, outcome) = St(h, s, n, d, f)
  BY Skips
<1> HIDE DEF x
<1>6. Execute(St(Put(Old, b, t), s, On, {}, No), op, outcome) = St(h, s, n, d, f)
  BY Zenon DEF s
<1>7. Run(<<Ins("push", Of(b), w), Ins(b, t, w), op, x>>, outcome)
        = Execute(St(h, s, n, d, f), x, outcome)
  BY <1>1, <1>2, <1>6, RunFour, StartBegun
<1>8. Run(<<Ins("push", Of(b), w), Ins(b, t, w), op, x>>, outcome)
        = IF n = On THEN St(Put(h, b, <<"old", b>>), Ret, On, d, f) ELSE St(h, s, n, d, f)
  BY <1>4, <1>5, <1>7
<1> QED BY <1>8, Zenon DEF s, x

\* One operation in front of another.
LEMMA Joined ==
    ASSUME NEW x, NEW y
    PROVE  <<x>> \o <<y>> = <<x, y>>
<1> DEFINE S == {x, y}
           s == <<x>>
           t == <<y>>
           u == <<x, y>>
<1>1. /\ s \in Seq(S) /\ t \in Seq(S) /\ u \in Seq(S)
      /\ Len(s) = 1 /\ Len(t) = 1 /\ Len(u) = 2 /\ s[1] = x /\ t[1] = y /\ u[1] = x /\ u[2] = y
  OBVIOUS
<1> HIDE DEF S, s, t, u
<1>2. /\ s \o t \in Seq(S) /\ Len(s \o t) = Len(s) + Len(t)
      /\ \A i \in 1..(Len(s) + Len(t)) : (s \o t)[i] = IF i <= Len(s) THEN s[i] ELSE t[i - Len(s)]
  BY <1>1, ConcatProperties
<1>3. Len(s \o t) = Len(u) /\ (s \o t)[1] = u[1] /\ (s \o t)[2] = u[2]
  BY <1>1, <1>2
<1>4. \A i \in 1..Len(s \o t) : (s \o t)[i] = u[i]
  BY <1>1, <1>3
<1>5. s \o t = u
  BY <1>1, <1>2, <1>3, <1>4, SeqEqual
<1> QED BY <1>5, Zenon DEF s, t, u

\* One operation in front of two.
LEMMA JoinedToTwo ==
    ASSUME NEW x, NEW y, NEW z
    PROVE  <<x>> \o <<y, z>> = <<x, y, z>>
<1> DEFINE S == {x, y, z}
           s == <<x>>
           t == <<y, z>>
           u == <<x, y, z>>
<1>1. /\ s \in Seq(S) /\ t \in Seq(S) /\ u \in Seq(S)
      /\ Len(s) = 1 /\ Len(t) = 2 /\ Len(u) = 3 /\ s[1] = x /\ t[1] = y /\ t[2] = z
      /\ u[1] = x /\ u[2] = y /\ u[3] = z
  OBVIOUS
<1> HIDE DEF S, s, t, u
<1>2. /\ s \o t \in Seq(S) /\ Len(s \o t) = Len(s) + Len(t)
      /\ \A i \in 1..(Len(s) + Len(t)) : (s \o t)[i] = IF i <= Len(s) THEN s[i] ELSE t[i - Len(s)]
  BY <1>1, ConcatProperties
<1>3. Len(s \o t) = Len(u) /\ (s \o t)[1] = u[1] /\ (s \o t)[2] = u[2] /\ (s \o t)[3] = u[3]
  BY <1>1, <1>2
<1>4. \A i \in 1..Len(s \o t) : (s \o t)[i] = u[i]
  BY <1>1, <1>3
<1>5. s \o t = u
  BY <1>1, <1>2, <1>3, <1>4, SeqEqual
<1> QED BY <1>5, Zenon DEF s, t, u

-----------------------------------------------------------------------------
(* What makes code good                                                    *)

\* Faithful asks this of code that is not copied.
Good(ops, others, a, z) ==
    Agree(ops, others) /\ \A x \in a..(z - 1) : Num(x) \notin Destinations(ops)

\* The outcomes for which code runs in the three instruction sets, how it ends for
\* them, and that it does nothing for the others.
When(w) == w = Always \/ w = OnlyYes
EndsIn(ops, w, g, n, d, f) == \A oc \in w : Run(ops, oc) = St(g, Ret, n, d, f)
Idle(ops, w) == \A oc \in BOOLEAN : oc \notin w => Run(ops, oc) = Begun

\* Registers that compare as equal, and an end that leads to no place of the backup.
Match(g, h) == \A r \in Reg \ Scratch : g[r] = h[r]
Avoids(g, n, a, z) == \A x \in a..(z - 1) : Num(x) # n /\ Num(x) # g["lr"]

\* A number is a constant, and is not the mark of going on.
LEMMA NumIs ==
    ASSUME NEW n
    PROVE  Plain(Num(n)) /\ Num(n) # On
BY DEF Plain, Num, On

\* Two numbers are one term only when they are equal.
LEMMA NumSame ==
    ASSUME NEW n \in Int, NEW m \in Int
    PROVE  Num(n) = Num(m) <=> n = m
BY DEF Num

\* A number is not what a register held before.
LEMMA NumOld ==
    ASSUME NEW n, NEW r
    PROVE  Num(n) # <<"old", r>>
BY DEF Num

\* A number is not what memory holds.
LEMMA NumMem ==
    ASSUME NEW n, NEW x
    PROVE  Num(n) # Mem(x) /\ Num(n) # HalfWord(x)
BY DEF Num, Mem, HalfWord

\* An unknown value is a constant too, and is no number.
LEMMA NumJunk ==
    ASSUME NEW n
    PROVE  Num(n) # Junk /\ Plain(Junk) /\ Junk # On
BY DEF Num, Junk, Plain, On

\* The stack of the start has one entry.
LEMMA RetIs == Last(Ret) = <<"old", "ret">>
BY PushPop DEF Ret

\* One outcome for which the ends differ is enough for code not to be good.
LEMMA Disagree ==
    ASSUME NEW ops, NEW others, NEW outcome \in BOOLEAN, NEW a, NEW z,
           NEW g, NEW s, NEW n, NEW d, NEW f, Run(ops, outcome) = St(g, s, n, d, f),
           NEW h, NEW t, NEW k, NEW c, NEW e, Run(others, outcome) = St(h, t, k, c, e),
           (\E r \in Reg \ Scratch : g[r] # h[r]) \/ s # t \/ n # k \/ d # c \/ f # e
    PROVE  ~Good(ops, others, a, z)
<1>1. Outcome(ops, outcome) # Outcome(others, outcome)
  <2>1. Outcome(ops, outcome) = Outcome(others, outcome)
          <=> /\ \A r \in Reg \ Scratch : g[r] = h[r]
              /\ s = t /\ n = k /\ d = c /\ f = e
    BY OutcomesAre
  <2> QED BY <2>1, Zenon
<1> QED BY <1>1, Zenon DEF Good, Agree

\* Code that runs for the outcomes the original runs for has one end to compare.
LEMMA Verdict ==
    ASSUME NEW ops, NEW others, NEW w, When(w), NEW a, NEW z, Idle(ops, w), Idle(others, w),
           NEW g, NEW n, NEW d, NEW f, EndsIn(ops, w, g, n, d, f),
           NEW h, NEW k, NEW c, NEW e, EndsIn(others, w, h, k, c, e)
    PROVE  Good(ops, others, a, z)
             <=> Match(g, h) /\ n = k /\ d = c /\ f = e /\ Avoids(g, n, a, z)
<1> DEFINE Same == (\A r \in Reg \ Scratch : g[r] = h[r]) /\ Ret = Ret /\ n = k /\ d = c /\ f = e
<1>1. Yes \in w /\ (\A oc \in w : oc \in BOOLEAN) /\ No \in BOOLEAN
  BY DEF Yes, No, When, Always, OnlyYes
<1>2. \A oc \in w : Outcome(ops, oc) = Outcome(others, oc) <=> Same
  <2> SUFFICES ASSUME NEW oc \in w PROVE Outcome(ops, oc) = Outcome(others, oc) <=> Same
    OBVIOUS
  <2>1. Run(ops, oc) = St(g, Ret, n, d, f) /\ Run(others, oc) = St(h, Ret, k, c, e)
    BY DEF EndsIn
  <2> QED BY <2>1, OutcomesAre
<1>3. \A oc \in BOOLEAN : oc \notin w => Outcome(ops, oc) = Outcome(others, oc)
  <2> SUFFICES ASSUME NEW oc \in BOOLEAN, oc \notin w PROVE Outcome(ops, oc) = Outcome(others, oc)
    OBVIOUS
  <2>1. Run(ops, oc) = Begun /\ Run(others, oc) = Begun
    BY DEF Idle
  <2> QED BY <2>1, Zenon DEF Outcome
<1> HIDE DEF Same
<1>4. Agree(ops, others) <=> Same
  BY <1>1, <1>2, <1>3, Zenon DEF Agree
<1>5. ASSUME NEW x PROVE Num(x) \in Destinations(ops) <=> Num(x) = n \/ Num(x) = g["lr"]
  <2>1. /\ Num(x) # On /\ Num(x) # <<"old", "lr">> /\ Num(x) # <<"old", "ret">>
    BY NumIs, NumOld
  <2>2. Last(Ret) = <<"old", "ret">> /\ Old["lr"] = <<"old", "lr">>
    BY RetIs DEF Old, Reg
  <2>3. Run(ops, Yes) = St(g, Ret, n, d, f)
    BY <1>1 DEF EndsIn
  <2>4. CASE No \in w
    <3>1. Run(ops, No) = St(g, Ret, n, d, f)
      BY <2>4 DEF EndsIn
    <3>2. Num(x) \in Destinations(ops) <=> Num(x) \in {n, g["lr"], Last(Ret), n, g["lr"], Last(Ret)}
      BY <2>3, <3>1, Leads
    <3> QED BY <2>1, <2>2, <3>2
  <2>5. CASE No \notin w
    <3>1. Run(ops, No) = St(Old, Ret, On, {}, No)
      BY <1>1, <2>5 DEF Begun, Idle
    <3>2. Num(x) \in Destinations(ops) <=> Num(x) \in {n, g["lr"], Last(Ret), On, Old["lr"], Last(Ret)}
      BY <2>3, <3>1, Leads
    <3> QED BY <2>1, <2>2, <3>2
  <2> QED BY <2>4, <2>5
<1>6. Good(ops, others, a, z) <=> Same /\ \A x \in a..(z - 1) : Num(x) # n /\ Num(x) # g["lr"]
  BY <1>4, <1>5, Zenon DEF Good
<1> QED BY <1>6, Zenon DEF Same, Match, Avoids

-----------------------------------------------------------------------------
(* Pieces of code that are good, and when                                  *)

\* For which outcomes operations run.
LEMMA WhensAre ==
    /\ When(Always) /\ When(OnlyYes) /\ Yes \in Always /\ No \in Always
    /\ Yes \in OnlyYes /\ No \notin OnlyYes /\ No \in OnlyNo /\ Yes \notin OnlyNo
BY DEF When, Yes, No, Always, OnlyYes, OnlyNo

\* Two writes to a register that is compared are equal when the values are.
LEMMA SamePut ==
    ASSUME NEW r \in Reg \ Scratch, NEW t, NEW u
    PROVE  Match(Put(Old, r, t), Put(Old, r, u)) <=> t = u
<1>1. \A q \in Reg : /\ Put(Old, r, t)[q] = IF q = r THEN t ELSE Old[q]
                     /\ Put(Old, r, u)[q] = IF q = r THEN u ELSE Old[q]
  BY OldIs, PutAt
<1> QED BY <1>1 DEF Match

\* A write to xt is not compared.
LEMMA ScratchPut ==
    ASSUME NEW g, DOMAIN g = Reg, NEW t
    PROVE  Match(Put(g, "xt", t), g)
<1>1. "xt" \in Reg /\ "xt" \in Scratch
  BY DEF Reg, Scratch
<1> QED BY <1>1, PutAt DEF Match

\* A register that an instruction names is compared, and is none of the special ones.
LEMMA GeneralIs ==
    ASSUME NEW r \in General
    PROVE  r \in Reg /\ r \in Reg \ Scratch /\ r # "lr" /\ r # "xt" /\ r # "pc" /\ r # "flags"
BY DEF General, Reg, Scratch

\* lr is compared, and xt is a register.
LEMMA LrIs == "lr" \in Reg /\ "lr" \in Reg \ Scratch /\ Old["lr"] = <<"old", "lr">> /\ "xt" \in Reg
BY DEF Old, Reg, Scratch

\* Code that goes on leads to no place in the backup.
LEMMA AvoidsOn ==
    ASSUME NEW g, g["lr"] = <<"old", "lr">>, NEW a, NEW z
    PROVE  Avoids(g, On, a, z)
BY NumIs, NumOld DEF Avoids

\* A jump out of the backup leads to no place in it.
LEMMA AvoidsFar ==
    ASSUME NEW g, g["lr"] = <<"old", "lr">>, NEW n \in Int, NEW a \in Int, NEW z \in Int, n >= z
    PROVE  Avoids(g, Num(n), a, z)
<1> SUFFICES ASSUME NEW x \in a..(z - 1) PROVE Num(x) # Num(n) /\ Num(x) # g["lr"]
  BY DEF Avoids
<1>1. x \in Int /\ x # n
  OBVIOUS
<1> QED BY <1>1, NumSame, NumOld

\* Moves agree when what is moved does.
LEMMA MoveGood ==
    ASSUME NEW r \in General, NEW t, Plain(t), NEW u, Plain(u), NEW w, When(w), NEW a, NEW z
    PROVE  Good(<<Ins(r, t, w)>>, <<Ins(r, u, w)>>, a, z) <=> t = u
<1> DEFINE ops == <<Ins(r, t, w)>>
           others == <<Ins(r, u, w)>>
           g == Put(Old, r, t)
           h == Put(Old, r, u)
<1>1. r \in Reg /\ r \in Reg \ Scratch /\ r # "lr"
  BY GeneralIs
<1>2. EndsIn(ops, w, g, On, {}, No)
  BY <1>1, MoveRun DEF EndsIn
<1>3. EndsIn(others, w, h, On, {}, No)
  BY <1>1, MoveRun DEF EndsIn
<1>4. Idle(ops, w) /\ Idle(others, w)
  BY SkipOne DEF Idle
<1>5. Match(g, h) <=> t = u
  BY <1>1, SamePut
<1>6. g["lr"] = <<"old", "lr">>
  BY <1>1, LrIs, OldIs, PutAt
<1>7. Avoids(g, On, a, z)
  BY <1>6, AvoidsOn
<1> HIDE DEF ops, others, g, h
<1>8. Good(ops, others, a, z)
        <=> Match(g, h) /\ On = On /\ {} = {} /\ No = No /\ Avoids(g, On, a, z)
  BY <1>2, <1>3, <1>4, Verdict
<1>9. Good(ops, others, a, z) <=> t = u
  BY <1>5, <1>7, <1>8, Zenon
<1> QED BY <1>9, Zenon DEF ops, others

\* Jumps agree when they lead to the same place.
LEMMA JumpGood ==
    ASSUME NEW n \in Int, NEW m \in Int, NEW w, When(w), NEW a \in Int, NEW z \in Int, n >= z
    PROVE  Good(<<Ins("pc", Num(n), w)>>, <<Ins("pc", Num(m), w)>>, a, z) <=> n = m
<1> DEFINE ops == <<Ins("pc", Num(n), w)>>
           others == <<Ins("pc", Num(m), w)>>
           t == Num(n)
           u == Num(m)
<1>1. Plain(t) /\ Plain(u) /\ (t = u <=> n = m)
  BY NumIs, NumSame
<1>2. EndsIn(ops, w, Old, t, {}, No)
  BY <1>1, JumpRun DEF EndsIn
<1>3. EndsIn(others, w, Old, u, {}, No)
  BY <1>1, JumpRun DEF EndsIn
<1>4. Idle(ops, w) /\ Idle(others, w)
  BY SkipOne DEF Idle
<1>5. Avoids(Old, t, a, z) /\ Match(Old, Old)
  BY AvoidsFar, LrIs DEF Match
<1> HIDE DEF ops, others, t, u
<1>6. Good(ops, others, a, z)
        <=> Match(Old, Old) /\ t = u /\ {} = {} /\ No = No /\ Avoids(Old, t, a, z)
  BY <1>2, <1>3, <1>4, Verdict
<1>7. Good(ops, others, a, z) <=> n = m
  BY <1>1, <1>5, <1>6, Zenon
<1> QED BY <1>7, Zenon DEF ops, others

\* A branch out of the backup by way of xt agrees with the near one.
LEMMA FarGood ==
    ASSUME NEW n \in Int, NEW w, When(w), NEW a \in Int, NEW z \in Int, n >= z
    PROVE  Good(<<Ins("xt", Num(n), w), Ins("pc", Of("xt"), w)>>, <<Ins("pc", Num(n), w)>>, a, z)
<1> DEFINE ops == <<Ins("xt", Num(n), w), Ins("pc", Of("xt"), w)>>
           others == <<Ins("pc", Num(n), w)>>
           t == Num(n)
           g == Put(Old, "xt", t)
<1>1. Plain(t) /\ "xt" \in Reg
  BY NumIs, LrIs
<1>2. EndsIn(ops, w, g, t, {}, No)
  BY <1>1, FarRun DEF EndsIn
<1>3. EndsIn(others, w, Old, t, {}, No)
  BY <1>1, JumpRun DEF EndsIn
<1>4. Idle(ops, w) /\ Idle(others, w)
  BY SkipOne, SkipTwo DEF Idle
<1>5. Match(g, Old)
  BY OldIs, ScratchPut
<1>6. Avoids(g, t, a, z)
  <2>1. g["lr"] = <<"old", "lr">>
    BY <1>5, LrIs DEF Match
  <2> QED BY <2>1, AvoidsFar
<1> HIDE DEF ops, others, t, g
<1>7. Good(ops, others, a, z)
        <=> Match(g, Old) /\ t = t /\ {} = {} /\ No = No /\ Avoids(g, t, a, z)
  BY <1>2, <1>3, <1>4, Verdict
<1>8. Good(ops, others, a, z)
  BY <1>5, <1>6, <1>7, Zenon
<1> QED BY <1>8, Zenon DEF ops, others

\* With a link it does when the place behind the branch is not in the backup.
LEMMA FarLinkGood ==
    ASSUME NEW n \in Int, NEW l \in Int, NEW a \in Int, NEW z \in Int, n >= z, l >= a
    PROVE  Good(<<Ins("lr", Num(l), Always), Ins("xt", Num(n), Always), Ins("pc", Of("xt"), Always)>>,
                <<Ins("lr", Num(l), Always), Ins("pc", Num(n), Always)>>, a, z) <=> l >= z
<1> DEFINE w == Always
           ops == <<Ins("lr", Num(l), w), Ins("xt", Num(n), w), Ins("pc", Of("xt"), w)>>
           others == <<Ins("lr", Num(l), w), Ins("pc", Num(n), w)>>
           t == Num(n)
           u == Num(l)
           h == Put(Old, "lr", u)
           g == Put(h, "xt", t)
<1>1. Plain(t) /\ Plain(u) /\ "xt" \in Reg /\ "lr" \in Reg /\ "lr" \in Reg \ Scratch
  BY NumIs, LrIs
<1>2. EndsIn(ops, w, g, t, {}, No)
  BY <1>1, FarLinkRun DEF EndsIn
<1>3. EndsIn(others, w, h, t, {}, No)
  BY <1>1, LinkRun DEF EndsIn
<1>4. Idle(ops, w) /\ Idle(others, w)
  BY DEF Idle, Always
<1>5. Match(g, h)
  BY OldIs, PutFull, ScratchPut
<1>6. g["lr"] = u
  BY <1>1, <1>5, OldIs, PutAt DEF Match
<1>7. Avoids(g, t, a, z) <=> l >= z
  <2>1. \A x \in a..(z - 1) : Num(x) # t /\ (Num(x) = u <=> x = l)
    <3> SUFFICES ASSUME NEW x \in a..(z - 1) PROVE Num(x) # t /\ (Num(x) = u <=> x = l)
      OBVIOUS
    <3>1. x \in Int /\ x # n
      OBVIOUS
    <3> QED BY <3>1, NumSame
  <2>2. l >= z <=> l \notin a..(z - 1)
    OBVIOUS
  <2> QED BY <1>6, <2>1, <2>2, Zenon DEF Avoids
<1>8. When(w)
  BY DEF When
<1> HIDE DEF ops, others, t, u, g, h, w
<1>9. Good(ops, others, a, z)
        <=> Match(g, h) /\ t = t /\ {} = {} /\ No = No /\ Avoids(g, t, a, z)
  BY <1>2, <1>3, <1>4, <1>8, Verdict
<1>10. Good(ops, others, a, z) <=> l >= z
  BY <1>5, <1>7, <1>9, Zenon
<1> QED BY <1>10, Zenon DEF ops, others, w

\* Loads agree when they load from the same place.
LEMMA LoadGood ==
    ASSUME NEW r \in General, NEW n \in Int, NEW m \in Int, NEW w, When(w), NEW a, NEW z
    PROVE  Good(<<Ins(r, Num(n), w), Ins(r, At(r), w)>>,
                <<Ins("xt", Num(m), w), Ins(r, At("xt"), w)>>, a, z) <=> n = m
<1> DEFINE ops == <<Ins(r, Num(n), w), Ins(r, At(r), w)>>
           others == <<Ins("xt", Num(m), w), Ins(r, At("xt"), w)>>
           t == Num(n)
           u == Num(m)
           g == Put(Put(Old, r, t), r, Mem(t))
           h == Put(Put(Old, "xt", u), r, Mem(u))
           d == {} \union {t}
           c == {} \union {u}
<1>1. /\ r \in Reg /\ r \in Reg \ Scratch /\ r # "lr" /\ "xt" \in Reg /\ "xt" \in Scratch
      /\ Plain(t) /\ Plain(u) /\ (t = u <=> n = m)
  BY GeneralIs, LrIs, NumIs, NumSame DEF Scratch
<1>2. EndsIn(ops, w, g, On, d, No)
  BY <1>1, LoadRun DEF EndsIn
<1>3. EndsIn(others, w, h, On, c, No)
  BY <1>1, LoadRun DEF EndsIn
<1>4. Idle(ops, w) /\ Idle(others, w)
  BY SkipTwo DEF Idle
<1>5. d = c <=> t = u
  OBVIOUS
<1>6. \A q \in Reg : /\ g[q] = IF q = r THEN Mem(t) ELSE Old[q]
                     /\ h[q] = IF q = r THEN Mem(u) ELSE IF q = "xt" THEN u ELSE Old[q]
  <2> DEFINE g1 == Put(Old, r, t)
             h1 == Put(Old, "xt", u)
  <2>1. DOMAIN g1 = Reg /\ DOMAIN h1 = Reg
    BY OldIs, PutFull
  <2>2. \A q \in Reg : /\ g1[q] = IF q = r THEN t ELSE Old[q]
                       /\ h1[q] = IF q = "xt" THEN u ELSE Old[q]
    BY <1>1, OldIs, PutAt
  <2> HIDE DEF g1, h1
  <2>3. \A q \in Reg : /\ Put(g1, r, Mem(t))[q] = IF q = r THEN Mem(t) ELSE g1[q]
                       /\ Put(h1, r, Mem(u))[q] = IF q = r THEN Mem(u) ELSE h1[q]
    BY <1>1, <2>1, PutAt
  <2>4. \A q \in Reg : /\ Put(g1, r, Mem(t))[q] = IF q = r THEN Mem(t) ELSE Old[q]
                       /\ Put(h1, r, Mem(u))[q] = IF q = r THEN Mem(u) ELSE IF q = "xt" THEN u ELSE Old[q]
    BY <2>2, <2>3
  <2> QED BY <2>4, Zenon DEF g1, h1
<1>7. Avoids(g, On, a, z)
  <2>1. g["lr"] = <<"old", "lr">>
    BY <1>1, <1>6, LrIs
  <2> QED BY <2>1, AvoidsOn
<1> HIDE DEF ops, others, t, u, g, h, d, c
<1>8. Good(ops, others, a, z)
        <=> Match(g, h) /\ On = On /\ d = c /\ No = No /\ Avoids(g, On, a, z)
  BY <1>2, <1>3, <1>4, Verdict
<1>9. t = u => Match(g, h)
  BY <1>1, <1>6 DEF Match
<1>10. Good(ops, others, a, z) <=> n = m
  BY <1>1, <1>5, <1>7, <1>8, <1>9, Zenon
<1> QED BY <1>10, Zenon DEF ops, others

\* Loads of a halfword agree when they load from the same place.
LEMMA LoadHalfGood ==
    ASSUME NEW r \in General, NEW n \in Int, NEW m \in Int, NEW w, When(w), NEW a, NEW z
    PROVE  Good(<<Ins(r, Num(n), w), Ins(r, Half(r), w)>>,
                <<Ins("xt", Num(m), w), Ins(r, Half("xt"), w)>>, a, z) <=> n = m
<1> DEFINE ops == <<Ins(r, Num(n), w), Ins(r, Half(r), w)>>
           others == <<Ins("xt", Num(m), w), Ins(r, Half("xt"), w)>>
           t == Num(n)
           u == Num(m)
           g == Put(Put(Old, r, t), r, HalfWord(t))
           h == Put(Put(Old, "xt", u), r, HalfWord(u))
           d == {} \union {t}
           c == {} \union {u}
<1>1. /\ r \in Reg /\ r \in Reg \ Scratch /\ r # "lr" /\ "xt" \in Reg /\ "xt" \in Scratch
      /\ Plain(t) /\ Plain(u) /\ (t = u <=> n = m)
  BY GeneralIs, LrIs, NumIs, NumSame DEF Scratch
<1>2. EndsIn(ops, w, g, On, d, No)
  BY <1>1, LoadHalfRun DEF EndsIn
<1>3. EndsIn(others, w, h, On, c, No)
  BY <1>1, LoadHalfRun DEF EndsIn
<1>4. Idle(ops, w) /\ Idle(others, w)
  BY SkipTwo DEF Idle
<1>5. d = c <=> t = u
  OBVIOUS
<1>6. \A q \in Reg : /\ g[q] = IF q = r THEN HalfWord(t) ELSE Old[q]
                     /\ h[q] = IF q = r THEN HalfWord(u) ELSE IF q = "xt" THEN u ELSE Old[q]
  <2> DEFINE g1 == Put(Old, r, t)
             h1 == Put(Old, "xt", u)
  <2>1. DOMAIN g1 = Reg /\ DOMAIN h1 = Reg
    BY OldIs, PutFull
  <2>2. \A q \in Reg : /\ g1[q] = IF q = r THEN t ELSE Old[q]
                       /\ h1[q] = IF q = "xt" THEN u ELSE Old[q]
    BY <1>1, OldIs, PutAt
  <2> HIDE DEF g1, h1
  <2>3. \A q \in Reg : /\ Put(g1, r, HalfWord(t))[q] = IF q = r THEN HalfWord(t) ELSE g1[q]
                       /\ Put(h1, r, HalfWord(u))[q] = IF q = r THEN HalfWord(u) ELSE h1[q]
    BY <1>1, <2>1, PutAt
  <2>4. \A q \in Reg : /\ Put(g1, r, HalfWord(t))[q] = IF q = r THEN HalfWord(t) ELSE Old[q]
                       /\ Put(h1, r, HalfWord(u))[q] = IF q = r THEN HalfWord(u)
                                                           ELSE IF q = "xt" THEN u ELSE Old[q]
    BY <2>2, <2>3
  <2> QED BY <2>4, Zenon DEF g1, h1
<1>7. Avoids(g, On, a, z)
  <2>1. g["lr"] = <<"old", "lr">>
    BY <1>1, <1>6, LrIs
  <2> QED BY <2>1, AvoidsOn
<1> HIDE DEF ops, others, t, u, g, h, d, c
<1>8. Good(ops, others, a, z)
        <=> Match(g, h) /\ On = On /\ d = c /\ No = No /\ Avoids(g, On, a, z)
  BY <1>2, <1>3, <1>4, Verdict
<1>9. t = u => Match(g, h)
  BY <1>1, <1>6 DEF Match
<1>10. Good(ops, others, a, z) <=> n = m
  BY <1>1, <1>5, <1>7, <1>8, <1>9, Zenon
<1> QED BY <1>10, Zenon DEF ops, others

-----------------------------------------------------------------------------
(* A register that is borrowed                                             *)

\* The code that borrows b to keep t in it for an operation.
Borrow(b, t, op, w) == <<Ins("push", Of(b), w), Ins(b, t, w), op, Ins("pop", <<b>>, w)>>
Lent(b) == Append(Ret, <<"old", b>>)

\* Two writes, the first of which is taken back.
LEMMA PutTwice ==
    ASSUME NEW b \in Reg, NEW r \in Reg, NEW t, NEW e, NEW q \in Reg
    PROVE  Put(Put(Put(Old, b, t), r, e), b, <<"old", b>>)[q]
             = IF q = b THEN <<"old", b>> ELSE IF q = r THEN e ELSE Old[q]
<1> DEFINE g1 == Put(Old, b, t)
           g2 == Put(g1, r, e)
<1>1. DOMAIN g1 = Reg
  BY OldIs, PutFull
<1>2. g1[q] = IF q = b THEN t ELSE Old[q]
  BY OldIs, PutAt
<1> HIDE DEF g1
<1>3. DOMAIN g2 = Reg
  BY <1>1, PutFull
<1>4. g2[q] = IF q = r THEN e ELSE g1[q]
  BY <1>1, PutAt
<1> HIDE DEF g2
<1>5. Put(g2, b, <<"old", b>>)[q] = IF q = b THEN <<"old", b>> ELSE g2[q]
  BY <1>3, PutAt
<1>6. Put(g2, b, <<"old", b>>)[q] = IF q = b THEN <<"old", b>> ELSE IF q = r THEN e ELSE Old[q]
  BY <1>2, <1>4, <1>5
<1> QED BY <1>6, Zenon DEF g1, g2

\* Two writes, the second of which counts.
LEMMA PutAfter ==
    ASSUME NEW b \in Reg, NEW r \in Reg, NEW t, NEW e, NEW q \in Reg
    PROVE  Put(Put(Old, b, t), r, e)[q] = IF q = r THEN e ELSE IF q = b THEN t ELSE Old[q]
<1> DEFINE g1 == Put(Old, b, t)
<1>1. DOMAIN g1 = Reg
  BY OldIs, PutFull
<1>2. g1[q] = IF q = b THEN t ELSE Old[q]
  BY OldIs, PutAt
<1> HIDE DEF g1
<1>3. Put(g1, r, e)[q] = IF q = r THEN e ELSE g1[q]
  BY <1>1, PutAt
<1>4. Put(g1, r, e)[q] = IF q = r THEN e ELSE IF q = b THEN t ELSE Old[q]
  BY <1>2, <1>3
<1> QED BY <1>4, Zenon DEF g1

\* With xt in place of b the operation has the same effect: the code is good.
LEMMA BorrowGood ==
    ASSUME NEW b \in General, NEW r \in Reg \ Scratch, r # b, r # "lr", NEW t, Plain(t), NEW e,
           NEW w, w = Always, NEW op, NEW other, NEW a, NEW z,
           \A oc \in w : Execute(St(Put(Old, b, t), Lent(b), On, {}, No), op, oc)
                           = St(Put(Put(Old, b, t), r, e), Lent(b), On, {}, No),
           \A oc \in w : Execute(St(Put(Old, "xt", t), Ret, On, {}, No), other, oc)
                           = St(Put(Put(Old, "xt", t), r, e), Ret, On, {}, No)
    PROVE  Good(Borrow(b, t, op, w), <<Ins("xt", t, w), other>>, a, z)
<1> DEFINE ops == Borrow(b, t, op, w)
           others == <<Ins("xt", t, w), other>>
           g == Put(Put(Put(Old, b, t), r, e), b, <<"old", b>>)
           h == Put(Put(Old, "xt", t), r, e)
<1>1. b \in Reg /\ b # "lr" /\ r \in Reg /\ r # "xt" /\ "xt" \in Reg /\ "xt" \in Scratch /\ b \notin Scratch
  BY GeneralIs, LrIs DEF Scratch
<1>2. EndsIn(ops, w, g, On, {}, No)
  BY <1>1, BorrowRun DEF EndsIn, Borrow, Lent
<1>3. EndsIn(others, w, h, On, {}, No)
  <2>1. \A oc \in w : Run(others, oc) = Execute(St(Put(Old, "xt", t), Ret, On, {}, No), other, oc)
    BY <1>1, PairRun
  <2> QED BY <2>1, Zenon DEF EndsIn
<1>4. Idle(ops, w) /\ Idle(others, w) /\ When(w)
  BY DEF Idle, When, Always
<1>5. \A q \in Reg : /\ g[q] = IF q = b THEN <<"old", b>> ELSE IF q = r THEN e ELSE Old[q]
                     /\ h[q] = IF q = r THEN e ELSE IF q = "xt" THEN t ELSE Old[q]
  BY <1>1, PutTwice, PutAfter
<1>6. Old[b] = <<"old", b>>
  BY <1>1, OldIs
<1> HIDE DEF ops, others, g, h
<1>7. Match(g, h)
  BY <1>1, <1>5, <1>6 DEF Match
<1>8. Avoids(g, On, a, z)
  <2>1. g["lr"] = <<"old", "lr">>
    BY <1>1, <1>5, LrIs
  <2> QED BY <2>1, AvoidsOn
<1>9. Good(ops, others, a, z)
        <=> Match(g, h) /\ On = On /\ {} = {} /\ No = No /\ Avoids(g, On, a, z)
  BY <1>2, <1>3, <1>4, Verdict
<1>10. Good(ops, others, a, z)
  BY <1>7, <1>8, <1>9, Zenon
<1> QED BY <1>10, Zenon DEF ops, others

\* The registers after a constant was put into one.
LEMMA HoldsAfter ==
    ASSUME NEW b \in Reg, NEW t, NEW q \in Reg
    PROVE  Holds(Put(Old, b, t), q) = IF q = b THEN t ELSE <<"old", q>>
<1>1. q # "pc"
  BY DEF Reg
<1>2. Put(Old, b, t)[q] = IF q = b THEN t ELSE Old[q]
  BY OldIs, PutAt
<1>3. Old[q] = <<"old", q>>
  BY OldIs
<1> QED BY <1>1, <1>2, <1>3 DEF Holds

\* An addition to a register with a borrowed one is good.
LEMMA AddGood ==
    ASSUME NEW b \in General, NEW r \in General, r # b, NEW t, Plain(t), NEW w, w = Always, NEW a, NEW z
    PROVE  Good(Borrow(b, t, Ins(r, Plus(r, b), w), w), <<Ins("xt", t, w), Ins(r, Plus(r, "xt"), w)>>, a, z)
<1> DEFINE op == Ins(r, Plus(r, b), w)
           other == Ins(r, Plus(r, "xt"), w)
           e == Sum2(<<"old", r>>, t)
           g == Put(Old, b, t)
           h == Put(Old, "xt", t)
<1>1. /\ b \in Reg /\ r \in Reg /\ r # "xt" /\ r # "lr" /\ "xt" \in Reg
      /\ r \in Reg /\ r \in Reg \ Scratch /\ r # b /\ r # "lr"
  BY GeneralIs, LrIs DEF Reg, Scratch
<1>2. Holds(g, b) = t /\ Holds(g, r) = <<"old", r>> /\ Holds(h, "xt") = t /\ Holds(h, r) = <<"old", r>>
  BY <1>1, HoldsAfter
<1> HIDE DEF g, h
<1>3. \A oc \in w : Execute(St(g, Lent(b), On, {}, No), op, oc) = St(Put(g, r, e), Lent(b), On, {}, No)
  BY <1>1, <1>2, PlusReg
<1>4. \A oc \in w : Execute(St(h, Ret, On, {}, No), other, oc) = St(Put(h, r, e), Ret, On, {}, No)
  BY <1>1, <1>2, PlusReg
<1> HIDE DEF op, other, e
<1>5. Good(Borrow(b, t, op, w), <<Ins("xt", t, w), other>>, a, z)
  BY <1>1, <1>3, <1>4, BorrowGood DEF g, h
<1> QED BY <1>5, Zenon DEF op, other

\* So it is in the other order.
LEMMA SumGood ==
    ASSUME NEW b \in General, NEW r \in General, r # b, NEW t, Plain(t), NEW w, w = Always, NEW a, NEW z
    PROVE  Good(Borrow(b, t, Ins(r, Plus(b, r), w), w), <<Ins("xt", t, w), Ins(r, Plus("xt", r), w)>>, a, z)
<1> DEFINE op == Ins(r, Plus(b, r), w)
           other == Ins(r, Plus("xt", r), w)
           e == Sum2(t, <<"old", r>>)
           g == Put(Old, b, t)
           h == Put(Old, "xt", t)
<1>1. /\ b \in Reg /\ r \in Reg /\ r # "xt" /\ r # "lr" /\ "xt" \in Reg
      /\ r \in Reg /\ r \in Reg \ Scratch /\ r # b /\ r # "lr"
  BY GeneralIs, LrIs DEF Reg, Scratch
<1>2. Holds(g, b) = t /\ Holds(g, r) = <<"old", r>> /\ Holds(h, "xt") = t /\ Holds(h, r) = <<"old", r>>
  BY <1>1, HoldsAfter
<1> HIDE DEF g, h
<1>3. \A oc \in w : Execute(St(g, Lent(b), On, {}, No), op, oc) = St(Put(g, r, e), Lent(b), On, {}, No)
  BY <1>1, <1>2, PlusReg
<1>4. \A oc \in w : Execute(St(h, Ret, On, {}, No), other, oc) = St(Put(h, r, e), Ret, On, {}, No)
  BY <1>1, <1>2, PlusReg
<1> HIDE DEF op, other, e
<1>5. Good(Borrow(b, t, op, w), <<Ins("xt", t, w), other>>, a, z)
  BY <1>1, <1>3, <1>4, BorrowGood DEF g, h
<1> QED BY <1>5, Zenon DEF op, other

\* A comparison with a borrowed register is good.
LEMMA CompareGood ==
    ASSUME NEW b \in General, NEW r \in General, r # b, NEW t, Plain(t), NEW w, w = Always, NEW a, NEW z
    PROVE  Good(Borrow(b, t, Ins("flags", Compare(r, b), w), w),
                <<Ins("xt", t, w), Ins("flags", Compare(r, "xt"), w)>>, a, z)
<1> DEFINE op == Ins("flags", Compare(r, b), w)
           other == Ins("flags", Compare(r, "xt"), w)
           e == Compared(<<"old", r>>, t)
           g == Put(Old, b, t)
           h == Put(Old, "xt", t)
<1>1. /\ b \in Reg /\ r \in Reg /\ r # "xt" /\ r # "lr" /\ "xt" \in Reg
      /\ "flags" \in Reg /\ "flags" \in Reg \ Scratch /\ "flags" # b /\ "flags" # "lr"
  BY GeneralIs, LrIs DEF Reg, Scratch
<1>2. Holds(g, b) = t /\ Holds(g, r) = <<"old", r>> /\ Holds(h, "xt") = t /\ Holds(h, r) = <<"old", r>>
  BY <1>1, HoldsAfter
<1> HIDE DEF g, h
<1>3. \A oc \in w : Execute(St(g, Lent(b), On, {}, No), op, oc) = St(Put(g, "flags", e), Lent(b), On, {}, No)
  BY <1>1, <1>2, CompareReg
<1>4. \A oc \in w : Execute(St(h, Ret, On, {}, No), other, oc) = St(Put(h, "flags", e), Ret, On, {}, No)
  BY <1>1, <1>2, CompareReg
<1> HIDE DEF op, other, e
<1>5. Good(Borrow(b, t, op, w), <<Ins("xt", t, w), other>>, a, z)
  BY <1>1, <1>3, <1>4, BorrowGood DEF g, h
<1> QED BY <1>5, Zenon DEF op, other

\* A copy of a borrowed register is good.
LEMMA CopyGood ==
    ASSUME NEW b \in General, NEW r \in General, r # b, NEW t, Plain(t), NEW w, w = Always, NEW a, NEW z
    PROVE  Good(Borrow(b, t, Ins(r, Of(b), w), w), <<Ins("xt", t, w), Ins(r, Of("xt"), w)>>, a, z)
<1> DEFINE op == Ins(r, Of(b), w)
           other == Ins(r, Of("xt"), w)
           e == t
           g == Put(Old, b, t)
           h == Put(Old, "xt", t)
<1>1. /\ b \in Reg /\ r \in Reg /\ r # "xt" /\ r # "lr" /\ "xt" \in Reg
      /\ r \in Reg /\ r \in Reg \ Scratch /\ r # b /\ r # "lr"
  BY GeneralIs, LrIs DEF Reg, Scratch
<1>2. Holds(g, b) = t /\ Holds(g, r) = <<"old", r>> /\ Holds(h, "xt") = t /\ Holds(h, r) = <<"old", r>>
  BY <1>1, HoldsAfter
<1> HIDE DEF g, h
<1>3. \A oc \in w : Execute(St(g, Lent(b), On, {}, No), op, oc) = St(Put(g, r, e), Lent(b), On, {}, No)
  BY <1>1, <1>2, CopyReg
<1>4. \A oc \in w : Execute(St(h, Ret, On, {}, No), other, oc) = St(Put(h, r, e), Ret, On, {}, No)
  BY <1>1, <1>2, CopyReg
<1> HIDE DEF op, other, e
<1>5. Good(Borrow(b, t, op, w), <<Ins("xt", t, w), other>>, a, z)
  BY <1>1, <1>3, <1>4, BorrowGood DEF g, h
<1> QED BY <1>5, Zenon DEF op, other


-----------------------------------------------------------------------------
(* Pieces of code that are not good                                        *)

\* The condition may hold and may not hold.
LEMMA Outcomes == Yes \in BOOLEAN /\ No \in BOOLEAN
BY DEF Yes, No

\* To jump where the original loads its destination is not good.
LEMMA JumpLoadBad ==
    ASSUME NEW n, NEW m, NEW w, Yes \in w, NEW v, Yes \in v, NEW op, NEW a, NEW z
    PROVE  ~Good(<<Ins("pc", Num(n), w), op>>, <<Ins("xt", Num(m), v), Ins("pc", At("xt"), v)>>, a, z)
<1> DEFINE ops == <<Ins("pc", Num(n), w), op>>
           others == <<Ins("xt", Num(m), v), Ins("pc", At("xt"), v)>>
<1>1. Plain(Num(n)) /\ Num(n) # On /\ Plain(Num(m)) /\ "xt" \in Reg
  BY NumIs, LrIs
<1>2. Run(ops, Yes) = St(Old, Ret, Num(n), {}, No)
  BY <1>1, BehindJump
<1>3. Run(others, Yes) = St(Put(Old, "xt", Num(m)), Ret, Mem(Num(m)), {} \union {Num(m)}, No)
  BY <1>1, LoadPcRun
<1>4. Num(n) # Mem(Num(m))
  BY NumMem
<1> HIDE DEF ops, others
<1>5. ~Good(ops, others, a, z)
  BY <1>2, <1>3, <1>4, Disagree, Outcomes
<1> QED BY <1>5, Zenon DEF ops, others

\* Nor is it where the original loads a halfword of it.
LEMMA JumpLoadHalfBad ==
    ASSUME NEW n, NEW m, NEW w, Yes \in w, NEW v, Yes \in v, NEW op, NEW a, NEW z
    PROVE  ~Good(<<Ins("pc", Num(n), w), op>>, <<Ins("xt", Num(m), v), Ins("pc", Half("xt"), v)>>, a, z)
<1> DEFINE ops == <<Ins("pc", Num(n), w), op>>
           others == <<Ins("xt", Num(m), v), Ins("pc", Half("xt"), v)>>
<1>1. Plain(Num(n)) /\ Num(n) # On /\ Plain(Num(m)) /\ "xt" \in Reg
  BY NumIs, LrIs
<1>2. Run(ops, Yes) = St(Old, Ret, Num(n), {}, No)
  BY <1>1, BehindJump
<1>3. Run(others, Yes) = St(Put(Old, "xt", Num(m)), Ret, HalfWord(Num(m)), {} \union {Num(m)}, No)
  BY <1>1, LoadHalfPcRun
<1>4. Num(n) # HalfWord(Num(m))
  BY NumMem
<1> HIDE DEF ops, others
<1>5. ~Good(ops, others, a, z)
  BY <1>2, <1>3, <1>4, Disagree, Outcomes
<1> QED BY <1>5, Zenon DEF ops, others

\* A load that runs where the original does not is not good.
LEMMA LoadCondBad ==
    ASSUME NEW r \in General, NEW n, NEW q, NEW u, NEW p, NEW x, NEW a, NEW z
    PROVE  ~Good(<<Ins(r, Num(n), Always), Ins(r, At(r), Always)>>,
                 <<Ins(q, u, OnlyYes), Ins(p, x, OnlyYes)>>, a, z)
<1> DEFINE w == Always
           v == OnlyYes
           ops == <<Ins(r, Num(n), w), Ins(r, At(r), w)>>
           others == <<Ins(q, u, v), Ins(p, x, v)>>
           t == Num(n)
<1>1. Plain(t) /\ r \in Reg
  BY NumIs, GeneralIs
<1>2. No \in w /\ No \notin v
  BY WhensAre
<1> HIDE DEF w, v
<1>3. Run(ops, No) = St(Put(Put(Old, r, t), r, Mem(t)), Ret, On, {} \union {t}, No)
  BY <1>1, <1>2, LoadRun
<1>4. Run(others, No) = St(Old, Ret, On, {}, No)
  BY <1>2, SkipTwo DEF Begun
<1>5. {} \union {t} # {}
  OBVIOUS
<1> HIDE DEF ops, others, t
<1>6. ~Good(ops, others, a, z)
  BY <1>3, <1>4, <1>5, Disagree, Outcomes
<1> QED BY <1>6, Zenon DEF ops, others, t, w, v

\* A jump that runs where the original does not is not good.
LEMMA JumpCondBad ==
    ASSUME NEW n, NEW q, NEW u, NEW a, NEW z
    PROVE  ~Good(<<Ins("pc", Num(n), Always)>>, <<Ins(q, u, OnlyYes)>>, a, z)
<1> DEFINE w == Always
           v == OnlyYes
           ops == <<Ins("pc", Num(n), w)>>
           others == <<Ins(q, u, v)>>
           t == Num(n)
<1>1. Plain(t) /\ t # On
  BY NumIs
<1>2. No \in w /\ No \notin v
  BY WhensAre
<1> HIDE DEF w, v
<1>3. Run(ops, No) = St(Old, Ret, t, {}, No)
  BY <1>1, <1>2, JumpRun
<1>4. Run(others, No) = St(Old, Ret, On, {}, No)
  BY <1>2, SkipOne DEF Begun
<1> HIDE DEF ops, others, t
<1>5. ~Good(ops, others, a, z)
  BY <1>1, <1>3, <1>4, Disagree, Outcomes
<1> QED BY <1>5, Zenon DEF ops, others, t, w, v

\* A jump for the outcome that is not the one of the original is not good.
LEMMA OtherOutcomeBad ==
    ASSUME NEW b, NEW t, NEW q, NEW u, NEW n, NEW a, NEW z
    PROVE  ~Good(Borrow(b, t, Ins(q, u, OnlyNo), OnlyNo), <<Ins("pc", Num(n), OnlyYes)>>, a, z)
<1> DEFINE w == OnlyNo
           v == OnlyYes
           ops == Borrow(b, t, Ins(q, u, w), w)
           others == <<Ins("pc", Num(n), v)>>
<1>1. Plain(Num(n)) /\ Num(n) # On
  BY NumIs
<1>2. Yes \notin w /\ Yes \in v
  BY WhensAre
<1> HIDE DEF w, v
<1>3. Run(ops, Yes) = St(Old, Ret, On, {}, No)
  BY <1>2, SkipFour DEF Begun, Borrow
<1>4. Run(others, Yes) = St(Old, Ret, Num(n), {}, No)
  BY <1>1, <1>2, JumpRun
<1> HIDE DEF ops, others
<1>5. ~Good(ops, others, a, z)
  BY <1>1, <1>3, <1>4, Disagree, Outcomes
<1> QED BY <1>5, Zenon DEF ops, others, w, v

\* A link to an unknown place is not good.
LEMMA LinkBad ==
    ASSUME NEW t, Plain(t), NEW l, NEW n, NEW v, Yes \in v, NEW a, NEW z
    PROVE  /\ ~Good(<<Ins("lr", Junk, Always), Ins("pc", t, Always)>>,
                    <<Ins("lr", Num(l), v), Ins("pc", Num(n), v)>>, a, z)
           /\ ~Good(<<Ins("lr", Junk, Always), Ins("pc", t, Always)>>, <<Ins("pc", Num(n), v)>>, a, z)
<1> DEFINE w == Always
           ops == <<Ins("lr", Junk, w), Ins("pc", t, w)>>
           others == <<Ins("lr", Num(l), v), Ins("pc", Num(n), v)>>
           short == <<Ins("pc", Num(n), v)>>
           g == Put(Old, "lr", Junk)
           h == Put(Old, "lr", Num(l))
<1>1. Plain(Num(n)) /\ Plain(Num(l)) /\ Plain(Junk) /\ "lr" \in Reg /\ "lr" \in Reg \ Scratch
  BY NumIs, NumJunk, LrIs
<1>2. Yes \in w
  BY WhensAre
<1> HIDE DEF w
<1>3. Run(ops, Yes) = St(g, Ret, t, {}, No)
  BY <1>1, <1>2, LinkRun
<1>4. Run(others, Yes) = St(h, Ret, Num(n), {}, No)
  BY <1>1, LinkRun
<1>5. Run(short, Yes) = St(Old, Ret, Num(n), {}, No)
  BY <1>1, JumpRun
<1>6. g["lr"] = Junk /\ h["lr"] = Num(l) /\ Old["lr"] = <<"old", "lr">>
  BY <1>1, LrIs, OldIs, PutAt
<1>7. Junk # Num(l) /\ Junk # <<"old", "lr">>
  BY NumJunk DEF Junk
<1> HIDE DEF ops, others, short, g, h
<1>8. (\E r \in Reg \ Scratch : g[r] # h[r]) /\ (\E r \in Reg \ Scratch : g[r] # Old[r])
  BY <1>1, <1>6, <1>7
<1>9. ~Good(ops, others, a, z)
  BY <1>3, <1>4, <1>8, Disagree, Outcomes
<1>10. ~Good(ops, short, a, z)
  BY <1>3, <1>5, <1>8, Disagree, Outcomes
<1> QED BY <1>9, <1>10, Zenon DEF ops, others, short, w

\* A stack that is read where it must not be is not good.
LEMMA FaultBad ==
    ASSUME NEW b \in Reg, NEW t, Plain(t), NEW q \in Reg, NEW p, NEW x, NEW others,
           NEW h, NEW s, NEW k, NEW c, Run(others, Yes) = St(h, s, k, c, No), NEW a, NEW z
    PROVE  ~Good(<<Ins("push", Of(b), Always), Ins(b, t, Always), Ins(q, At(p), Always),
                   Ins("fault", x, Always)>>, others, a, z)
<1> DEFINE w == Always
           ops == <<Ins("push", Of(b), w), Ins(b, t, w), Ins(q, At(p), w), Ins("fault", x, w)>>
           y == Append(Ret, Old[b])
           g == Put(Old, b, t)
           i == Put(g, q, Mem(Holds(g, p)))
           d == {} \union {Holds(g, p)}
<1>1. Yes \in w
  BY WhensAre
<1> HIDE DEF w
<1>2. Execute(Begun, Ins("push", Of(b), w), Yes) = St(Old, y, On, {}, No)
  <2>1. Execute(Begun, Ins("push", Of(b), w), Yes) = St(Old, Append(Ret, Old[b]), On, {}, No)
    BY <1>1, OnPush DEF Begun
  <2> QED BY <2>1, Zenon
<1> HIDE DEF y
<1>3. Execute(St(Old, y, On, {}, No), Ins(b, t, w), Yes) = St(g, y, On, {}, No)
  BY <1>1, MoveReg DEF Plain
<1> HIDE DEF g
<1>4. Execute(St(g, y, On, {}, No), Ins(q, At(p), w), Yes) = St(i, y, On, d, No)
  BY <1>1, LoadReg
<1> HIDE DEF i, d
<1>5. Execute(St(i, y, On, d, No), Ins("fault", x, w), Yes) = St(i, y, On, d, Yes)
  BY <1>1, OnFault
<1>6. Run(ops, Yes) = St(i, y, On, d, Yes)
  BY <1>2, <1>3, <1>4, <1>5, RunFour, StartBegun
<1>7. Yes # No
  BY DEF Yes, No
<1> HIDE DEF ops
<1>8. ~Good(ops, others, a, z)
  BY <1>6, <1>7, Disagree, Outcomes
<1> QED BY <1>8, Zenon DEF ops, w

\* A jump before what was pushed is popped is not good.
LEMMA BorrowJumpBad ==
    ASSUME NEW b \in General, NEW t, Plain(t), NEW w, Yes \in w, NEW op, NEW a, NEW z,
           NEW g, NEW n, n # On, NEW d, NEW f,
           Execute(St(Put(Old, b, t), Lent(b), On, {}, No), op, Yes) = St(g, Lent(b), n, d, f),
           NEW others, NEW h, NEW k, NEW c, NEW e, Run(others, Yes) = St(h, Ret, k, c, e)
    PROVE  ~Good(Borrow(b, t, op, w), others, a, z)
<1> DEFINE ops == Borrow(b, t, op, w)
<1>1. b \in Reg
  BY GeneralIs
<1>2. Run(ops, Yes) = St(g, Lent(b), n, d, f)
  BY <1>1, BorrowRun DEF Borrow, Lent
<1>3. Lent(b) # Ret
  BY PushPop DEF Lent, Ret
<1> HIDE DEF ops
<1>4. ~Good(ops, others, a, z)
  BY <1>2, <1>3, Disagree, Outcomes
<1> QED BY <1>4, Zenon DEF ops

\* To add another register than the original does is not good.
LEMMA AddBad ==
    ASSUME NEW b \in General, NEW r \in General, NEW q \in General, r # q, NEW n, NEW v, Yes \in v,
           NEW a, NEW z
    PROVE  ~Good(Borrow(b, Num(n), Ins(r, Plus(b, r), Always), Always),
                 <<Ins("xt", Num(n), v), Ins(r, Plus("xt", q), v)>>, a, z)
<1> DEFINE w == Always
           t == Num(n)
           op == Ins(r, Plus(b, r), w)
           other == Ins(r, Plus("xt", q), v)
           ops == Borrow(b, t, op, w)
           others == <<Ins("xt", t, v), other>>
           e == Sum2(t, Holds(Put(Old, b, t), r))
           x == Sum2(t, <<"old", q>>)
           i == Put(Put(Old, b, t), r, e)
           g == Put(i, b, <<"old", b>>)
           h == Put(Put(Old, "xt", t), r, x)
<1>1. /\ b \in Reg /\ r \in Reg /\ r \in Reg \ Scratch /\ r # "xt" /\ q \in Reg /\ q # "xt"
      /\ "xt" \in Reg /\ Plain(t) /\ Yes \in w
  BY GeneralIs, LrIs, NumIs, WhensAre
<1>2. Holds(Put(Old, b, t), b) = t /\ Holds(Put(Old, "xt", t), "xt") = t
  BY <1>1, HoldsPut, OldIs
<1>3. Holds(Put(Old, "xt", t), q) = <<"old", q>>
  BY <1>1, HoldsAfter
<1>4. g[r] = (IF r = b THEN <<"old", b>> ELSE e) /\ h[r] = x
  BY <1>1, PutTwice, PutAfter
<1>5. g[r] # h[r]
  <2>1. CASE r = b
    <3>1. <<"old", b>> # x
      BY DEF Sum2
    <3> QED BY <1>4, <2>1, <3>1
  <2>2. CASE r # b
    <3>1. e = Sum2(t, <<"old", r>>)
      BY <1>1, <2>2, HoldsAfter
    <3>2. t # <<"old", r>> /\ <<"old", r>> # <<"old", q>>
      BY NumOld
    <3>3. {t, <<"old", r>>} # {t, <<"old", q>>}
      <4> HIDE DEF t
      <4> QED BY <3>2
    <3>4. Sum2(t, <<"old", r>>) # Sum2(t, <<"old", q>>)
      BY <3>3 DEF Sum2
    <3> QED BY <1>4, <2>2, <3>1, <3>4
  <2> QED BY <2>1, <2>2
<1> HIDE DEF t, w
<1>6. Execute(St(Put(Old, b, t), Lent(b), On, {}, No), op, Yes) = St(i, Lent(b), On, {}, No)
  BY <1>1, <1>2, PlusReg
<1>7. Execute(St(Put(Old, "xt", t), Ret, On, {}, No), other, Yes) = St(h, Ret, On, {}, No)
  BY <1>1, <1>2, <1>3, PlusReg
<1> HIDE DEF op, other, i
<1>8. Run(ops, Yes) = St(g, Ret, On, {}, No)
  BY <1>1, <1>6, BorrowRun DEF Borrow, Lent
<1>9. Run(others, Yes) = St(h, Ret, On, {}, No)
  BY <1>1, <1>7, PairRun
<1> HIDE DEF ops, others, g, h
<1>10. ~Good(ops, others, a, z)
  BY <1>1, <1>5, <1>8, <1>9, Disagree, Outcomes
<1> QED BY <1>10, Zenon DEF ops, others, op, other, t, w

\* Nor is it to add where the original does not.
LEMMA AddCondBad ==
    ASSUME NEW b \in General, NEW r \in General, r # b, NEW n, NEW o, NEW u, NEW p, NEW x,
           NEW a, NEW z
    PROVE  ~Good(Borrow(b, Num(n), Ins(r, Plus(b, r), Always), Always),
                 <<Ins(o, u, OnlyYes), Ins(p, x, OnlyYes)>>, a, z)
<1> DEFINE w == Always
           v == OnlyYes
           t == Num(n)
           op == Ins(r, Plus(b, r), w)
           ops == Borrow(b, t, op, w)
           others == <<Ins(o, u, v), Ins(p, x, v)>>
           e == Sum2(t, <<"old", r>>)
           i == Put(Put(Old, b, t), r, e)
           g == Put(i, b, <<"old", b>>)
<1>1. b \in Reg /\ r \in Reg /\ r \in Reg \ Scratch /\ Plain(t) /\ No \in w /\ No \notin v
  BY GeneralIs, NumIs, WhensAre
<1>2. Holds(Put(Old, b, t), b) = t /\ Holds(Put(Old, b, t), r) = <<"old", r>>
  BY <1>1, HoldsAfter
<1>3. g[r] = e /\ Old[r] = <<"old", r>>
  BY <1>1, PutTwice, OldIs
<1>4. e # <<"old", r>>
  BY DEF Sum2
<1> HIDE DEF t, w, v, e
<1>5. Execute(St(Put(Old, b, t), Lent(b), On, {}, No), op, No) = St(i, Lent(b), On, {}, No)
  BY <1>1, <1>2, PlusReg DEF e
<1> HIDE DEF op, i
<1>6. Run(ops, No) = St(g, Ret, On, {}, No)
  BY <1>1, <1>5, BorrowRun DEF Borrow, Lent
<1>7. Run(others, No) = St(Old, Ret, On, {}, No)
  BY <1>1, SkipTwo DEF Begun
<1> HIDE DEF ops, others, g
<1>8. ~Good(ops, others, a, z)
  BY <1>1, <1>3, <1>4, <1>6, <1>7, Disagree, Outcomes
<1> QED BY <1>8, Zenon DEF ops, others, op, t, w, v

-----------------------------------------------------------------------------
(* The rewriter for arm64                                                  *)

\* The immediates that come back as they were: all that a branch or a literal
\* load can encode, and few of those of ADR and ADRP.
LEMMA BranchOffsetIs ==
    ASSUME NEW i, NEW bits, i.off \in Int, i.off % 4 = 0,
           \/ bits = 26 /\ -2^27 <= i.off /\ i.off < 2^27
           \/ bits = 19 /\ -2^20 <= i.off /\ i.off < 2^20
           \/ bits = 14 /\ -2^15 <= i.off /\ i.off < 2^15
    PROVE  A64!BranchOffset(bits, i) = i.off
<1>1. ASSUME NEW x \in Int, NEW h \in {33554432, 262144, 8192}, -h <= x, x < h
      PROVE  LET sum == (x % (2 * h)) - h IN (-1 - sum \div h) * h + (sum % h) = x
  <2>1. CASE h = 33554432
    <3>1. LET sum == (x % 67108864) - 33554432 IN (-1 - sum \div 33554432) * 33554432 + (sum % 33554432) = x
      BY <1>1, <2>1, SMT
    <3> QED BY <2>1, <3>1, SMT
  <2>2. CASE h = 262144
    <3>1. LET sum == (x % 524288) - 262144 IN (-1 - sum \div 262144) * 262144 + (sum % 262144) = x
      BY <1>1, <2>2, SMT
    <3> QED BY <2>2, <3>1, SMT
  <2>3. CASE h = 8192
    <3>1. LET sum == (x % 16384) - 8192 IN (-1 - sum \div 8192) * 8192 + (sum % 8192) = x
      BY <1>1, <2>3, SMT
    <3> QED BY <2>3, <3>1, SMT
  <2> QED BY <2>1, <2>2, <2>3, SMT
<1>2. /\ 2^25 = 33554432 /\ 2^26 = 67108864 /\ 2^27 = 134217728
      /\ 2^18 = 262144 /\ 2^19 = 524288 /\ 2^20 = 1048576
      /\ 2^13 = 8192 /\ 2^14 = 16384 /\ 2^15 = 32768
  BY SMT
<1> DEFINE x == i.off \div 4
<1>3. x \in Int /\ x * 4 = i.off
  BY SMT
<1>4. CASE bits = 26 /\ -2^27 <= i.off /\ i.off < 2^27
  <2>1. -33554432 <= x /\ x < 33554432
    BY <1>2, <1>3, <1>4, SMT
  <2> HIDE DEF x
  <2>2. A64!SignExtend64(26, x % 2^26) = x
    BY <1>1, <1>2, <1>3, <2>1, SMT DEF A64!SignExtend64
  <2> QED BY <1>3, <1>4, <2>2, SMT DEF A64!BranchOffset, x
<1>5. CASE bits = 19 /\ -2^20 <= i.off /\ i.off < 2^20
  <2>1. -262144 <= x /\ x < 262144
    BY <1>2, <1>3, <1>5, SMT
  <2> HIDE DEF x
  <2>2. A64!SignExtend64(19, x % 2^19) = x
    BY <1>1, <1>2, <1>3, <2>1, SMT DEF A64!SignExtend64
  <2> QED BY <1>3, <1>5, <2>2, SMT DEF A64!BranchOffset, x
<1>6. CASE bits = 14 /\ -2^15 <= i.off /\ i.off < 2^15
  <2>1. -8192 <= x /\ x < 8192
    BY <1>2, <1>3, <1>6, SMT
  <2> HIDE DEF x
  <2>2. A64!SignExtend64(14, x % 2^14) = x
    BY <1>1, <1>2, <1>3, <2>1, SMTT(30) DEF A64!SignExtend64
  <2> QED BY <1>3, <1>6, <2>2, SMT DEF A64!BranchOffset, x
<1> QED BY <1>4, <1>5, <1>6, SMT

\* The offset that is added up from its two fields is right for few offsets.
LEMMA ImmOfIs ==
    ASSUME NEW i, i.off \in Int, -2^20 <= i.off, i.off < 2^20
    PROVE  A64!ImmOf(i) = i.off <=> i.off \in (0..2047) \union ((-2^20)..(-2^20 + 2047))
<1>1. 2^20 = 1048576 /\ 2^21 = 2097152 /\ 2^11 = 2048
  BY SMT
<1> DEFINE Imm(y) == (-1 - ((y % 2097152) - 2048) \div 2048) * 2048 + (((y % 2097152) - 2048) % 2048)
           x == i.off
           b == 2^20
<1>2. ASSUME NEW y \in Int, -1048576 <= y, y < 1048576
      PROVE  Imm(y) = y <=> y \in (0..2047) \union ((-1048576)..(-1048576 + 2047))
  BY <1>2, SMT
<1>3. A64!ImmOf(i) = Imm(x)
  BY <1>1, SMT DEF A64!ImmOf, A64!SignExtend64
<1>4. x \in Int /\ -1048576 <= x /\ x < 1048576
  BY <1>1, SMT
<1>5. b = 1048576
  BY <1>1, SMT
<1> HIDE DEF Imm, x, b
<1>6. A64!ImmOf(i) = x <=> x \in (0..2047) \union ((-1048576)..(-1048576 + 2047))
  BY <1>2, <1>3, <1>4, SMT
<1>7. A64!ImmOf(i) = x <=> x \in (0..2047) \union ((-b)..(-b + 2047))
  BY <1>5, <1>6, SMT
<1> QED BY <1>7, SMTT(30) DEF x, b

\* How the code of this rewriter is written in terms of the operations above.
LEMMA Arm64Code ==
    ASSUME NEW r, NEW n
    PROVE  /\ A64!Mov(r, n) = Ins(r, Num(n), Always) /\ A64!Jump(n) = Ins("pc", Num(n), Always)
           /\ A64!Op("pc", A64!Of(r)) = Ins("pc", Of(r), Always)
           /\ A64!Push(r) = Ins("push", Of(r), Always) /\ A64!Fault = Ins("fault", Junk, Always)
BY DEF A64!Mov, A64!Jump, A64!Op, A64!Num, A64!Of, A64!Push, A64!Fault, A64!Junk, Ins, Num, Of, Junk, Always

\* What is loaded by way of one register into another.
LEMMA Arm64Load ==
    ASSUME NEW r, NEW q
    PROVE  A64!Op(r, A64!At(q)) = Ins(r, At(q), Always)
BY DEF A64!Op, A64!At, Ins, At, Always

\* A jump on a condition, near and by way of xt.
LEMMA Arm64If ==
    ASSUME NEW n
    PROVE  /\ A64!If({TRUE}, <<A64!Jump(n)>>) = <<Ins("pc", Num(n), OnlyYes)>>
           /\ A64!If({TRUE}, <<A64!Mov(A64!xTarget, n), A64!Op("pc", A64!Of(A64!xTarget))>>)
                = <<Ins("xt", Num(n), OnlyYes), Ins("pc", Of("xt"), OnlyYes)>>
<1>1. A64!Jump(n) = Ins("pc", Num(n), Always) /\ A64!Mov("xt", n) = Ins("xt", Num(n), Always)
      /\ A64!Op("pc", A64!Of("xt")) = Ins("pc", Of("xt"), Always)
  BY Arm64Code
<1>2. ASSUME NEW w, NEW r, NEW v, NEW u PROVE A64!If(w, <<Ins(r, v, u)>>) = <<Ins(r, v, w)>>
  BY DEF A64!If, Ins
<1>3. ASSUME NEW w, NEW r, NEW v, NEW u, NEW q, NEW x, NEW y
      PROVE  A64!If(w, <<Ins(r, v, u), Ins(q, x, y)>>) = <<Ins(r, v, w), Ins(q, x, w)>>
  BY DEF A64!If, Ins
<1>4. {TRUE} = OnlyYes
  BY DEF OnlyYes
<1>5. A64!If(OnlyYes, <<Ins("pc", Num(n), Always)>>) = <<Ins("pc", Num(n), OnlyYes)>>
  BY <1>2
<1>6. A64!If(OnlyYes, <<Ins("xt", Num(n), Always), Ins("pc", Of("xt"), Always)>>)
        = <<Ins("xt", Num(n), OnlyYes), Ins("pc", Of("xt"), OnlyYes)>>
  BY <1>3
<1> QED BY <1>1, <1>4, <1>5, <1>6, Zenon DEF A64!xTarget

\* Of the A64 instructions that are not copied, the good ones are those of Expands.
LEMMA Arm64Exact ==
    ASSUME NEW i \in Instruction, A64!Encodes(i), NEW site \in Int, NEW a \in Int, NEW z \in Int, a <= site,
           ~A64!Rewrite(i, site, z).copied
    PROVE  Good(A64!Rewrite(i, site, z).ops, A64!Meaning(i, site), a, z) <=> A64!Expands(i, site, z)
<1> DEFINE n == site + i.off
<1>1. i.off \in Int /\ n \in Int /\ i.off = n - site
  BY DEF Instruction
<1>2. CASE i.op \in {"adr", "adrp"}
  <2>1. i.rd \in General /\ -2^20 <= i.off /\ i.off < 2^20
    BY <1>2, SMTT(30) DEF A64!Encodes, A64!General, General
  <2>2. A64!ImmOf(i) = i.off <=> i.off \in (0..2047) \union ((-2^20)..(-2^20 + 2047))
    BY <1>1, <2>1, ImmOfIs, SMTT(30)
  <2> DEFINE m == A64!ImmOf(i)
             Dest(x) == IF i.op = "adr" THEN Num(site + x) ELSE <<"page", site \div 4096 + x>>
  <2>3. A64!Expands(i, site, z) <=> m = i.off
    BY <1>2, <2>2, SMTT(30) DEF A64!Expands
  <2>4. m \in Int
    BY <1>1, SMT DEF A64!ImmOf, A64!SignExtend64
  <2> HIDE DEF m
  <2>5. A64!Rewrite(i, site, z).ops = <<Ins(i.rd, Dest(m), Always)>>
    BY <1>2, SMT DEF A64!Rewrite, A64!RewriteADR_ADRP, A64!Emit, A64!Mov, A64!Op, A64!Num,
         A64!Page, Num, Ins, m, Always
  <2>6. A64!Meaning(i, site) = <<Ins(i.rd, Dest(i.off), Always)>>
    BY <1>2, SMT DEF A64!Meaning, A64!Mov, A64!Op, A64!Num, A64!Page, Num, Ins, Always
  <2>7. Dest(m) = Dest(i.off) <=> m = i.off
    <3>1. CASE i.op = "adr"
      <4>1. Num(site + m) = Num(site + i.off) <=> site + m = site + i.off
        BY <1>1, <2>4, NumSame
      <4> QED BY <1>1, <2>4, <3>1, <4>1
    <3>2. CASE i.op = "adrp"
      <4> DEFINE x == site \div 4096
      <4>1. x \in Int
        OBVIOUS
      <4> HIDE DEF x
      <4>2. <<"page", x + m>> = <<"page", x + i.off>> <=> m = i.off
        BY <1>1, <2>4, <4>1
      <4> QED BY <3>2, <4>2 DEF x
    <3> QED BY <1>2, <3>1, <3>2
  <2>8. Plain(Dest(m)) /\ Plain(Dest(i.off))
    BY SMT DEF Plain, Num
  <2> HIDE DEF Dest
  <2>9. Good(<<Ins(i.rd, Dest(m), Always)>>, <<Ins(i.rd, Dest(i.off), Always)>>, a, z)
          <=> Dest(m) = Dest(i.off)
    BY <2>1, <2>8, MoveGood, WhensAre, SMT
  <2> QED BY <2>3, <2>5, <2>6, <2>7, <2>9, Zenon
<1>3. CASE i.op \in {"b", "bl"}
  <2>1. A64!BranchOffset(26, i) = i.off
    BY <1>1, <1>3, BranchOffsetIs, SMT DEF A64!Encodes
  <2>2. n >= z
    BY <1>1, <1>3, <2>1, SMTT(30) DEF A64!Rewrite, A64!RewriteB_BL, A64!EmitCode
  <2>3. A64!Expands(i, site, z) <=> i.op = "b" \/ site + 4 >= z
    BY <1>3, <2>2, SMT DEF A64!Expands
  <2>4. A64!Rewrite(i, site, z).ops = (IF i.op = "bl" THEN <<A64!Mov("lr", site + 4)>> ELSE <<>>)
                                      \o <<A64!Mov("xt", n), A64!Op("pc", A64!Of("xt"))>>
    BY <1>1, <1>3, <2>1, <2>2, SMTT(30) DEF A64!Rewrite, A64!RewriteB_BL, A64!Emit, A64!xTarget
  <2>5. CASE i.op = "b"
    <3>1. A64!Meaning(i, site) = <<A64!Jump(n)>>
      BY <2>5, SMT DEF A64!Meaning
    <3>2. A64!Rewrite(i, site, z).ops = <<A64!Mov("xt", n), A64!Op("pc", A64!Of("xt"))>>
      BY <2>4, <2>5, SMT
    <3>3. Good(<<Ins("xt", Num(n), Always), Ins("pc", Of("xt"), Always)>>,
               <<Ins("pc", Num(n), Always)>>, a, z)
      BY <1>1, <2>2, FarGood, WhensAre, SMT
    <3> HIDE DEF n
    <3>4. /\ A64!Mov("xt", n) = Ins("xt", Num(n), Always) /\ A64!Jump(n) = Ins("pc", Num(n), Always)
          /\ A64!Op("pc", A64!Of("xt")) = Ins("pc", Of("xt"), Always)
      BY Arm64Code
    <3> QED BY <2>3, <2>5, <3>1, <3>2, <3>3, <3>4, Zenon
  <2>6. CASE i.op = "bl"
    <3> DEFINE l == site + 4
    <3>1. A64!Meaning(i, site) = <<A64!Mov("lr", l), A64!Jump(n)>>
      BY <2>6, SMT DEF A64!Meaning
    <3>2. A64!Rewrite(i, site, z).ops = <<A64!Mov("lr", l), A64!Mov("xt", n), A64!Op("pc", A64!Of("xt"))>>
      <4> DEFINE x == A64!Mov("lr", l)
                 y == A64!Mov("xt", n)
                 v == A64!Op("pc", A64!Of("xt"))
      <4>1. A64!Rewrite(i, site, z).ops = <<x>> \o <<y, v>>
        BY <2>4, <2>6
      <4> HIDE DEF x, y, v
      <4>2. <<x>> \o <<y, v>> = <<x, y, v>>
        BY JoinedToTwo
      <4> QED BY <4>1, <4>2, Zenon DEF x, y, v
    <3>3. l \in Int /\ l >= a
      BY SMT
    <3> HIDE DEF l
    <3>4. Good(<<Ins("lr", Num(l), Always), Ins("xt", Num(n), Always), Ins("pc", Of("xt"), Always)>>,
               <<Ins("lr", Num(l), Always), Ins("pc", Num(n), Always)>>, a, z) <=> l >= z
      BY <1>1, <2>2, <3>3, FarLinkGood, SMT
    <3> HIDE DEF n
    <3>5. /\ A64!Mov("xt", n) = Ins("xt", Num(n), Always) /\ A64!Jump(n) = Ins("pc", Num(n), Always)
          /\ A64!Op("pc", A64!Of("xt")) = Ins("pc", Of("xt"), Always)
      BY Arm64Code
    <3>6. A64!Mov("lr", l) = Ins("lr", Num(l), Always)
      BY Arm64Code
    <3>7. A64!Expands(i, site, z) <=> l >= z
      BY <2>3, <2>6, SMT DEF l
    <3> QED BY <3>1, <3>2, <3>4, <3>5, <3>6, <3>7, Zenon
  <2> QED BY <1>3, <2>5, <2>6
<1>4. CASE i.op \in {"b_cond", "cbz", "tbz"}
  <2>1. A64!BranchOffset(IF i.op = "tbz" THEN 14 ELSE 19, i) = i.off
    <3>1. CASE i.op = "tbz"
      <4>1. A64!BranchOffset(14, i) = i.off
        BY <1>1, <3>1, BranchOffsetIs, SMT DEF A64!Encodes
      <4> QED BY <3>1, <4>1, SMT
    <3>2. CASE i.op # "tbz"
      <4>1. A64!BranchOffset(19, i) = i.off
        BY <1>1, <1>4, <3>2, BranchOffsetIs, SMT DEF A64!Encodes
      <4> QED BY <3>2, <4>1, SMT
    <3> QED BY <3>1, <3>2
  <2>2. n >= z
    BY <1>1, <1>4, <2>1, SMT DEF A64!Rewrite, A64!RewriteBranchIf, A64!EmitCode
  <2>3. A64!Expands(i, site, z)
    BY <1>4, <2>2, SMT DEF A64!Expands
  <2>4. A64!Rewrite(i, site, z).ops
          = A64!If({TRUE}, <<A64!Mov(A64!xTarget, n), A64!Op("pc", A64!Of(A64!xTarget))>>)
    BY <1>1, <1>4, <2>1, <2>2, SMT DEF A64!Rewrite, A64!RewriteBranchIf, A64!Emit
  <2>5. A64!Meaning(i, site) = A64!If({TRUE}, <<A64!Jump(n)>>)
    BY <1>4, SMT DEF A64!Meaning
  <2>6. Good(<<Ins("xt", Num(n), OnlyYes), Ins("pc", Of("xt"), OnlyYes)>>,
             <<Ins("pc", Num(n), OnlyYes)>>, a, z)
    BY <1>1, <2>2, FarGood, WhensAre, SMT
  <2> QED BY <2>3, <2>4, <2>5, <2>6, Arm64If, Zenon
<1>5. CASE i.op \in {"ldr", "prfm", "ldr_simd"}
  <2>1. A64!BranchOffset(19, i) = i.off
    BY <1>1, <1>5, BranchOffsetIs, SMT DEF A64!Encodes
  <2>2. n >= z
    BY <1>1, <1>5, <2>1, SMTT(30) DEF A64!Rewrite, A64!RewriteLDR_LIT, A64!EmitCode
  <2>3. A64!Expands(i, site, z) <=> i.op = "ldr"
    BY <1>5, <2>2, SMT DEF A64!Expands
  <2>4. CASE i.op = "ldr"
    <3>1. A64!Rewrite(i, site, z).ops = <<A64!Mov(i.rd, n), A64!Op(i.rd, A64!At(i.rd))>>
      BY <1>1, <2>1, <2>2, <2>4, SMT DEF A64!Rewrite, A64!RewriteLDR_LIT, A64!Emit
    <3>2. A64!Meaning(i, site) = <<A64!Mov("xt", n), A64!Op(i.rd, A64!At("xt"))>>
      BY <2>4, SMT DEF A64!Meaning
    <3>3. i.rd \in General
      BY <2>4, SMT DEF A64!Encodes, A64!General, General
    <3>4. Good(<<Ins(i.rd, Num(n), Always), Ins(i.rd, At(i.rd), Always)>>,
               <<Ins("xt", Num(n), Always), Ins(i.rd, At("xt"), Always)>>, a, z)
      BY <1>1, <3>3, LoadGood, WhensAre, SMT
    <3> HIDE DEF n
    <3>5. A64!Mov(i.rd, n) = Ins(i.rd, Num(n), Always) /\ A64!Mov("xt", n) = Ins("xt", Num(n), Always)
      BY Arm64Code
    <3>6. /\ A64!Op(i.rd, A64!At(i.rd)) = Ins(i.rd, At(i.rd), Always)
          /\ A64!Op(i.rd, A64!At("xt")) = Ins(i.rd, At("xt"), Always)
      BY Arm64Load
    <3> QED BY <2>3, <2>4, <3>1, <3>2, <3>4, <3>5, <3>6, Zenon
  <2>5. CASE i.op \in {"prfm", "ldr_simd"}
    <3> DEFINE q == IF i.op = "prfm" THEN "r0" ELSE "v0"
               p == IF i.op = "prfm" THEN i.rd ELSE "r0"
    <3>1. A64!Rewrite(i, site, z).ops = <<A64!Push("r0"), A64!Mov("r0", n), A64!Op(q, A64!At(p)), A64!Fault>>
      BY <1>1, <2>1, <2>2, <2>5, SMT DEF A64!Rewrite, A64!RewriteLDR_LIT, A64!Emit, A64!PopX0
    <3>2. q \in Reg /\ "r0" \in Reg
      BY SMT DEF Reg
    <3> HIDE DEF q, p
    <3>3. \E h, k, c : Run(A64!Meaning(i, site), Yes) = St(h, Ret, k, c, No)
      <4>1. Yes \in Always /\ "xt" \in Reg /\ Plain(Num(n))
        BY LrIs, NumIs, WhensAre
      <4>2. CASE i.op = "prfm"
        <5>1. A64!Meaning(i, site) = <<Ins("touch", Num(n), Always)>>
          BY <4>2, SMT DEF A64!Meaning, A64!Op, A64!Num, Ins, Num, Always
        <5>2. Run(<<Ins("touch", Num(n), Always)>>, Yes) = St(Old, Ret, On, {} \union {Num(n)}, No)
          BY <4>1, TouchRun
        <5> QED BY <5>1, <5>2, Zenon
      <4>3. CASE i.op = "ldr_simd"
        <5>1. i.rd \in Reg
          BY <4>3, SMT DEF A64!Encodes, Reg
        <5>2. A64!Meaning(i, site) = <<Ins("xt", Num(n), Always), Ins(i.rd, At("xt"), Always)>>
          BY <4>3, SMT DEF A64!Meaning, A64!Op, A64!Num, A64!Mov, A64!At, Ins, Num, At, Always
        <5>3. Run(<<Ins("xt", Num(n), Always), Ins(i.rd, At("xt"), Always)>>, Yes)
                = St(Put(Put(Old, "xt", Num(n)), i.rd, Mem(Num(n))), Ret, On, {} \union {Num(n)}, No)
          <6> HIDE DEF n
          <6> QED BY <4>1, <5>1, LoadRun
        <5> QED BY <5>2, <5>3, Zenon
      <4> QED BY <2>5, <4>2, <4>3
    <3> HIDE DEF n
    <3>4. PICK h, k, c : Run(A64!Meaning(i, site), Yes) = St(h, Ret, k, c, No)
      BY <3>3
    <3>5. ~Good(<<Ins("push", Of("r0"), Always), Ins("r0", Num(n), Always), Ins(q, At(p), Always),
                  Ins("fault", Junk, Always)>>, A64!Meaning(i, site), a, z)
      <4> DEFINE b == "r0"
      <4>1. b \in Reg /\ Plain(Num(n))
        BY <3>2, NumIs
      <4> HIDE DEF b
      <4>2. ~Good(<<Ins("push", Of(b), Always), Ins(b, Num(n), Always), Ins(q, At(p), Always),
                    Ins("fault", Junk, Always)>>, A64!Meaning(i, site), a, z)
        BY <3>2, <3>4, <4>1, FaultBad
      <4> QED BY <4>2, Zenon DEF b
    <3>6. /\ A64!Push("r0") = Ins("push", Of("r0"), Always) /\ A64!Fault = Ins("fault", Junk, Always)
          /\ A64!Mov("r0", n) = Ins("r0", Num(n), Always)
      BY Arm64Code
    <3>7. A64!Op(q, A64!At(p)) = Ins(q, At(p), Always)
      BY Arm64Load
    <3>8. ~A64!Expands(i, site, z)
      BY <2>3, <2>5, SMT
    <3> QED BY <3>1, <3>5, <3>6, <3>7, <3>8, Zenon
  <2> QED BY <1>5, <2>4, <2>5
<1>6. i.op \in {"adr", "adrp", "b", "bl", "b_cond", "cbz", "tbz", "ldr", "prfm", "ldr_simd"}
  BY SMT DEF A64!Rewrite, A64!EmitCode
<1> QED BY <1>2, <1>3, <1>4, <1>5, <1>6, SMT

-----------------------------------------------------------------------------
(* The rewriter for arm                                                    *)

\* How the code of this rewriter is written in terms of the operations above.
LEMMA ArmCode ==
    ASSUME NEW r, NEW n
    PROVE  /\ A32!Mov(r, n) = Ins(r, Num(n), Always) /\ A32!Jump(n) = Ins("pc", Num(n), Always)
           /\ A32!Op("lr", A32!Junk) = Ins("lr", Junk, Always)
           /\ A32!Push(r) = Ins("push", Of(r), Always) /\ A32!Pop(r) = Ins("pop", <<r>>, Always)
BY DEF A32!Mov, A32!Jump, A32!Op, A32!Num, A32!Of, A32!Push, A32!Pop, A32!Junk, Ins, Num, Of, Junk, Always

\* What it computes is written in those terms.
LEMMA ArmTerms ==
    ASSUME NEW r, NEW q, NEW p
    PROVE  /\ A32!Op(r, A32!At(q)) = Ins(r, At(q), Always)
           /\ A32!Op(r, A32!Plus(q, p)) = Ins(r, Plus(q, p), Always)
BY DEF A32!Op, A32!At, A32!Plus, Ins, At, Plus, Always

\* One operation, or two, on a condition.
LEMMA ArmIf ==
    ASSUME NEW r, NEW v, NEW q, NEW x
    PROVE  /\ A32!If({TRUE}, <<Ins(r, v, Always)>>) = <<Ins(r, v, OnlyYes)>>
           /\ A32!If({TRUE}, <<Ins(r, v, Always), Ins(q, x, Always)>>)
                = <<Ins(r, v, OnlyYes), Ins(q, x, OnlyYes)>>
<1>1. ASSUME NEW w, NEW u PROVE A32!If(w, <<Ins(r, v, u)>>) = <<Ins(r, v, w)>>
  BY DEF A32!If, Ins
<1>2. ASSUME NEW w, NEW u, NEW y
      PROVE  A32!If(w, <<Ins(r, v, u), Ins(q, x, y)>>) = <<Ins(r, v, w), Ins(q, x, w)>>
  BY DEF A32!If, Ins
<1>3. {TRUE} = OnlyYes
  BY DEF OnlyYes
<1>4. A32!If(OnlyYes, <<Ins(r, v, Always)>>) = <<Ins(r, v, OnlyYes)>>
  BY <1>1
<1>5. A32!If(OnlyYes, <<Ins(r, v, Always), Ins(q, x, Always)>>) = <<Ins(r, v, OnlyYes), Ins(q, x, OnlyYes)>>
  BY <1>2
<1> QED BY <1>3, <1>4, <1>5, Zenon

\* The code of the instructions the rewriter expands, for the outcomes they have.
Outs(i) == IF i.cond THEN OnlyYes ELSE Always

\* What the instructions do that the rewriter does not copy.
LEMMA ArmMeaning ==
    ASSUME NEW i \in Instruction, NEW site \in Int
    PROVE  LET n == site + 8 + i.off
               w == Outs(i)
           IN  /\ i.op = "ldr" => A32!Meaning(i, site) = <<Ins("xt", Num(n), w), Ins(i.rd, At("xt"), w)>>
               /\ i.op = "add" => A32!Meaning(i, site)
                    = <<Ins("xt", Num(site + 8), w), Ins(i.rd, Plus("xt", i.rm), w)>>
               /\ i.op = "b" => A32!Meaning(i, site) = <<Ins("pc", Num(n), w)>>
               /\ i.op = "bl" => A32!Meaning(i, site) = <<Ins("lr", Num(site + 4), w), Ins("pc", Num(n), w)>>
<1> DEFINE n == site + 8 + i.off
           m == site + 8
           l == site + 4
<1>1. A32!P(site) = m /\ A32!P(site) + i.off = n /\ i.cond \in BOOLEAN
  BY DEF A32!P, Instruction
<1> HIDE DEF n, m
<1>2. /\ A32!Mov("xt", n) = Ins("xt", Num(n), Always) /\ A32!Mov("xt", m) = Ins("xt", Num(m), Always)
      /\ A32!Mov("lr", l) = Ins("lr", Num(l), Always) /\ A32!Jump(n) = Ins("pc", Num(n), Always)
  BY ArmCode
<1>3. /\ A32!Op(i.rd, A32!At("xt")) = Ins(i.rd, At("xt"), Always)
      /\ A32!Op(i.rd, A32!Plus("xt", i.rm)) = Ins(i.rd, Plus("xt", i.rm), Always)
  BY ArmTerms
<1>4. ASSUME NEW ops, ops = <<Ins("xt", Num(n), Always), Ins(i.rd, At("xt"), Always)>>, i.op = "ldr"
      PROVE  A32!Meaning(i, site) = IF i.cond THEN A32!If({TRUE}, ops) ELSE ops
  BY <1>1, <1>2, <1>3, <1>4, SMT DEF A32!Meaning
<1>5. ASSUME NEW ops, ops = <<Ins("xt", Num(m), Always), Ins(i.rd, Plus("xt", i.rm), Always)>>, i.op = "add"
      PROVE  A32!Meaning(i, site) = IF i.cond THEN A32!If({TRUE}, ops) ELSE ops
  BY <1>1, <1>2, <1>3, <1>5, SMT DEF A32!Meaning
<1>6. ASSUME NEW ops, ops = <<Ins("pc", Num(n), Always)>>, i.op = "b"
      PROVE  A32!Meaning(i, site) = IF i.cond THEN A32!If({TRUE}, ops) ELSE ops
  BY <1>1, <1>2, <1>6, SMT DEF A32!Meaning
<1>7. ASSUME NEW ops, ops = <<Ins("lr", Num(l), Always), Ins("pc", Num(n), Always)>>, i.op = "bl"
      PROVE  A32!Meaning(i, site) = IF i.cond THEN A32!If({TRUE}, ops) ELSE ops
  BY <1>1, <1>2, <1>7, SMT DEF A32!Meaning
<1> HIDE DEF l
<1> DEFINE w == Outs(i)
<1>8. ASSUME NEW r, NEW v, NEW q, NEW x
      PROVE  /\ (IF i.cond THEN A32!If({TRUE}, <<Ins(r, v, Always)>>) ELSE <<Ins(r, v, Always)>>)
                  = <<Ins(r, v, w)>>
             /\ (IF i.cond THEN A32!If({TRUE}, <<Ins(r, v, Always), Ins(q, x, Always)>>)
                           ELSE <<Ins(r, v, Always), Ins(q, x, Always)>>) = <<Ins(r, v, w), Ins(q, x, w)>>
  BY ArmIf, Zenon DEF Outs
<1> HIDE DEF w
<1>9. i.op = "ldr" => A32!Meaning(i, site) = <<Ins("xt", Num(n), w), Ins(i.rd, At("xt"), w)>>
  BY <1>4, <1>8, ZenonT(40)
<1>10. i.op = "add" => A32!Meaning(i, site) = <<Ins("xt", Num(m), w), Ins(i.rd, Plus("xt", i.rm), w)>>
  BY <1>5, <1>8, ZenonT(40)
<1>11. i.op = "b" => A32!Meaning(i, site) = <<Ins("pc", Num(n), w)>>
  BY <1>6, <1>8, Zenon
<1>12. i.op = "bl" => A32!Meaning(i, site) = <<Ins("lr", Num(l), w), Ins("pc", Num(n), w)>>
  BY <1>7, <1>8, Zenon
<1> QED BY <1>9, <1>10, <1>11, <1>12, Zenon DEF n, m, l, w

\* An instruction runs for the outcomes it has.
LEMMA OutsIs ==
    ASSUME NEW i \in Instruction
    PROVE  /\ When(Outs(i)) /\ Yes \in Outs(i)
           /\ i.cond \in BOOLEAN /\ (i.cond => Outs(i) = OnlyYes) /\ (~i.cond => Outs(i) = Always)
<1>1. i.cond \in BOOLEAN
  BY DEF Instruction
<1> QED BY <1>1, WhensAre DEF Outs

\* Of the A32 instructions that are not copied, the good ones are those of Expands.
LEMMA ArmExact ==
    ASSUME NEW i \in Instruction, A32!Encodes(i), NEW site \in Int, NEW a \in Int, NEW z \in Int, a <= site,
           ~A32!RewriteArm(i, site, z).copied
    PROVE  Good(A32!RewriteArm(i, site, z).ops, A32!Meaning(i, site), a, z) <=> A32!Expands(i, site, z)
<1> DEFINE n == site + 8 + i.off
           m == site + 8
           w == Outs(i)
           ops == A32!RewriteArm(i, site, z).ops
           others == A32!Meaning(i, site)
<1>1. i.off \in Int /\ n \in Int /\ m \in Int /\ A32!P(site) + i.off = n /\ A32!P(site) = m
  BY DEF Instruction, A32!P
<1>2. i.rd \in General \union {"pc"} /\ i.rm \in General
  BY DEF A32!Encodes, A32!General, General
<1>3. When(w) /\ Yes \in w /\ i.cond \in BOOLEAN /\ (i.cond => w = OnlyYes) /\ (~i.cond => w = Always)
  BY OutsIs
<1>4. CASE i.op = "ldr"
  <2>1. n >= z /\ ops = <<A32!Mov(i.rd, n), A32!Op(i.rd, A32!At(i.rd))>>
    BY <1>1, <1>4, SMT DEF A32!RewriteArm, A32!RewriteArm_LDR, A32!EmitCode, A32!Emit
  <2>2. A32!Expands(i, site, z) <=> ~i.cond /\ i.rd # "pc"
    BY <1>1, <1>3, <1>4, <2>1, SMT DEF A32!Expands
  <2>3. others = <<Ins("xt", Num(n), w), Ins(i.rd, At("xt"), w)>>
    BY <1>4, ArmMeaning, Zenon
  <2> HIDE DEF n, w, ops, others
  <2>4. A32!Mov(i.rd, n) = Ins(i.rd, Num(n), Always)
    BY ArmCode
  <2>5. A32!Op(i.rd, A32!At(i.rd)) = Ins(i.rd, At(i.rd), Always)
    BY ArmTerms
  <2>6. ops = <<Ins(i.rd, Num(n), Always), Ins(i.rd, At(i.rd), Always)>>
    BY <2>1, <2>4, <2>5, Zenon
  <2>7. CASE i.rd = "pc"
    <3> DEFINE x == Ins("pc", At("pc"), Always)
    <3>1. ops = <<Ins("pc", Num(n), Always), x>> /\ others = <<Ins("xt", Num(n), w), Ins("pc", At("xt"), w)>>
      BY <2>3, <2>6, <2>7, Zenon
    <3> HIDE DEF x
    <3>2. ~Good(<<Ins("pc", Num(n), Always), x>>, <<Ins("xt", Num(n), w), Ins("pc", At("xt"), w)>>, a, z)
      BY <1>3, JumpLoadBad, WhensAre
    <3> QED BY <2>2, <2>7, <3>1, <3>2, Zenon DEF ops, others
  <2>8. CASE i.rd # "pc" /\ i.cond
    <3>1. i.rd \in General /\ w = OnlyYes
      BY <1>2, <1>3, <2>8
    <3>2. ~Good(<<Ins(i.rd, Num(n), Always), Ins(i.rd, At(i.rd), Always)>>,
                <<Ins("xt", Num(n), OnlyYes), Ins(i.rd, At("xt"), OnlyYes)>>, a, z)
      BY <3>1, LoadCondBad
    <3> QED BY <2>2, <2>3, <2>6, <2>8, <3>1, <3>2, Zenon DEF ops, others
  <2>9. CASE i.rd # "pc" /\ ~i.cond
    <3>1. i.rd \in General /\ w = Always
      BY <1>2, <1>3, <2>9
    <3>2. Good(<<Ins(i.rd, Num(n), Always), Ins(i.rd, At(i.rd), Always)>>,
               <<Ins("xt", Num(n), Always), Ins(i.rd, At("xt"), Always)>>, a, z)
      BY <1>1, <3>1, LoadGood, WhensAre
    <3> QED BY <2>2, <2>3, <2>6, <2>9, <3>1, <3>2, Zenon DEF ops, others
  <2> QED BY <2>7, <2>8, <2>9
<1>5. CASE i.op = "add"
  <2> DEFINE b == A32!ScratchFor({i.rd, i.rm})
  <2>1. ops = <<A32!Push(b), A32!Mov(b, m), A32!Op(i.rd, A32!Plus(b, i.rd)), A32!Pop(b)>>
    BY <1>1, <1>5, SMT DEF A32!RewriteArm, A32!RewriteArm_Add, A32!Emit
  <2>2. A32!Expands(i, site, z) <=> ~i.cond /\ i.rd = i.rm
    BY <1>3, <1>5, SMT DEF A32!Expands
  <2>3. others = <<Ins("xt", Num(m), w), Ins(i.rd, Plus("xt", i.rm), w)>>
    BY <1>5, ArmMeaning, Zenon
  <2>4. b \in General /\ (i.rd = i.rm => b # i.rd)
    BY <1>2 DEF A32!ScratchFor, General
  <2> HIDE DEF m, w, ops, others, b
  <2>5. A32!Push(b) = Ins("push", Of(b), Always) /\ A32!Pop(b) = Ins("pop", <<b>>, Always)
        /\ A32!Mov(b, m) = Ins(b, Num(m), Always)
    BY ArmCode
  <2>6. A32!Op(i.rd, A32!Plus(b, i.rd)) = Ins(i.rd, Plus(b, i.rd), Always)
    BY ArmTerms
  <2>7. ops = Borrow(b, Num(m), Ins(i.rd, Plus(b, i.rd), Always), Always)
    BY <2>1, <2>5, <2>6, Zenon DEF Borrow
  <2>8. CASE i.rd = "pc"
    <3> DEFINE op == Ins("pc", Plus(b, "pc"), Always)
               other == Ins("pc", Plus("xt", i.rm), w)
               g == Put(Old, b, Num(m))
               h == Put(Old, "xt", Num(m))
               k == Sum2(Holds(g, b), Holds(g, "pc"))
               c == Sum2(Holds(h, "xt"), Holds(h, i.rm))
    <3>1. k # On
      BY DEF Sum2, On
    <3>2. Plain(Num(m)) /\ "xt" \in Reg
      BY NumIs, LrIs
    <3>3. ops = Borrow(b, Num(m), op, Always) /\ others = <<Ins("xt", Num(m), w), other>>
      BY <2>3, <2>7, <2>8, Zenon
    <3> HIDE DEF g, h
    <3>4. Execute(St(g, Lent(b), On, {}, No), op, Yes) = St(g, Lent(b), k, {}, No)
      BY PlusPc, WhensAre
    <3>5. Execute(St(h, Ret, On, {}, No), other, Yes) = St(h, Ret, c, {}, No)
      BY <1>3, PlusPc
    <3> HIDE DEF op, other, k, c
    <3>6. Run(<<Ins("xt", Num(m), w), other>>, Yes) = St(h, Ret, c, {}, No)
      BY <1>3, <3>2, <3>5, PairRun DEF h
    <3>7. ~Good(Borrow(b, Num(m), op, Always), <<Ins("xt", Num(m), w), other>>, a, z)
      BY <2>4, <3>1, <3>2, <3>4, <3>6, BorrowJumpBad, WhensAre DEF g
    <3>8. i.rd # i.rm
      BY <1>2, <2>8, GeneralIs
    <3> QED BY <2>2, <3>3, <3>7, <3>8, Zenon DEF ops, others
  <2>9. CASE i.rd # "pc" /\ i.rd # i.rm
    <3>1. i.rd \in General
      BY <1>2, <2>9
    <3>2. ~Good(Borrow(b, Num(m), Ins(i.rd, Plus(b, i.rd), Always), Always),
                <<Ins("xt", Num(m), w), Ins(i.rd, Plus("xt", i.rm), w)>>, a, z)
      BY <1>2, <1>3, <2>4, <2>9, <3>1, AddBad
    <3> QED BY <2>2, <2>3, <2>7, <2>9, <3>2, Zenon DEF ops, others
  <2>10. CASE i.rd # "pc" /\ i.rd = i.rm /\ i.cond
    <3>1. i.rd \in General /\ w = OnlyYes /\ i.rd # b
      BY <1>2, <1>3, <2>4, <2>10
    <3>2. ~Good(Borrow(b, Num(m), Ins(i.rd, Plus(b, i.rd), Always), Always),
                <<Ins("xt", Num(m), OnlyYes), Ins(i.rd, Plus("xt", i.rm), OnlyYes)>>, a, z)
      BY <2>4, <3>1, AddCondBad
    <3> QED BY <2>2, <2>3, <2>7, <2>10, <3>1, <3>2, Zenon DEF ops, others
  <2>11. CASE i.rd # "pc" /\ i.rd = i.rm /\ ~i.cond
    <3>1. i.rd \in General /\ w = Always /\ i.rd # b /\ Plain(Num(m))
      BY <1>2, <1>3, <2>4, <2>11, NumIs
    <3>2. Good(Borrow(b, Num(m), Ins(i.rd, Plus(b, i.rd), Always), Always),
               <<Ins("xt", Num(m), Always), Ins(i.rd, Plus("xt", i.rd), Always)>>, a, z)
      BY <2>4, <3>1, SumGood
    <3> QED BY <2>2, <2>3, <2>7, <2>11, <3>1, <3>2, Zenon DEF ops, others
  <2> QED BY <2>8, <2>9, <2>10, <2>11
<1>6. CASE i.op = "b"
  <2>1. n >= z /\ ops = <<>> \o <<A32!Jump(n)>>
    BY <1>1, <1>6, SMT DEF A32!RewriteArm, A32!RewriteArm_B, A32!EmitCode, A32!Emit
  <2>2. A32!Expands(i, site, z) <=> ~i.cond
    BY <1>1, <1>3, <1>6, <2>1, SMT DEF A32!Expands
  <2>3. others = <<Ins("pc", Num(n), w)>>
    BY <1>6, ArmMeaning, Zenon
  <2> HIDE DEF n, w, ops, others
  <2>4. A32!Jump(n) = Ins("pc", Num(n), Always)
    BY ArmCode
  <2>5. ops = <<Ins("pc", Num(n), Always)>>
    BY <2>1, <2>4
  <2>6. CASE i.cond
    <3>1. ~Good(<<Ins("pc", Num(n), Always)>>, <<Ins("pc", Num(n), OnlyYes)>>, a, z)
      BY JumpCondBad
    <3> QED BY <1>3, <2>2, <2>3, <2>5, <2>6, <3>1, Zenon DEF ops, others
  <2>7. CASE ~i.cond
    <3>1. Good(<<Ins("pc", Num(n), Always)>>, <<Ins("pc", Num(n), Always)>>, a, z)
      BY <1>1, <2>1, JumpGood, WhensAre
    <3> QED BY <1>3, <2>2, <2>3, <2>5, <2>7, <3>1, Zenon DEF ops, others
  <2> QED BY <2>6, <2>7
<1>7. CASE i.op = "bl"
  <2> DEFINE l == site + 4
  <2>1. ops = <<A32!Op("lr", A32!Junk)>> \o <<A32!Jump(n)>>
    BY <1>1, <1>7, SMT DEF A32!RewriteArm, A32!RewriteArm_B, A32!EmitCode, A32!Emit
  <2>2. ~A32!Expands(i, site, z)
    BY <1>7, SMT DEF A32!Expands
  <2>3. others = <<Ins("lr", Num(l), w), Ins("pc", Num(n), w)>>
    BY <1>7, ArmMeaning, Zenon
  <2> HIDE DEF n, w, ops, others, l
  <2>4. A32!Jump(n) = Ins("pc", Num(n), Always) /\ A32!Op("lr", A32!Junk) = Ins("lr", Junk, Always)
    BY ArmCode
  <2>5. ops = <<Ins("lr", Junk, Always), Ins("pc", Num(n), Always)>>
    BY <2>1, <2>4, Joined
  <2>6. ~Good(<<Ins("lr", Junk, Always), Ins("pc", Num(n), Always)>>,
              <<Ins("lr", Num(l), w), Ins("pc", Num(n), w)>>, a, z)
    BY <1>3, LinkBad, NumIs
  <2> QED BY <2>2, <2>3, <2>5, <2>6, Zenon DEF ops, others
<1>8. i.op \in {"ldr", "add", "b", "bl"}
  BY SMT DEF A32!RewriteArm, A32!EmitCode
<1> QED BY <1>4, <1>5, <1>6, <1>7, <1>8

-----------------------------------------------------------------------------
(* The rewriter for Thumb                                                  *)

\* How the code of this rewriter is written in terms of the operations above.
LEMMA ThumbCode ==
    ASSUME NEW r, NEW n
    PROVE  /\ T32!Mov(r, n) = Ins(r, Num(n), Always) /\ T32!Jump(n) = Ins("pc", Num(n), Always)
           /\ T32!Op("lr", T32!Junk) = Ins("lr", Junk, Always)
           /\ T32!Op("pc", T32!Junk) = Ins("pc", Junk, Always)
           /\ T32!Push(r) = Ins("push", Of(r), Always) /\ T32!Pop(r) = Ins("pop", <<r>>, Always)
BY DEF T32!Mov, T32!Jump, T32!Op, T32!Num, T32!Of, T32!Push, T32!Pop, T32!Junk, Ins, Num, Of, Junk, Always

\* What it computes is written in those terms.
LEMMA ThumbTerms ==
    ASSUME NEW r, NEW q, NEW p
    PROVE  /\ T32!Op(r, T32!At(q)) = Ins(r, At(q), Always)
           /\ T32!Op(r, T32!Half(q)) = Ins(r, Half(q), Always)
           /\ T32!Op(r, T32!Of(q)) = Ins(r, Of(q), Always)
           /\ T32!Op(r, T32!Plus(q, p)) = Ins(r, Plus(q, p), Always)
           /\ T32!Op(r, T32!Compare(q, p)) = Ins(r, Compare(q, p), Always)
BY DEF T32!Op, T32!At, T32!Half, T32!Of, T32!Plus, T32!Compare, Ins, At, Half, Of, Plus, Compare, Always

\* A jump on a condition.
LEMMA ThumbIf ==
    ASSUME NEW r, NEW v
    PROVE  T32!If({TRUE}, <<Ins(r, v, Always)>>) = <<Ins(r, v, OnlyYes)>>
<1>1. ASSUME NEW w, NEW u PROVE T32!If(w, <<Ins(r, v, u)>>) = <<Ins(r, v, w)>>
  BY DEF T32!If, Ins
<1>2. {TRUE} = OnlyYes
  BY DEF OnlyYes
<1>3. T32!If(OnlyYes, <<Ins(r, v, Always)>>) = <<Ins(r, v, OnlyYes)>>
  BY <1>1
<1> QED BY <1>2, <1>3, Zenon

\* A register that is borrowed on a condition.
LEMMA ThumbIfBorrow ==
    ASSUME NEW b, NEW t, NEW q, NEW v, NEW w, NEW u
    PROVE  T32!If(w, Borrow(b, t, Ins(q, v, u), u)) = Borrow(b, t, Ins(q, v, w), w)
BY DEF T32!If, Ins, Borrow

\* The code that borrows r0 to jump runs when the condition holds.
LEMMA ByR0Is ==
    ASSUME NEW n
    PROVE  /\ T32!ByR0(n) = Borrow("r0", Num(n), Ins("pc", Of("r0"), OnlyYes), OnlyYes)
           /\ T32!If({TRUE}, T32!ByR0(n)) = Borrow("r0", Num(n), Ins("pc", Of("r0"), OnlyYes), OnlyYes)
           /\ T32!If({FALSE}, T32!ByR0(n)) = Borrow("r0", Num(n), Ins("pc", Of("r0"), OnlyNo), OnlyNo)
<1> DEFINE b == "r0"
           q == "pc"
           C(w) == Borrow(b, Num(n), Ins(q, Of(b), w), w)
<1>1. T32!ByR0(n) = T32!If({TRUE}, <<T32!Push("r0"), T32!Mov("r0", n),
                                      T32!Op("pc", T32!Of("r0")), T32!Pop("r0")>>)
  BY Zenon DEF T32!ByR0
<1>2. /\ T32!Push("r0") = Ins("push", Of(b), Always) /\ T32!Mov("r0", n) = Ins(b, Num(n), Always)
      /\ T32!Pop("r0") = Ins("pop", <<b>>, Always)
  BY ThumbCode
<1>3. T32!Op("pc", T32!Of("r0")) = Ins(q, Of(b), Always)
  BY ThumbTerms
<1>4. T32!ByR0(n) = T32!If({TRUE}, C(Always))
  BY <1>1, <1>2, <1>3, Zenon DEF Borrow
<1> HIDE DEF b, q
<1>5. ASSUME NEW w, NEW u PROVE T32!If(w, C(u)) = C(w)
  BY ThumbIfBorrow
<1>6. {TRUE} = OnlyYes /\ {FALSE} = OnlyNo
  BY DEF OnlyYes, OnlyNo
<1> HIDE DEF C
<1>7. T32!ByR0(n) = C(OnlyYes)
  BY <1>4, <1>5, <1>6, Zenon
<1>8. T32!If({TRUE}, T32!ByR0(n)) = C(OnlyYes) /\ T32!If({FALSE}, T32!ByR0(n)) = C(OnlyNo)
  BY <1>5, <1>6, <1>7, Zenon
<1> QED BY <1>7, <1>8, Zenon DEF C, b, q

\* A word begins at the place rounded down, or before it.
LEMMA WordIs ==
    ASSUME NEW x \in Int
    PROVE  T32!Word(x) \in Int /\ T32!Word(x) <= x /\ (T32!Word(x) = x <=> x % 4 = 0)
BY DEF T32!Word, T32!RoundDown

\* The distance to a place at a word boundary can be added before or after.
LEMMA WordPlus ==
    ASSUME NEW x \in Int, NEW y \in Int, y % 4 = 0
    PROVE  T32!Word(x + y) = T32!Word(x) + y
BY DEF T32!Word, T32!RoundDown

\* What the instructions of one register do that the rewriter does not copy.
LEMMA ThumbMeaning ==
    ASSUME NEW i \in Instruction, NEW site \in Int
    PROVE  LET n == site + 4 + i.off
               m == T32!Word(site + 4) + i.off
               others == T32!Meaning(i, site)
           IN  /\ i.op \in {"ldr", "ldr32"}
                    => others = <<Ins("xt", Num(m), Always), Ins(i.rd, At("xt"), Always)>>
               /\ i.op = "ldrb32" => others = <<Ins("xt", Num(m), Always), Ins(i.rd, Half("xt"), Always)>>
               /\ i.op = "add_imm" => others = <<Ins(i.rd, Num(m), Always)>>
               /\ i.op \in {"b", "b32"} => others = <<Ins("pc", Num(n), Always)>>
               /\ i.op = "bl32" => others = <<Ins("lr", Num(site + 4), Always), Ins("pc", Num(n), Always)>>
               /\ i.op \in {"b_cond", "cbz", "cbnz"} => others = <<Ins("pc", Num(n), OnlyYes)>>
<1> DEFINE n == site + 4 + i.off
           m == T32!Word(site + 4) + i.off
           l == site + 4
           others == T32!Meaning(i, site)
<1>1. T32!P(site) = l /\ T32!P(site) + i.off = n /\ T32!Word(T32!P(site)) + i.off = m
  BY DEF T32!P
<1>2. /\ T32!Mov("xt", m) = Ins("xt", Num(m), Always) /\ T32!Mov(i.rd, m) = Ins(i.rd, Num(m), Always)
      /\ T32!Mov("lr", l) = Ins("lr", Num(l), Always) /\ T32!Jump(n) = Ins("pc", Num(n), Always)
  BY ThumbCode
<1>3. /\ T32!Op(i.rd, T32!At("xt")) = Ins(i.rd, At("xt"), Always)
      /\ T32!Op(i.rd, T32!Half("xt")) = Ins(i.rd, Half("xt"), Always)
  BY ThumbTerms
<1> HIDE DEF n, m
<1>4. i.op \in {"ldr", "ldr32"} => others = <<Ins("xt", Num(m), Always), Ins(i.rd, At("xt"), Always)>>
  BY <1>1, <1>2, <1>3, SMT DEF T32!Meaning
<1>5. i.op = "ldrb32" => others = <<Ins("xt", Num(m), Always), Ins(i.rd, Half("xt"), Always)>>
  BY <1>1, <1>2, <1>3, SMT DEF T32!Meaning
<1>6. i.op = "add_imm" => others = <<Ins(i.rd, Num(m), Always)>>
  BY <1>1, <1>2, SMT DEF T32!Meaning
<1>7. i.op \in {"b", "b32"} => others = <<Ins("pc", Num(n), Always)>>
  BY <1>1, <1>2, SMT DEF T32!Meaning
<1>8. i.op = "bl32" => others = <<Ins("lr", Num(l), Always), Ins("pc", Num(n), Always)>>
  BY <1>1, <1>2, SMT DEF T32!Meaning
<1>9. i.op \in {"b_cond", "cbz", "cbnz"} => others = T32!If({TRUE}, <<T32!Jump(n)>>)
  BY <1>1, SMT DEF T32!Meaning
<1>10. i.op \in {"b_cond", "cbz", "cbnz"} => others = <<Ins("pc", Num(n), OnlyYes)>>
  BY <1>2, <1>9, ThumbIf, Zenon
<1> QED BY <1>4, <1>5, <1>6, <1>7, <1>8, <1>10, Zenon DEF n, m

\* What those of two registers do, of which pc is one.
LEMMA ThumbDataMeaning ==
    ASSUME NEW i \in Instruction, NEW site \in Int, i.rd # "pc" \/ i.rm # "pc"
    PROVE  LET m == site + 4
               others == T32!Meaning(i, site)
           IN  /\ i.op = "add" /\ i.rm = "pc"
                    => others = <<Ins("xt", Num(m), Always), Ins(i.rd, Plus(i.rd, "xt"), Always)>>
               /\ i.op = "cmp" /\ i.rm = "pc"
                    => others = <<Ins("xt", Num(m), Always), Ins("flags", Compare(i.rd, "xt"), Always)>>
               /\ i.op = "mov" /\ i.rm = "pc"
                    => others = <<Ins("xt", Num(m), Always), Ins(i.rd, Of("xt"), Always)>>
               /\ i.op = "add" /\ i.rm # "pc" /\ i.rd = "pc"
                    => others = <<Ins("xt", Num(m), Always), Ins("pc", Plus("xt", i.rm), Always)>>
               /\ i.op = "mov" /\ i.rm # "pc" /\ i.rd = "pc" => others = <<Ins("pc", Of(i.rm), Always)>>
<1> DEFINE m == site + 4
           others == T32!Meaning(i, site)
<1>1. T32!P(site) = m
  BY DEF T32!P
<1>2. T32!Mov("xt", m) = Ins("xt", Num(m), Always)
  BY ThumbCode
<1>3. /\ T32!Op(i.rd, T32!Plus(i.rd, "xt")) = Ins(i.rd, Plus(i.rd, "xt"), Always)
      /\ T32!Op("flags", T32!Compare(i.rd, "xt")) = Ins("flags", Compare(i.rd, "xt"), Always)
      /\ T32!Op(i.rd, T32!Of("xt")) = Ins(i.rd, Of("xt"), Always)
      /\ T32!Op("pc", T32!Plus("xt", i.rm)) = Ins("pc", Plus("xt", i.rm), Always)
      /\ T32!Op("pc", T32!Of(i.rm)) = Ins("pc", Of(i.rm), Always)
  BY ThumbTerms
<1> HIDE DEF m
<1> DEFINE data == T32!DataProcessing(i.op, i.rd, "xt")
<1>9. /\ i.op = "add" => data = T32!Op(i.rd, T32!Plus(i.rd, "xt"))
      /\ i.op = "cmp" => data = T32!Op("flags", T32!Compare(i.rd, "xt"))
      /\ i.op = "mov" => data = T32!Op(i.rd, T32!Of("xt"))
  BY DEF T32!DataProcessing
<1>10. i.op \in {"add", "cmp", "mov"} /\ i.rm = "pc" => others = <<T32!Mov("xt", m), data>>
  BY <1>1, SMT DEF T32!Meaning
<1> HIDE DEF data
<1>4. i.op = "add" /\ i.rm = "pc"
        => others = <<Ins("xt", Num(m), Always), Ins(i.rd, Plus(i.rd, "xt"), Always)>>
  BY <1>2, <1>3, <1>9, <1>10
<1>5. i.op = "cmp" /\ i.rm = "pc"
        => others = <<Ins("xt", Num(m), Always), Ins("flags", Compare(i.rd, "xt"), Always)>>
  BY <1>2, <1>3, <1>9, <1>10
<1>6. i.op = "mov" /\ i.rm = "pc"
        => others = <<Ins("xt", Num(m), Always), Ins(i.rd, Of("xt"), Always)>>
  BY <1>2, <1>3, <1>9, <1>10
<1>7. i.op = "add" /\ i.rm # "pc" /\ i.rd = "pc"
        => others = <<Ins("xt", Num(m), Always), Ins("pc", Plus("xt", i.rm), Always)>>
  BY <1>1, <1>2, <1>3, SMT DEF T32!Meaning
<1>8. i.op = "mov" /\ i.rm # "pc" /\ i.rd = "pc" => others = <<Ins("pc", Of(i.rm), Always)>>
  BY <1>3, SMT DEF T32!Meaning
<1> QED BY <1>4, <1>5, <1>6, <1>7, <1>8, Zenon DEF m

\* A sum or a copy of the borrowed register that goes to pc is not good.
LEMMA DataJumpBad ==
    ASSUME NEW b \in General, NEW r \in General, NEW n, NEW a, NEW z
    PROVE  /\ ~Good(Borrow(b, Num(n), Ins("pc", Plus("pc", b), Always), Always),
                    <<Ins("xt", Num(n), Always), Ins("pc", Plus("xt", r), Always)>>, a, z)
           /\ ~Good(Borrow(b, Num(n), Ins("pc", Of(b), Always), Always), <<Ins("pc", Of(r), Always)>>, a, z)
<1> DEFINE w == Always
           t == Num(n)
           sum == Ins("pc", Plus("pc", b), w)
           sums == Ins("pc", Plus("xt", r), w)
           copy == Ins("pc", Of(b), w)
           copies == Ins("pc", Of(r), w)
           g == Put(Old, b, t)
           h == Put(Old, "xt", t)
           k == Sum2(Holds(g, "pc"), Holds(g, b))
           c == Sum2(Holds(h, "xt"), Holds(h, r))
           e == Holds(g, b)
           o == Holds(Old, r)
<1>1. Plain(t) /\ "xt" \in Reg /\ t # On /\ Yes \in w
  BY NumIs, LrIs, WhensAre
<1>2. k # On
  BY DEF Sum2, On
<1>3. e = t
  BY GeneralIs, OldIs, HoldsPut
<1> HIDE DEF w, t, g, h
<1>4. Execute(St(g, Lent(b), On, {}, No), sum, Yes) = St(g, Lent(b), k, {}, No)
  BY <1>1, PlusPc
<1>5. Execute(St(h, Ret, On, {}, No), sums, Yes) = St(h, Ret, c, {}, No)
  BY <1>1, PlusPc
<1>6. Execute(St(g, Lent(b), On, {}, No), copy, Yes) = St(g, Lent(b), e, {}, No)
  BY <1>1, CopyPc
<1>7. Execute(Begun, copies, Yes) = St(Old, Ret, o, {}, No)
  BY <1>1, CopyPc DEF Begun
<1> HIDE DEF sum, sums, copy, copies, k, c, e, o
<1>8. Run(<<Ins("xt", t, w), sums>>, Yes) = St(h, Ret, c, {}, No)
  BY <1>1, <1>5, PairRun DEF h
<1>9. Run(<<copies>>, Yes) = St(Old, Ret, o, {}, No)
  BY <1>7, RunOne, StartBegun
<1>10. ~Good(Borrow(b, t, sum, w), <<Ins("xt", t, w), sums>>, a, z)
  BY <1>1, <1>2, <1>4, <1>8, BorrowJumpBad, SMTT(30) DEF g
<1>11. ~Good(Borrow(b, t, copy, w), <<copies>>, a, z)
  BY <1>1, <1>3, <1>6, <1>9, BorrowJumpBad DEF g
<1> QED BY <1>10, <1>11, Zenon DEF sum, sums, copy, copies, t, w

\* A jump that leaves the borrowed register on the stack is not good.
LEMMA LentJumpBad ==
    ASSUME NEW b \in General, NEW n, NEW m, NEW a, NEW z
    PROVE  ~Good(Borrow(b, Num(n), Ins("pc", Of(b), OnlyYes), OnlyYes), <<Ins("pc", Num(m), OnlyYes)>>, a, z)
<1> DEFINE w == OnlyYes
           t == Num(n)
           u == Num(m)
           copy == Ins("pc", Of(b), w)
           others == <<Ins("pc", Num(m), w)>>
           g == Put(Old, b, t)
           e == Holds(g, b)
<1>1. Plain(t) /\ t # On /\ Plain(u) /\ Yes \in w
  BY NumIs, WhensAre
<1>2. e = t
  BY GeneralIs, OldIs, HoldsPut
<1> HIDE DEF w, t, g
<1>3. Execute(St(g, Lent(b), On, {}, No), copy, Yes) = St(g, Lent(b), e, {}, No)
  BY <1>1, CopyPc
<1>4. Run(others, Yes) = St(Old, Ret, u, {}, No)
  BY <1>1, JumpRun
<1> HIDE DEF copy, e, others, u
<1>5. ~Good(Borrow(b, t, copy, w), others, a, z)
  BY <1>1, <1>2, <1>3, <1>4, BorrowJumpBad DEF g
<1> QED BY <1>5, Zenon DEF copy, others, t, w

\* Of the Thumb instructions that are not copied, the good ones are those of Expands.
LEMMA ThumbExact ==
    ASSUME NEW i \in Instruction, T32!Encodes(i), NEW site \in Int, NEW a \in Int, NEW z \in Int, a <= site,
           ~T32!RewriteThumb(i, site, z).copied
    PROVE  Good(T32!RewriteThumb(i, site, z).ops, T32!Meaning(i, site), a, z) <=> T32!Expands(i, site, z)
<1> DEFINE q == site + 4
           n == q + i.off
           m == T32!Word(q) + i.off
           x == T32!Word(n)
           c == T32!Word(q + (i.off % 512))
           ops == T32!RewriteThumb(i, site, z).ops
           others == T32!Meaning(i, site)
           Fine == T32!Expands(i, site, z)
<1>1. /\ i.off \in Int /\ q \in Int /\ n \in Int /\ T32!P(site) = q /\ T32!P(site) + i.off = n
  BY DEF Instruction, T32!P
<1>2. /\ x \in Int /\ x <= n /\ (x = n <=> n % 4 = 0)
      /\ T32!Word(q) \in Int /\ m \in Int
  BY <1>1, WordIs
<1>3. i.off % 4 = 0 => x = m
  BY <1>1, WordPlus
<1>4. /\ i.rd \in General \union {"pc"} /\ i.rm \in General \union {"pc"}
      /\ i.rd = "pc" => i.op \in {"ldr32", "ldrb32", "add", "mov"} /\ i.rm # "pc"
      /\ i.op \in {"ldr", "add_imm"} => i.off % 4 = 0
  BY DEF T32!Encodes, T32!General, General
<1>5. When(Always) /\ Yes \in Always
  BY WhensAre
<1>6. CASE i.op \in {"ldr", "ldr32", "ldrb32"}
  <2>1. /\ x >= z
        /\ ops = <<T32!Mov(i.rd, x), T32!Op(i.rd, IF i.op = "ldrb32" THEN T32!Half(i.rd)
                                                                    ELSE T32!At(i.rd))>>
    BY <1>1, <1>2, <1>6, SMTT(30) DEF T32!RewriteThumb, T32!RewriteThumb_LDR_PC16, T32!RewriteThumb_LDRL32,
         T32!EmitCode, T32!Emit
  <2>2. Fine <=> i.rd # "pc" /\ x = m
    BY <1>1, <1>2, <1>3, <1>4, <1>6, <2>1, SMT DEF T32!Expands
  <2>3. /\ i.op # "ldrb32" => others = <<Ins("xt", Num(m), Always), Ins(i.rd, At("xt"), Always)>>
        /\ i.op = "ldrb32" => others = <<Ins("xt", Num(m), Always), Ins(i.rd, Half("xt"), Always)>>
    BY <1>6, ThumbMeaning, Zenon
  <2>4. /\ T32!Mov(i.rd, x) = Ins(i.rd, Num(x), Always)
    BY ThumbCode
  <2>5. /\ T32!Op(i.rd, T32!At(i.rd)) = Ins(i.rd, At(i.rd), Always)
        /\ T32!Op(i.rd, T32!Half(i.rd)) = Ins(i.rd, Half(i.rd), Always)
    BY ThumbTerms
  <2> HIDE DEF x, m, ops, others, Fine
  <2>6. /\ i.op # "ldrb32" => ops = <<Ins(i.rd, Num(x), Always), Ins(i.rd, At(i.rd), Always)>>
        /\ i.op = "ldrb32" => ops = <<Ins(i.rd, Num(x), Always), Ins(i.rd, Half(i.rd), Always)>>
    BY <2>1, <2>4, <2>5
  <2>7. CASE i.rd = "pc"
    <3> DEFINE load == Ins("pc", At("pc"), Always)
               half == Ins("pc", Half("pc"), Always)
    <3>1. /\ i.op # "ldrb32" => ops = <<Ins("pc", Num(x), Always), load>>
          /\ i.op # "ldrb32" => others = <<Ins("xt", Num(m), Always), Ins("pc", At("xt"), Always)>>
          /\ i.op = "ldrb32" => ops = <<Ins("pc", Num(x), Always), half>>
          /\ i.op = "ldrb32" => others = <<Ins("xt", Num(m), Always), Ins("pc", Half("xt"), Always)>>
      BY <2>3, <2>6, <2>7, Zenon
    <3> HIDE DEF load, half
    <3>2. ~Good(<<Ins("pc", Num(x), Always), load>>,
                <<Ins("xt", Num(m), Always), Ins("pc", At("xt"), Always)>>, a, z)
      BY <1>5, JumpLoadBad
    <3>3. ~Good(<<Ins("pc", Num(x), Always), half>>,
                <<Ins("xt", Num(m), Always), Ins("pc", Half("xt"), Always)>>, a, z)
      BY <1>5, JumpLoadHalfBad
    <3> QED BY <2>2, <2>7, <3>1, <3>2, <3>3, Zenon DEF ops, others, Fine
  <2>8. CASE i.rd # "pc"
    <3>1. i.rd \in General
      BY <1>4, <2>8
    <3>2. Good(<<Ins(i.rd, Num(x), Always), Ins(i.rd, At(i.rd), Always)>>,
               <<Ins("xt", Num(m), Always), Ins(i.rd, At("xt"), Always)>>, a, z) <=> x = m
      BY <1>2, <1>5, <3>1, LoadGood DEF x, m
    <3>3. Good(<<Ins(i.rd, Num(x), Always), Ins(i.rd, Half(i.rd), Always)>>,
               <<Ins("xt", Num(m), Always), Ins(i.rd, Half("xt"), Always)>>, a, z) <=> x = m
      BY <1>2, <1>5, <3>1, LoadHalfGood DEF x, m
    <3> QED BY <2>2, <2>3, <2>6, <2>8, <3>2, <3>3, Zenon DEF ops, others, Fine
  <2> QED BY <2>7, <2>8
<1>7. CASE i.op = "add_imm"
  <2>1. ops = <<T32!Mov(i.rd, x)>>
    BY <1>1, <1>7, SMT DEF T32!RewriteThumb, T32!RewriteThumb_ADD_FROM_PC16, T32!Emit
  <2>2. Fine
    BY <1>7, SMT DEF T32!Expands
  <2>3. others = <<Ins(i.rd, Num(m), Always)>>
    BY <1>7, ThumbMeaning, Zenon
  <2>4. /\ T32!Mov(i.rd, x) = Ins(i.rd, Num(x), Always)
    BY ThumbCode
  <2>5. x = m /\ i.rd \in General
    BY <1>3, <1>4, <1>7
  <2> HIDE DEF x, m, ops, others, Fine
  <2>6. Good(<<Ins(i.rd, Num(x), Always)>>, <<Ins(i.rd, Num(m), Always)>>, a, z)
    <3> DEFINE t == Num(x)
    <3>1. Plain(t)
      BY NumIs
    <3> HIDE DEF t
    <3>2. Good(<<Ins(i.rd, t, Always)>>, <<Ins(i.rd, t, Always)>>, a, z)
      BY <1>5, <2>5, <3>1, MoveGood
    <3> QED BY <2>5, <3>2, Zenon DEF t
  <2> QED BY <2>1, <2>2, <2>3, <2>4, <2>6, Zenon DEF ops, others, Fine
<1>8. CASE i.op = "b"
  <2>1. x >= z /\ ops = <<T32!Jump(x)>>
    BY <1>1, <1>2, <1>8, SMT DEF T32!RewriteThumb, T32!RewriteThumb_B16, T32!EmitCode, T32!Emit
  <2>2. Fine <=> x = n
    BY <1>1, <1>2, <1>8, <2>1, SMT DEF T32!Expands
  <2>3. others = <<Ins("pc", Num(n), Always)>>
    BY <1>8, ThumbMeaning, Zenon
  <2>4. T32!Jump(x) = Ins("pc", Num(x), Always)
    BY ThumbCode
  <2>5. Good(<<Ins("pc", Num(x), Always)>>, <<Ins("pc", Num(n), Always)>>, a, z) <=> x = n
    <3> HIDE DEF x, n
    <3> QED BY <1>1, <1>2, <1>5, <2>1, JumpGood DEF x, n
  <2> HIDE DEF x, n, ops, others, Fine
  <2> QED BY <2>1, <2>2, <2>3, <2>4, <2>5, Zenon DEF ops, others, Fine
<1>9. CASE i.op \in {"b32", "bl32"}
  <2>1. ops = <<T32!Op("lr", T32!Junk), T32!Op("pc", T32!Junk)>>
    BY <1>9, SMT DEF T32!RewriteThumb, T32!RewriteThumb_B32, T32!Emit
  <2>2. ~Fine
    BY <1>9, SMT DEF T32!Expands
  <2> DEFINE l == site + 4
  <2>3. /\ i.op = "b32" => others = <<Ins("pc", Num(n), Always)>>
        /\ i.op = "bl32" => others = <<Ins("lr", Num(l), Always), Ins("pc", Num(n), Always)>>
    BY ThumbMeaning, Zenon
  <2>4. T32!Op("lr", T32!Junk) = Ins("lr", Junk, Always) /\ T32!Op("pc", T32!Junk) = Ins("pc", Junk, Always)
    BY ThumbCode
  <2> HIDE DEF n, l, ops, others, Fine
  <2>5. /\ ~Good(<<Ins("lr", Junk, Always), Ins("pc", Junk, Always)>>,
                 <<Ins("lr", Num(l), Always), Ins("pc", Num(n), Always)>>, a, z)
        /\ ~Good(<<Ins("lr", Junk, Always), Ins("pc", Junk, Always)>>, <<Ins("pc", Num(n), Always)>>, a, z)
    BY <1>5, NumJunk, LinkBad
  <2>6. ops = <<Ins("lr", Junk, Always), Ins("pc", Junk, Always)>>
    BY <2>1, <2>4, Zenon
  <2> QED BY <1>9, <2>2, <2>3, <2>5, <2>6, Zenon DEF ops, others, Fine
<1>10. CASE i.op \in {"b_cond", "cbz", "cbnz"}
  <2>1. /\ i.op = "b_cond" => ops = T32!ByR0(c)
        /\ i.op \in {"cbz", "cbnz"} => ops = T32!If({i.op = "cbz"}, T32!ByR0(x))
    BY <1>1, <1>10, SMT DEF T32!RewriteThumb, T32!RewriteThumb_B_COND16, T32!RewriteThumb_CBZ16, T32!EmitCode,
         T32!Emit
  <2>2. ~Fine
    BY <1>10, SMT DEF T32!Expands
  <2>3. others = <<Ins("pc", Num(n), OnlyYes)>>
    BY <1>10, ThumbMeaning, Zenon
  <2> HIDE DEF x, c, n, ops, others, Fine
  <2>4. /\ i.op = "cbz" => {i.op = "cbz"} = {TRUE}
        /\ i.op = "cbnz" => {i.op = "cbz"} = {FALSE}
    BY Zenon
  <2>5. /\ i.op = "cbz" => ops = T32!If({TRUE}, T32!ByR0(x))
        /\ i.op = "cbnz" => ops = T32!If({FALSE}, T32!ByR0(x))
    BY <2>1, <2>4, Zenon
  <2> DEFINE r == "r0"
  <2>6. r \in General
    BY DEF General
  <2>7. /\ i.op = "b_cond" => ops = Borrow(r, Num(c), Ins("pc", Of(r), OnlyYes), OnlyYes)
        /\ i.op = "cbz" => ops = Borrow(r, Num(x), Ins("pc", Of(r), OnlyYes), OnlyYes)
        /\ i.op = "cbnz" => ops = Borrow(r, Num(x), Ins("pc", Of(r), OnlyNo), OnlyNo)
    BY <2>1, <2>5, ByR0Is, Zenon
  <2> HIDE DEF r
  <2>8. /\ ~Good(Borrow(r, Num(c), Ins("pc", Of(r), OnlyYes), OnlyYes), <<Ins("pc", Num(n), OnlyYes)>>, a, z)
        /\ ~Good(Borrow(r, Num(x), Ins("pc", Of(r), OnlyYes), OnlyYes), <<Ins("pc", Num(n), OnlyYes)>>, a, z)
    BY <2>6, LentJumpBad
  <2>9. ~Good(Borrow(r, Num(x), Ins("pc", Of(r), OnlyNo), OnlyNo), <<Ins("pc", Num(n), OnlyYes)>>, a, z)
    BY OtherOutcomeBad
  <2> QED BY <1>10, <2>2, <2>3, <2>7, <2>8, <2>9, Zenon DEF ops, others, Fine
<1>11. CASE i.op \in {"add", "cmp", "mov"}
  <2> DEFINE other == IF i.rm = "pc" THEN i.rd ELSE i.rm
             b == IF other = "r0" THEN "r1" ELSE "r0"
  <2>1. /\ ops = <<T32!Push(b), T32!Mov(b, q), T32!DataProcessing(i.op, i.rd, b), T32!Pop(b)>>
        /\ "pc" \in {i.rd, i.rm} /\ i.rd # i.rm
    BY <1>1, <1>11, SMT DEF T32!RewriteThumb, T32!RewriteThumb_DataProcessing16, T32!EmitCode, T32!Emit
  <2>2. Fine <=> i.rm = "pc" /\ i.rd # "pc"
    BY <1>11, SMT DEF T32!Expands
  <2>3. b \in General /\ b # other
    BY DEF General
  <2>4. (i.rm = "pc" /\ i.rd \in General /\ other = i.rd) \/ (i.rd = "pc" /\ i.rm \in General /\ i.rm # "pc")
    BY <1>4, <2>1
  <2>5. /\ i.op = "add" => T32!DataProcessing(i.op, i.rd, b) = T32!Op(i.rd, T32!Plus(i.rd, b))
        /\ i.op = "cmp" => T32!DataProcessing(i.op, i.rd, b) = T32!Op("flags", T32!Compare(i.rd, b))
        /\ i.op = "mov" => T32!DataProcessing(i.op, i.rd, b) = T32!Op(i.rd, T32!Of(b))
    BY DEF T32!DataProcessing
  <2> HIDE DEF other, b
  <2>6. /\ T32!Push(b) = Ins("push", Of(b), Always) /\ T32!Mov(b, q) = Ins(b, Num(q), Always)
        /\ T32!Pop(b) = Ins("pop", <<b>>, Always)
    BY ThumbCode
  <2>7. /\ T32!Op(i.rd, T32!Plus(i.rd, b)) = Ins(i.rd, Plus(i.rd, b), Always)
        /\ T32!Op("flags", T32!Compare(i.rd, b)) = Ins("flags", Compare(i.rd, b), Always)
        /\ T32!Op(i.rd, T32!Of(b)) = Ins(i.rd, Of(b), Always)
    BY ThumbTerms
  <2> DEFINE op == T32!DataProcessing(i.op, i.rd, b)
  <2>8. /\ i.op = "add" => op = Ins(i.rd, Plus(i.rd, b), Always)
        /\ i.op = "cmp" => op = Ins("flags", Compare(i.rd, b), Always)
        /\ i.op = "mov" => op = Ins(i.rd, Of(b), Always)
    BY <2>5, <2>7, Zenon
  <2> HIDE DEF q, ops, others, Fine
  <2>9. ops = Borrow(b, Num(q), op, Always)
    BY <2>1, <2>6, Zenon DEF Borrow
  <2> HIDE DEF op
  <2>10. /\ i.op = "add" => ops = Borrow(b, Num(q), Ins(i.rd, Plus(i.rd, b), Always), Always)
         /\ i.op = "cmp" => ops = Borrow(b, Num(q), Ins("flags", Compare(i.rd, b), Always), Always)
         /\ i.op = "mov" => ops = Borrow(b, Num(q), Ins(i.rd, Of(b), Always), Always)
    BY <2>8, <2>9, Zenon
  <2>11. CASE i.rm = "pc" /\ i.rd \in General /\ other = i.rd
    <3> DEFINE t == Num(q)
    <3>1. Plain(t) /\ i.rd # b /\ i.rd # "pc" /\ Always = Always
      BY <2>3, <2>11, NumIs, GeneralIs
    <3>2. /\ i.op = "add" => others = <<Ins("xt", t, Always), Ins(i.rd, Plus(i.rd, "xt"), Always)>>
          /\ i.op = "cmp" => others = <<Ins("xt", t, Always), Ins("flags", Compare(i.rd, "xt"), Always)>>
          /\ i.op = "mov" => others = <<Ins("xt", t, Always), Ins(i.rd, Of("xt"), Always)>>
      BY <2>11, <3>1, ThumbDataMeaning, Zenon DEF q, others
    <3> HIDE DEF t
    <3>3. Good(Borrow(b, t, Ins(i.rd, Plus(i.rd, b), Always), Always),
               <<Ins("xt", t, Always), Ins(i.rd, Plus(i.rd, "xt"), Always)>>, a, z)
      BY <2>3, <2>11, <3>1, AddGood
    <3>4. Good(Borrow(b, t, Ins("flags", Compare(i.rd, b), Always), Always),
               <<Ins("xt", t, Always), Ins("flags", Compare(i.rd, "xt"), Always)>>, a, z)
      BY <2>3, <2>11, <3>1, CompareGood
    <3>5. Good(Borrow(b, t, Ins(i.rd, Of(b), Always), Always),
               <<Ins("xt", t, Always), Ins(i.rd, Of("xt"), Always)>>, a, z)
      BY <2>3, <2>11, <3>1, CopyGood
    <3> QED BY <1>11, <2>2, <2>10, <2>11, <3>1, <3>2, <3>3, <3>4, <3>5, Zenon DEF ops, others, Fine, t
  <2>12. CASE i.rd = "pc" /\ i.rm \in General /\ i.rm # "pc"
    <3>1. i.op = "add" \/ i.op = "mov"
      BY <1>4, <1>11, <2>12
    <3>2. /\ i.op = "add" => others = <<Ins("xt", Num(q), Always), Ins("pc", Plus("xt", i.rm), Always)>>
          /\ i.op = "mov" => others = <<Ins("pc", Of(i.rm), Always)>>
      BY <2>12, ThumbDataMeaning, Zenon DEF q, others
    <3>3. /\ i.op = "add" => ops = Borrow(b, Num(q), Ins("pc", Plus("pc", b), Always), Always)
          /\ i.op = "mov" => ops = Borrow(b, Num(q), Ins("pc", Of(b), Always), Always)
      BY <2>10, <2>12, Zenon
    <3>4. /\ ~Good(Borrow(b, Num(q), Ins("pc", Plus("pc", b), Always), Always),
                   <<Ins("xt", Num(q), Always), Ins("pc", Plus("xt", i.rm), Always)>>, a, z)
          /\ ~Good(Borrow(b, Num(q), Ins("pc", Of(b), Always), Always), <<Ins("pc", Of(i.rm), Always)>>, a, z)
      BY <2>3, <2>12, DataJumpBad
    <3> QED BY <2>2, <2>12, <3>1, <3>2, <3>3, <3>4, Zenon DEF ops, others, Fine
  <2> QED BY <2>4, <2>11, <2>12
<1>12. CASE i.op \notin {"ldr", "ldr32", "ldrb32", "add_imm", "b", "b32", "bl32", "b_cond", "cbz", "cbnz",
                          "add", "cmp", "mov"}
  <2>1. T32!RewriteThumb(i, site, z) = T32!EmitCode
    BY <1>12, SMT DEF T32!RewriteThumb
  <2> QED BY <2>1 DEF T32!EmitCode
<1> QED BY <1>6, <1>7, <1>8, <1>9, <1>10, <1>11, <1>12, Zenon

-----------------------------------------------------------------------------
(* What the trampoline does                                                *)

\* Code that is not a copy does what the instruction did exactly when it is one
\* that Expands lists.
LEMMA ExpansionsAreExact ==
    ASSUME InlineInv, phase = "hooked", NEW k \in 1..Len(out), ~Copied(k)
    PROVE  Faithful(out[k]) <=> Expands(out[k].insn, out[k].pc)
<1> DEFINE i == code[k]
           site == address + Begins(k)
           ops == Rewritten(i, site).ops
<1>1. /\ isa \in {"arm64", "arm", "thumb"} /\ i \in Instruction
      /\ isa = "arm64" => A64!Encodes(i)
      /\ isa = "arm" => A32!Encodes(i)
      /\ isa = "thumb" => T32!Encodes(i)
  <2>1. k \in DOMAIN code /\ code \in Seq(Instruction)
    BY TraceFacts
  <2> QED BY <2>1, ProgramFacts DEF InlineInv
<1>2. /\ address \in Int /\ site \in Int /\ address <= site /\ tail \in Int
  <2>1. k \in 1..(Len(out) + 1) /\ address \in Nat
    BY TraceFacts
  <2>2. Begins(k) \in Nat /\ size \in Nat
    BY <2>1, TraceFacts, LastReaches
  <2> QED BY <2>1, <2>2 DEF tail
<1>3. out[k].insn = i /\ out[k].pc = site /\ out[k].relocated = Rewritten(i, site)
        /\ ~Rewritten(i, site).copied
  BY TraceFacts DEF Copied
<1> HIDE DEF i, site
<1>4. Faithful(out[k]) <=> Good(ops, Meaning(i, site), address, tail)
  BY <1>3 DEF Faithful, Good
<1>5. Good(ops, Meaning(i, site), address, tail) <=> Expands(i, site)
  <2>1. CASE isa = "arm64"
    <3>1. /\ Rewritten(i, site) = A64!Rewrite(i, site, tail) /\ Meaning(i, site) = A64!Meaning(i, site)
          /\ Expands(i, site) <=> A64!Expands(i, site, tail)
      BY <2>1, SMT DEF Rewritten, Meaning, Expands
    <3> QED BY <1>1, <1>2, <1>3, <2>1, <3>1, Arm64Exact
  <2>2. CASE isa = "arm"
    <3>1. /\ Rewritten(i, site) = A32!RewriteArm(i, site, tail) /\ Meaning(i, site) = A32!Meaning(i, site)
          /\ Expands(i, site) <=> A32!Expands(i, site, tail)
      BY <2>2, SMT DEF Rewritten, Meaning, Expands
    <3> QED BY <1>1, <1>2, <1>3, <2>2, <3>1, ArmExact
  <2>3. CASE isa = "thumb"
    <3>1. /\ Rewritten(i, site) = T32!RewriteThumb(i, site, tail) /\ Meaning(i, site) = T32!Meaning(i, site)
          /\ Expands(i, site) <=> T32!Expands(i, site, tail)
      BY <2>3, SMT DEF Rewritten, Meaning, Expands
    <3> QED BY <1>1, <1>2, <1>3, <2>3, <3>1, ThumbExact
  <2> QED BY <1>1, <2>1, <2>2, <2>3
<1> QED BY <1>3, <1>4, <1>5

\* Whatever function is hooked and wherever its instructions stand, the trampoline
\* does what an instruction did exactly when it is a copy that is undisturbed or an
\* expansion that Expands lists.
THEOREM SupportIsExactAlways == InlineSpec => []SupportIsExact
<1>1. InlineInv => SupportIsExact
  <2> SUFFICES ASSUME InlineInv, Hooked, NEW e \in Range(out)
               PROVE  Faithful(e) <=> IF e.relocated.copied THEN Undisturbed(e) ELSE Expands(e.insn, e.pc)
    BY DEF SupportIsExact
  <2>1. phase = "hooked"
    BY DEF Hooked
  <2>2. PICK k \in DOMAIN out : e = out[k]
    BY DEF Range
  <2>3. k \in 1..Len(out)
    BY <2>2, TraceFacts
  <2>4. CASE Copied(k)
    <3>1. Stays(out[k]) <=> Undisturbed(out[k])
      BY <2>1, <2>3, <2>4, CopiesAreExact
    <3> QED BY <2>2, <2>4, <3>1 DEF Faithful, Copied
  <2>5. CASE ~Copied(k)
    <3>1. Faithful(out[k]) <=> Expands(out[k].insn, out[k].pc)
      BY <2>1, <2>3, <2>5, ExpansionsAreExact
    <3> QED BY <2>2, <2>5, <3>1 DEF Copied
  <2> QED BY <2>4, <2>5
<1> QED BY <1>1, InlineInvariance, PTL
=============================================================================
