--------------------------- MODULE ArtHooks_proofs ---------------------------
(* Proofs about ArtHooks, for any threads, callbacks, addresses and moves.  *)
(* First the native side, whatever the callbacks do; then the dispatcher,   *)
(* for any number of callbacks with any conduct.                            *)
EXTENDS ArtHooks, WellFoundedInduction, TLAPS

-----------------------------------------------------------------------------
(* The inductive invariant                                                 *)

InCall == {"before", "lookup", "check", "lock", "fix", "unlock", "use",
           "enter", "after", "done"}

\* Only the thread that made the set of callbacks goes to the native hook, once.
HookedOnce ==
    /\ callbacks = Null => ~hooked /\ \A t \in Thread : pc[t] # "native"
    /\ \A t \in Thread : pc[t] = "native" => ~hooked
    /\ \A t, u \in Thread : pc[t] = "native" /\ pc[u] = "native" => t = u
    /\ \A t \in Thread : pc[t] \in InCall => hooked

\* decl_class_ is the class the clone names.
RecordOK == ~misfiled => clone.decl = declSeen

\* What a thread whose reading is still right knows at its step.
ReadingOK ==
    \A t \in Thread : ~misfiled /\ ~inv[t].moved =>
        /\ pc[t] \in {"lock", "fix", "unlock", "use", "enter"} =>
              inv[t].decl = decl
        /\ pc[t] \in {"unlock", "use", "enter"} => declSeen = decl
        /\ pc[t] = "enter" => inv[t].ref = origin

IInv ==
    /\ TypeOK
    /\ HookedOnce
    /\ OriginalIsOriginal
    /\ RecordOK
    /\ ReadingOK

\* Null is not a set of callbacks, and the collector has an address to give.
LEMMA ConstantFacts == Null \notin SUBSET Callback /\ Addr # {} /\ MaxMoves \in Nat
BY ArtHooksAssumption DEF ArtHooksAssumption

-----------------------------------------------------------------------------
(* Init and the steps                                                      *)

\* NoInv is a possible value of the locals.
LEMMA NoInvType == NoInv \in Invocations
BY ConstantFacts DEF NoInv, Invocations

\* Initially nothing is hooked and nobody is in a call.
LEMMA InitIInv == Init => IInv
<1> SUFFICES ASSUME Init PROVE IInv
  OBVIOUS
<1>1. TypeOK
  <2>1. moves \in 0 .. MaxMoves
    BY ConstantFacts DEF Init
  <2>2. pc \in [Thread -> Steps] /\ inv \in [Thread -> Invocations]
    BY NoInvType DEF Init, Steps
  <2> QED BY <2>1, <2>2 DEF Init, TypeOK
<1>2. HookedOnce
  BY DEF Init, HookedOnce, InCall
<1>3. OriginalIsOriginal /\ RecordOK
  BY DEF Init, OriginalIsOriginal, RecordOK
<1>4. ReadingOK
  BY DEF Init, ReadingOK
<1> QED BY <1>1, <1>2, <1>3, <1>4 DEF IInv

\* hookMethod: a thread goes on to the native hook only when it made the set.
LEMMA HookMethodStep ==
  ASSUME IInv, NEW t \in Thread, NEW c \in Callback, HookMethod(t, c)
  PROVE  IInv'
<1>1. TypeOK'
  BY DEF IInv, TypeOK, HookMethod, AtStep, Goto, IsNew, Steps, param, gc
<1>2. HookedOnce'
  BY ConstantFacts DEF IInv, TypeOK, HookedOnce, HookMethod, AtStep, Goto, IsNew, InCall, gc
<1>3. (OriginalIsOriginal /\ RecordOK /\ ReadingOK)'
  BY DEF IInv, TypeOK, OriginalIsOriginal, RecordOK, ReadingOK, HookMethod,
    AtStep, Goto, IsNew, param, gc
<1> QED BY <1>1, <1>2, <1>3 DEF IInv

\* The native hook: nobody is in a call yet, and the clone is of the method as
\* it was.
LEMMA HookNativeStep ==
  ASSUME IInv, NEW t \in Thread, HookNative(t)
  PROVE  IInv'
<1>1. ~hooked /\ clone' = [decl |-> decl, code |-> "code"]
  BY DEF IInv, HookedOnce, HookNative, AtStep, Clone
<1>2. TypeOK'
  BY <1>1 DEF IInv, TypeOK, HookNative, AtStep, Goto, Steps, java, gc
<1>3. HookedOnce'
  BY DEF IInv, TypeOK, HookedOnce, HookNative, AtStep, Goto, InCall, java
<1>4. (OriginalIsOriginal /\ RecordOK /\ ReadingOK)'
  BY <1>1 DEF IInv, TypeOK, HookedOnce, InCall, OriginalIsOriginal, RecordOK,
    ReadingOK, HookNative, AtStep, Goto, gc
<1> QED BY <1>2, <1>3, <1>4 DEF IInv

\* Filing the slot and unhooking touch neither the clone nor a call.
LEMMA JavaStep ==
  ASSUME IInv, NEW t \in Thread,
         FileSlot(t) \/ UnhookSlot(t) \/ \E c \in Callback : UnhookCallback(t, c)
  PROVE  IInv'
<1>1. /\ pc' \in {[pc EXCEPT ![t] = "idle"], [pc EXCEPT ![t] = "unhook"]}
      /\ UNCHANGED <<hooked, param, gc, mutex, inv>> /\ slotMap' \in BOOLEAN
      /\ callbacks' \in (SUBSET Callback) \union {Null}
      /\ (callbacks' = Null) = (callbacks = Null)
  <2>1. CASE FileSlot(t) \/ UnhookSlot(t)
    BY <2>1 DEF IInv, TypeOK, FileSlot, UnhookSlot, AtStep, Goto
  <2>2. ASSUME NEW c \in Callback, UnhookCallback(t, c)
        PROVE  /\ pc' = [pc EXCEPT ![t] = "idle"] /\ UNCHANGED <<slotMap, hooked, param, gc, mutex, inv>>
               /\ callbacks' \in (SUBSET Callback) \union {Null}
               /\ (callbacks' = Null) = (callbacks = Null)
    BY <2>2, ConstantFacts DEF IInv, TypeOK, UnhookCallback, AtStep, Goto
  <2> QED BY <2>1, <2>2 DEF IInv, TypeOK
<1>2. TypeOK'
  BY <1>1 DEF IInv, TypeOK, Steps, param, gc
<1>3. HookedOnce'
  BY <1>1 DEF IInv, TypeOK, HookedOnce, InCall
<1>4. (OriginalIsOriginal /\ RecordOK /\ ReadingOK)'
  BY <1>1 DEF IInv, TypeOK, OriginalIsOriginal, RecordOK, ReadingOK, param, gc
<1> QED BY <1>2, <1>3, <1>4 DEF IInv

\* The dispatcher's steps leave the clone alone and never go to a step of the
\* native side other than the first.
LEMMA DispatchStep ==
  ASSUME IInv, NEW t \in Thread,
         Call(t) \/ Before(t) \/ Replace(t) \/ LookupSlot(t) \/ After(t)
           \/ Return(t) \/ EnterOrigin(t)
  PROVE  IInv'
<1>1. /\ UNCHANGED <<java, hooked, param, gc, mutex>>
      /\ \E next \in {"idle", "before", "lookup", "check", "after", "done"} :
            /\ pc' = [pc EXCEPT ![t] = next]
            /\ next # "idle" => hooked
  <2>1. CASE Call(t) BY <2>1 DEF Call, AtStep, Goto
  <2>2. CASE Before(t) BY <2>2 DEF Before, AfterBefore, EndOfBefore, Goto, IInv,
    HookedOnce, InCall
  <2>3. CASE Replace(t) BY <2>3 DEF Replace, AtStep, Goto, IInv, HookedOnce, InCall
  <2>4. CASE LookupSlot(t) BY <2>4 DEF LookupSlot, AfterBefore, EndOfBefore, Goto,
    IInv, HookedOnce, InCall
  <2>5. CASE After(t) BY <2>5 DEF After, AtStep, Goto, IInv, HookedOnce, InCall
  <2>6. CASE Return(t) BY <2>6 DEF Return, AtStep, Goto
  <2>7. CASE EnterOrigin(t)
    <3>1. inv[t].then \in {"direct", "call", "replace"}
      BY DEF IInv, TypeOK, Invocations
    <3>2. CASE inv[t].then = "direct" BY <2>7, <3>2 DEF EnterOrigin, Goto, IInv,
      HookedOnce, InCall
    <3>3. CASE inv[t].then = "call" BY <2>7, <3>3 DEF EnterOrigin, Goto, IInv,
      HookedOnce, InCall
    <3>4. CASE inv[t].then = "replace" BY <2>7, <3>4 DEF EnterOrigin, AfterBefore,
      EndOfBefore, Goto, IInv, HookedOnce, InCall
    <3> QED BY <3>1, <3>2, <3>3, <3>4
  <2> QED BY <2>1, <2>2, <2>3, <2>4, <2>5, <2>6, <2>7
<1>2. \/ inv' = inv
      \/ inv' = [inv EXCEPT ![t] = NoInv]
      \/ \E then \in {"direct", "call", "replace"} : BeginInvoke(t, then)
  <2>1. CASE Call(t) BY <2>1 DEF Call
  <2>2. CASE Before(t) BY <2>2 DEF Before, AfterBefore
  <2>3. CASE Replace(t) \/ After(t) BY <2>3 DEF Replace, After
  <2>4. CASE LookupSlot(t) BY <2>4 DEF LookupSlot, AfterBefore
  <2>5. CASE Return(t) BY <2>5 DEF Return
  <2>6. CASE EnterOrigin(t)
    <3>1. inv[t].then \in {"direct", "call", "replace"}
      BY DEF IInv, TypeOK, Invocations
    <3>2. CASE inv[t].then = "direct" BY <2>6, <3>2 DEF EnterOrigin
    <3>3. CASE inv[t].then = "call" BY <2>6, <3>3 DEF EnterOrigin
    <3>4. CASE inv[t].then = "replace" BY <2>6, <3>4 DEF EnterOrigin, AfterBefore
    <3> QED BY <3>1, <3>2, <3>3, <3>4
  <2> QED BY <2>1, <2>2, <2>3, <2>4, <2>5, <2>6
<1>3. inv' \in [Thread -> Invocations]
  BY <1>2, NoInvType DEF IInv, TypeOK, BeginInvoke, Invocations
<1>4. \A u \in Thread \ {t} : inv'[u] = inv[u] /\ pc'[u] = pc[u]
  BY <1>1, <1>2 DEF IInv, TypeOK, BeginInvoke
<1>5. pc'[t] \in {"idle", "before", "lookup", "check", "after", "done"}
  BY <1>1 DEF IInv, TypeOK
<1>6. TypeOK'
  <2>1. pc' \in [Thread -> Steps]
    BY <1>1 DEF IInv, TypeOK, Steps
  <2>2. UNCHANGED <<callbacks, slotMap, hooked, misfiled, decl, declSeen, origin, clone, mutex, moves>>
    BY <1>1 DEF java, param, gc
  <2> QED BY <1>3, <2>1, <2>2 DEF IInv, TypeOK
<1>7. HookedOnce'
  BY <1>1 DEF IInv, TypeOK, HookedOnce, InCall, java
<1>8. (OriginalIsOriginal /\ RecordOK)'
  BY <1>1 DEF IInv, OriginalIsOriginal, RecordOK, param
<1>9. ReadingOK'
  BY <1>1, <1>4, <1>5 DEF IInv, ReadingOK, param, gc
<1> QED BY <1>6, <1>7, <1>8, <1>9 DEF IInv

\* Reading decl_class, taking and giving back the mutex, reading the reference.
LEMMA ReadStep ==
  ASSUME IInv, NEW t \in Thread,
         CheckClass(t) \/ Lock(t) \/ Unlock(t) \/ UseOrigin(t)
  PROVE  IInv'
<1> USE DEF AtStep, Goto
<1>1. TypeOK'
  <2>1. CASE CheckClass(t)
    <3>1. inv' \in [Thread -> Invocations]
      BY <2>1 DEF IInv, TypeOK, CheckClass, Invocations
    <3> QED BY <2>1, <3>1 DEF IInv, TypeOK, CheckClass, Steps, java, param, gc
  <2>2. CASE Lock(t) \/ Unlock(t)
    BY <2>2 DEF IInv, TypeOK, Lock, Unlock, Steps, java, param, gc
  <2>3. CASE UseOrigin(t)
    <3>1. inv' \in [Thread -> Invocations]
      BY <2>3 DEF IInv, TypeOK, UseOrigin, Invocations
    <3> QED BY <2>3, <3>1 DEF IInv, TypeOK, UseOrigin, Steps, java, param, gc
  <2> QED BY <2>1, <2>2, <2>3
<1>2. HookedOnce'
  BY DEF IInv, TypeOK, HookedOnce, InCall, CheckClass, Lock, Unlock, UseOrigin,
    AtStep, Goto, java
<1>3. (OriginalIsOriginal /\ RecordOK)'
  BY DEF IInv, OriginalIsOriginal, RecordOK, CheckClass, Lock, Unlock, UseOrigin,
    param
<1>4. ReadingOK'
  <2>1. CASE CheckClass(t)
    <3>1. /\ inv'[t].decl = decl
          /\ \A u \in Thread \ {t} : inv'[u] = inv[u] /\ pc'[u] = pc[u]
          /\ pc'[t] = IF declSeen # decl THEN "lock" ELSE "use"
          /\ UNCHANGED <<param, gc>>
      BY <2>1 DEF IInv, TypeOK, Invocations, CheckClass
    <3> QED BY <3>1 DEF IInv, ReadingOK, param, gc
  <2>2. CASE Lock(t)
    BY <2>2 DEF IInv, TypeOK, ReadingOK, Lock, param, gc
  <2>3. CASE Unlock(t)
    BY <2>3 DEF IInv, TypeOK, ReadingOK, Unlock, param, gc
  <2>4. CASE UseOrigin(t)
    <3>1. /\ inv'[t].ref = origin
          /\ inv'[t].decl = inv[t].decl /\ inv'[t].moved = inv[t].moved
          /\ \A u \in Thread \ {t} : inv'[u] = inv[u] /\ pc'[u] = pc[u]
          /\ pc[t] = "use" /\ pc'[t] = "enter"
          /\ UNCHANGED <<param, gc>>
      BY <2>4 DEF IInv, TypeOK, Invocations, UseOrigin
    <3> QED BY <3>1 DEF IInv, ReadingOK, param, gc
  <2> QED BY <2>1, <2>2, <2>3, <2>4
<1> QED BY <1>1, <1>2, <1>3, <1>4 DEF IInv

\* The new clone.  If another thread's reading is still right, so is the record,
\* and this thread, unless it misfiles, finds nothing to do.
LEMMA FixOriginStep ==
  ASSUME IInv, NEW t \in Thread, FixOrigin(t)
  PROVE  IInv'
<1>1. TypeOK'
  <2>1. inv[t].decl \in Addr
    BY DEF IInv, TypeOK, Invocations
  <2>2. RestoredClone \in [decl : Addr, code : {"code", "trampoline"}]
    BY DEF IInv, TypeOK, RestoredClone, Clone
  <2>3. param' = param \/ /\ clone' = RestoredClone /\ origin' = origin + 1
                          /\ declSeen' = inv[t].decl /\ misfiled' \in BOOLEAN
    BY DEF FixOrigin
  <2> QED BY <2>1, <2>2, <2>3 DEF IInv, TypeOK, FixOrigin, AtStep, Goto, Steps,
    java, param, gc
<1>2. HookedOnce'
  BY DEF IInv, TypeOK, HookedOnce, InCall, FixOrigin, AtStep, Goto, java
<1>3. (OriginalIsOriginal /\ RecordOK)'
  BY DEF IInv, TypeOK, Invocations, OriginalIsOriginal, RecordOK, FixOrigin,
    RestoredClone, Clone, param
<1>4. ReadingOK'
  <2>1. CASE MustFix(t)
    BY <2>1 DEF IInv, TypeOK, Invocations, ReadingOK, FixOrigin, MustFix, AtStep,
      Goto, gc
  <2>2. CASE ~MustFix(t)
    BY <2>2 DEF IInv, TypeOK, Invocations, ReadingOK, FixOrigin, MustFix, AtStep,
      Goto, param, gc
  <2> QED BY <2>1, <2>2
<1> QED BY <1>1, <1>2, <1>3, <1>4 DEF IInv

\* After a move no reading counts.
LEMMA MovingGCStep == ASSUME IInv, MovingGC PROVE IInv'
<1>0. moves' \in 0 .. MaxMoves
  BY ConstantFacts DEF IInv, TypeOK, MovingGC
<1>1. TypeOK'
  BY <1>0 DEF IInv, TypeOK, Invocations, MovingGC, java, param
<1>2. \A t \in Thread : inv'[t].moved
  BY DEF IInv, TypeOK, Invocations, MovingGC
<1>3. (HookedOnce /\ OriginalIsOriginal /\ RecordOK /\ ReadingOK)'
  BY <1>2 DEF IInv, HookedOnce, OriginalIsOriginal, RecordOK, ReadingOK, MovingGC,
    java, param
<1> QED BY <1>1, <1>3 DEF IInv

\* Every step preserves the invariant.
LEMMA Inductive == IInv /\ [Next]_vars => IInv'
<1> SUFFICES ASSUME IInv, [Next]_vars PROVE IInv'
  OBVIOUS
<1>1. CASE UNCHANGED vars
  BY <1>1 DEF IInv, TypeOK, HookedOnce, OriginalIsOriginal, RecordOK, ReadingOK,
    vars, java, param, gc
<1>2. CASE MovingGC
  BY <1>2, MovingGCStep
<1>3. ASSUME NEW t \in Thread, NEW c \in Callback,
             HookMethod(t, c) \/ UnhookCallback(t, c)
      PROVE  IInv'
  BY <1>3, HookMethodStep, JavaStep
<1>4. ASSUME NEW t \in Thread, HookNative(t)
      PROVE  IInv'
  BY <1>4, HookNativeStep
<1>5. ASSUME NEW t \in Thread, FileSlot(t) \/ UnhookSlot(t)
      PROVE  IInv'
  BY <1>5, JavaStep
<1>6. ASSUME NEW t \in Thread,
             Call(t) \/ Before(t) \/ Replace(t) \/ LookupSlot(t) \/ After(t)
               \/ Return(t) \/ EnterOrigin(t)
      PROVE  IInv'
  BY <1>6, DispatchStep
<1>7. ASSUME NEW t \in Thread, CheckClass(t) \/ Lock(t) \/ Unlock(t) \/ UseOrigin(t)
      PROVE  IInv'
  BY <1>7, ReadStep
<1>8. ASSUME NEW t \in Thread, FixOrigin(t)
      PROVE  IInv'
  BY <1>8, FixOriginStep
<1> QED BY <1>1, <1>2, <1>3, <1>4, <1>5, <1>6, <1>7, <1>8 DEF Next

-----------------------------------------------------------------------------
(* The theorems                                                            *)

\* The invariant holds in every state.
THEOREM Invariance == Spec => []IInv
BY InitIInv, Inductive, PTL DEF Spec

\* The variables have their types.
THEOREM TypeCorrect == Spec => []TypeOK
<1>1. IInv => TypeOK
  BY DEF IInv
<1> QED BY <1>1, Invariance, PTL

\* The kept clone never runs the trampoline (ArtRuntime::InvokeOriginalMethod).
THEOREM OriginalIsOriginalAlways == Spec => []OriginalIsOriginal
<1>1. IInv => OriginalIsOriginal
  BY DEF IInv
<1> QED BY <1>1, Invariance, PTL

\* A thread whose class did not move after its comparison enters a live and
\* current origin method, unless decl_class_ was misfiled (art_runtime.cc:272).
THEOREM OriginIsCurrentAlways == Spec => []OriginIsCurrent
<1>1. IInv => OriginIsCurrent
  BY DEF IInv, RecordOK, ReadingOK, OriginIsCurrent
<1> QED BY <1>1, Invariance, PTL

-----------------------------------------------------------------------------
(* The snapshot                                                            *)

\* The order of the naturals, as a set of pairs.
Less == {ss \in Nat \X Nat : ss[1] < ss[2]}

\* Induction over the naturals, with a set for the predicate.
LEMMA NatInductiveSet ==
    ASSUME NEW T, 0 \in T, \A n \in Nat : n \in T => n + 1 \in T
    PROVE  Nat \subseteq T
<1> DEFINE Bad == Nat \ T
<1> SUFFICES ASSUME Bad # {} PROVE FALSE
  OBVIOUS
<1>1. IsWellFoundedOn(Less, Nat)
  BY NatLessThanWellFounded DEF OpToRel, Less
<1>2. PICK x \in Bad : \A y \in Bad : <<y, x>> \notin Less
  <2>1. Bad \subseteq Nat
    OBVIOUS
  <2> HIDE DEF Bad
  <2> QED BY <1>1, <2>1, WFMin
<1>3. x \in Nat /\ x \notin T /\ x # 0
  OBVIOUS
<1>4. x - 1 \in Nat /\ x - 1 < x /\ (x - 1) + 1 = x
  BY <1>3
<1>5. <<x - 1, x>> \in Less
  BY <1>3, <1>4 DEF Less
<1>6. x - 1 \in T
  BY <1>2, <1>4, <1>5
<1> QED BY <1>3, <1>4, <1>6

\* One more of the callbacks by priority.
Step(s, n) == IF Order[n] \in callbacks THEN Append(s, Order[n]) ELSE s

\* The values of f come about step by step.
Steplike(f, n) == f[0] = <<>> /\ \A i \in 1..n : f[i] = Step(f[i - 1], i)

\* A step adds a callback or nothing.
LEMMA StepType ==
    ASSUME NEW s \in Seq(Callback), NEW n \in 1..Len(Order)
    PROVE  Step(s, n) \in Seq(Callback)
BY ArtHooksAssumption DEF Step, Callback

\* There is a function as Sorted is declared to be.
LEMMA SortedExists == \E f \in [0..Len(Order) -> Seq(Callback)] : Steplike(f, Len(Order))
<1> DEFINE T == {n \in Nat : n <= Len(Order) => \E f \in [0..n -> Seq(Callback)] : Steplike(f, n)}
<1>0. Len(Order) \in Nat
  BY ArtHooksAssumption
<1>1. 0 \in T
  <2>1. [i \in 0..0 |-> <<>>] \in [0..0 -> Seq(Callback)] /\ Steplike([i \in 0..0 |-> <<>>], 0)
    BY DEF Steplike
  <2>2. \E f \in [0..0 -> Seq(Callback)] : Steplike(f, 0)
    BY <2>1
  <2> QED BY <2>2
<1>2. ASSUME NEW n \in Nat, n \in T PROVE n + 1 \in T
  <2> SUFFICES ASSUME n + 1 <= Len(Order)
               PROVE  \E f \in [0..(n + 1) -> Seq(Callback)] : Steplike(f, n + 1)
    OBVIOUS
  <2>1. PICK f \in [0..n -> Seq(Callback)] : Steplike(f, n)
    BY <1>0, <1>2
  <2> DEFINE g == [i \in 0..(n + 1) |-> IF i = n + 1 THEN Step(f[n], n + 1) ELSE f[i]]
  <2>2. Step(f[n], n + 1) \in Seq(Callback)
    BY <1>0, <2>1, StepType
  <2>3. g \in [0..(n + 1) -> Seq(Callback)]
    BY <2>1, <2>2
  <2>4. Steplike(g, n + 1)
    <3>1. g[0] = <<>>
      BY <2>1 DEF Steplike
    <3>2. ASSUME NEW i \in 1..(n + 1) PROVE g[i] = Step(g[i - 1], i)
      <4>1. CASE i = n + 1
        BY <4>1
      <4>2. CASE i # n + 1
        BY <2>1, <4>2 DEF Steplike
      <4> QED BY <4>1, <4>2
    <3> QED BY <3>1, <3>2 DEF Steplike
  <2> HIDE DEF g
  <2> QED BY <2>3, <2>4
<1>3. Nat \subseteq T
  <2> HIDE DEF T
  <2> QED BY <1>1, <1>2, NatInductiveSet
<1> QED BY <1>0, <1>3

\* The snapshot is a sequence of callbacks.
LEMMA SnapshotType == Snapshot \in Seq(Callback)
<1>0. Len(Order) \in Nat
  BY ArtHooksAssumption
<1>1. PICK f \in [0..Len(Order) -> Seq(Callback)] : Steplike(f, Len(Order))
  BY SortedExists
<1>2. ASSUME NEW n \in 0..Len(Order)
      PROVE  f[n] = IF n = 0 THEN <<>>
                    ELSE IF Order[n] \in callbacks THEN Append(f[n - 1], Order[n]) ELSE f[n - 1]
  <2>1. n # 0 => n \in 1..Len(Order)
    BY <1>0
  <2> QED BY <1>1, <2>1 DEF Steplike, Step
<1>3. f = [n \in 0..Len(Order) |-> IF n = 0 THEN <<>>
              ELSE IF Order[n] \in callbacks THEN Append(f[n - 1], Order[n]) ELSE f[n - 1]]
  BY <1>1, <1>2
<1>4. Sorted = [n \in 0..Len(Order) |-> IF n = 0 THEN <<>>
                   ELSE IF Order[n] \in callbacks THEN Append(Sorted[n - 1], Order[n]) ELSE Sorted[n - 1]]
  BY <1>3, Zenon DEF Sorted
<1>5. ASSUME NEW n \in 0..Len(Order)
      PROVE  Sorted[n] = IF n = 0 THEN <<>>
                         ELSE IF Order[n] \in callbacks THEN Append(Sorted[n - 1], Order[n]) ELSE Sorted[n - 1]
  BY <1>4, Zenon
<1> DEFINE T == {n \in Nat : n <= Len(Order) => Sorted[n] \in Seq(Callback)}
<1>6. 0 \in T
  <2>1. Sorted[0] = <<>>
    BY <1>0, <1>5
  <2> QED BY <2>1
<1>7. ASSUME NEW n \in Nat, n \in T PROVE n + 1 \in T
  <2> SUFFICES ASSUME n + 1 <= Len(Order) PROVE Sorted[n + 1] \in Seq(Callback)
    OBVIOUS
  <2>1. n + 1 \in 1..Len(Order) /\ n + 1 # 0 /\ (n + 1) - 1 = n /\ Sorted[n] \in Seq(Callback)
    BY <1>0, <1>7
  <2>2. Sorted[n + 1] = Step(Sorted[n], n + 1)
    BY <1>5, <2>1 DEF Step
  <2> QED BY <2>1, <2>2, StepType
<1>8. Nat \subseteq T
  <2> HIDE DEF T
  <2> QED BY <1>6, <1>7, NatInductiveSet
<1> QED BY <1>0, <1>8 DEF Snapshot

-----------------------------------------------------------------------------
(* What the dispatcher's locals say                                        *)

\* The steps of a thread that is about to run the original method.
Working == {"check", "lock", "fix", "unlock", "use", "enter"}

\* The first k callbacks of the snapshot have run their "before" part.
RanFirst(r, k) ==
    /\ Len(r.before) = k /\ k <= Len(r.list)
    /\ \A i \in 1..k : r.before[i] = r.list[i]

\* No one has spoken that counts, and the "after" parts are to come.
Silent(r) == r.after = <<>> /\ ~r.early /\ r.outcome = "none"

\* The outcome is what was said last, and something was said.
Spoken(r) == r.outcome = r.said /\ r.said # "none"

\* The locals before a "before" callback, before the original with callbacks,
\* and before the original without any.
InBefore(r) == r.at \in 1..Len(r.list) /\ RanFirst(r, r.at - 1) /\ Silent(r)
ForOriginal(r) == r.at = Len(r.list) /\ r.at # 0 /\ RanFirst(r, r.at) /\ Silent(r)
WithoutCallbacks(r) == r.list = <<>> /\ r.before = <<>> /\ Silent(r)

\* The "after" parts above the index have run, from the last one on.
InAfter(r) ==
    /\ r.at \in 1..Len(r.before) /\ RanFirst(r, Len(r.before))
    /\ Len(r.after) = Len(r.before) - r.at
    /\ \A i \in 1..Len(r.after) : r.after[i] = r.before[Len(r.before) + 1 - i]
    /\ Spoken(r)

\* The locals of a call that is over.
Paired(r) == r.after = Reverse(r.before) /\ IsPrefix(r.before, r.list) /\ Spoken(r)

\* What the locals of a thread say at its step.
CallOK(t) ==
    /\ pc[t] \in {"before", "lookup"} => InBefore(call[t])
    /\ pc[t] \in Working =>
          /\ inv[t].then = "replace" => InBefore(call[t])
          /\ inv[t].then = "call" => ForOriginal(call[t])
          /\ inv[t].then = "direct" => WithoutCallbacks(call[t])
    /\ pc[t] = "after" => InAfter(call[t])
    /\ pc[t] = "done" => Paired(call[t])

\* The locals of every thread are right for its step.
DispatchInv == call \in [Thread -> Calls] /\ \A t \in Thread : CallOK(t)

\* Nobody is called "none" or "original".
LEMMA SpeakerFacts == \A c \in Callback : c # "none" /\ c # "original"
BY ArtHooksAssumption

\* Adding to what has run.
LEMMA RanOneMore ==
    ASSUME NEW r \in Calls, NEW s \in Calls, InBefore(r), s.list = r.list,
           s.before = Append(r.before, r.list[r.at])
    PROVE  RanFirst(s, r.at)
BY DEF InBefore, RanFirst, Calls

\* Where a call goes on after a "before" callback, whatever that does.
LEMMA AfterBeforeKeeps ==
    ASSUME NEW r \in Calls, InBefore(r), NEW speaks \in BOOLEAN, NEW throws \in BOOLEAN,
           NEW s, s = RunBefore(r, r.list[r.at], speaks, throws)
    PROVE  /\ Advance(s) \in Calls
           /\ EndOfBefore(s) = "after" => InAfter(Advance(s))
           /\ EndOfBefore(s) = "check" => ForOriginal(Advance(s))
           /\ EndOfBefore(s) = "before" => InBefore(Advance(s))
           /\ EndOfBefore(s) \in {"after", "check", "before"}
<1> DEFINE c == r.list[r.at]
<1>1. c \in Callback /\ c # "none" /\ r.at \in 1..Len(r.list)
  BY SpeakerFacts DEF InBefore, Calls
<1>2. /\ s \in Calls /\ s.list = r.list /\ s.before = Append(r.before, c) /\ s.after = r.after
      /\ s.at = r.at
      /\ IF speaks /\ ~throws THEN s.early /\ s.outcome = c /\ s.said = c
                              ELSE ~s.early /\ s.outcome = "none"
  <2>1. r.said \in Speaker /\ c \in Speaker /\ "none" \in Speaker /\ Append(r.before, c) \in Seq(Callback)
    BY <1>1 DEF Calls, Speaker
  <2>2. CASE speaks /\ ~throws
    BY <1>1, <2>1, <2>2 DEF RunBefore, ResetBefore, Calls, InBefore, Silent
  <2>3. CASE throws
    BY <1>1, <2>1, <2>3 DEF RunBefore, ResetBefore, Calls, InBefore, Silent
  <2>4. CASE ~speaks /\ ~throws
    BY <1>1, <2>1, <2>4 DEF RunBefore, ResetBefore, Calls, InBefore, Silent
  <2> QED BY <2>2, <2>3, <2>4
<1>3. RanFirst(s, r.at)
  BY <1>2, RanOneMore
<1>4. EndOfBefore(s) \in {"after", "check", "before"}
  BY DEF EndOfBefore
<1>5. CASE s.early
  <2>1. EndOfBefore(s) = "after" /\ Advance(s) = s
    BY <1>5 DEF EndOfBefore, Advance
  <2>2. InAfter(s)
    BY <1>1, <1>2, <1>3, <1>5, SMTT(30) DEF InAfter, RanFirst, Spoken, InBefore, Silent, Calls
  <2> QED BY <1>2, <2>1, <2>2
<1>6. CASE ~s.early /\ s.at = Len(s.list)
  <2>1. EndOfBefore(s) = "check" /\ Advance(s) = s
    BY <1>6 DEF EndOfBefore, Advance
  <2>2. ForOriginal(s)
    BY <1>1, <1>2, <1>3, <1>6 DEF ForOriginal, InBefore, Silent
  <2> QED BY <1>2, <2>1, <2>2
<1>7. CASE ~s.early /\ s.at # Len(s.list)
  <2>1. EndOfBefore(s) = "before" /\ Advance(s) = [s EXCEPT !.at = @ + 1]
    BY <1>7 DEF EndOfBefore, Advance
  <2>2. /\ Advance(s) \in Calls /\ Advance(s).at = r.at + 1 /\ Advance(s).list = r.list
        /\ Advance(s).before = s.before /\ Advance(s).after = s.after
        /\ Advance(s).early = s.early /\ Advance(s).outcome = s.outcome
    <3>1. s.at + 1 \in Nat /\ s.at + 1 = r.at + 1
      BY <1>2 DEF Calls
    <3> QED BY <1>2, <2>1, <3>1 DEF Calls
  <2>3. InBefore(Advance(s))
    <3>1. r.at + 1 \in 1..Len(r.list) /\ (r.at + 1) - 1 = r.at
      BY <1>1, <1>2, <1>7, SMTT(30) DEF Calls
    <3>2. RanFirst(Advance(s), r.at)
      BY <1>2, <1>3, <2>2 DEF RanFirst
    <3>3. Silent(Advance(s))
      BY <1>2, <1>7, <2>2 DEF Silent, InBefore
    <3> QED BY <2>2, <3>1, <3>2, <3>3 DEF InBefore
  <2> QED BY <2>1, <2>2, <2>3
<1> QED BY <1>4, <1>5, <1>6, <1>7

\* All of the "after" parts have run.
LEMMA AllAfterPaired ==
    ASSUME NEW r \in Calls, RanFirst(r, Len(r.before)), Len(r.after) = Len(r.before),
           \A i \in 1..Len(r.after) : r.after[i] = r.before[Len(r.before) + 1 - i], Spoken(r)
    PROVE  Paired(r)
<1>1. r.before \in Seq(Callback) /\ r.after \in Seq(Callback) /\ r.list \in Seq(Callback)
  BY DEF Calls
<1>2. r.after = Reverse(r.before)
  <2>1. ASSUME NEW i \in 1..Len(r.before) PROVE r.after[i] = r.before[(Len(r.before) - i) + 1]
    <3>1. Len(r.before) \in Nat /\ i \in Int /\ Len(r.before) + 1 - i = (Len(r.before) - i) + 1
      BY <1>1
    <3>2. r.after[i] = r.before[Len(r.before) + 1 - i]
      OBVIOUS
    <3> QED BY <3>1, <3>2
  <2>2. r.after = [i \in 1..Len(r.after) |-> r.after[i]]
    BY <1>1
  <2>3. Len(r.after) = Len(r.before)
    OBVIOUS
  <2> QED BY <2>1, <2>2, <2>3 DEF Reverse
<1>3. IsPrefix(r.before, r.list)
  <2>1. Len(r.before) <= Len(r.list) /\ \A i \in 1..Len(r.before) : r.before[i] = r.list[i]
    BY DEF RanFirst
  <2> QED BY <1>1, <2>1 DEF IsPrefix
<1> QED BY <1>2, <1>3 DEF Paired

\* An "after" callback, whatever it does.
LEMMA RunAfterKeeps ==
    ASSUME NEW r \in Calls, InAfter(r), NEW speaks \in BOOLEAN, NEW throws \in BOOLEAN,
           NEW s, s = RunAfter(r, r.list[r.at], speaks, throws)
    PROVE  /\ s \in Calls
           /\ IsFirst(r) => Paired(s)
           /\ ~IsFirst(r) => InAfter(s)
<1> DEFINE c == r.list[r.at]
<1>1. /\ r.at \in 1..Len(r.before) /\ Len(r.before) <= Len(r.list) /\ c = r.before[r.at]
      /\ c \in Callback /\ c # "none"
  BY SpeakerFacts DEF InAfter, RanFirst, Calls
<1>2. /\ s \in Calls /\ s.list = r.list /\ s.before = r.before /\ s.after = Append(r.after, c)
      /\ s.at = r.at - 1 /\ Spoken(s)
  <2>1. /\ r.said \in Speaker /\ r.outcome \in Speaker /\ c \in Speaker
        /\ Append(r.after, c) \in Seq(Callback) /\ r.at - 1 \in Nat
    BY <1>1 DEF Calls, Speaker
  <2>2. CASE speaks /\ ~throws
    BY <1>1, <2>1, <2>2 DEF RunAfter, ResetAfter, Calls, InAfter, Spoken
  <2>3. CASE throws
    BY <1>1, <2>1, <2>3 DEF RunAfter, ResetAfter, Calls, InAfter, Spoken
  <2>4. CASE ~speaks /\ ~throws
    BY <1>1, <2>1, <2>4 DEF RunAfter, ResetAfter, Calls, InAfter, Spoken
  <2> QED BY <2>2, <2>3, <2>4
<1>3. RanFirst(s, Len(s.before))
  BY <1>2, SMTT(30) DEF InAfter, RanFirst
<1>4. /\ Len(s.after) = Len(s.before) - s.at
      /\ \A i \in 1..Len(s.after) : s.after[i] = s.before[Len(s.before) + 1 - i]
  <2>1. /\ r.after \in Seq(Callback) /\ r.before \in Seq(Callback) /\ r.at \in Nat
        /\ Len(r.after) = Len(r.before) - r.at
        /\ \A i \in 1..Len(r.after) : r.after[i] = r.before[Len(r.before) + 1 - i]
    BY DEF InAfter, Calls
  <2>2. /\ Len(r.before) \in Nat /\ Len(r.after) \in Nat
        /\ Len(s.after) = Len(r.after) + 1 /\ s.after[Len(r.after) + 1] = c
        /\ \A i \in 1..Len(r.after) : s.after[i] = r.after[i]
    <3>1. s.after = Append(r.after, c) /\ c \in Callback
      BY <1>1, <1>2
    <3> HIDE DEF c
    <3> QED BY <2>1, <3>1
  <2>3. Len(s.after) = Len(s.before) - s.at
    BY <1>2, <2>1, <2>2
  <2>4. ASSUME NEW i \in 1..Len(s.after) PROVE s.after[i] = s.before[Len(s.before) + 1 - i]
    <3>1. CASE i = Len(r.after) + 1
      <4>1. Len(s.before) + 1 - i = r.at
        BY <1>2, <2>1, <2>2, <3>1
      <4> QED BY <1>1, <1>2, <2>2, <3>1, <4>1
    <3>2. CASE i # Len(r.after) + 1
      <4>1. i \in 1..Len(r.after)
        BY <2>2, <3>2
      <4> QED BY <1>2, <2>1, <2>2, <4>1
    <3> QED BY <3>1, <3>2
  <2> QED BY <2>3, <2>4
<1>5. CASE IsFirst(r)
  <2>1. s.at = 0 /\ Len(s.after) = Len(s.before)
    BY <1>2, <1>4, <1>5 DEF IsFirst, Calls
  <2> QED BY <1>2, <1>3, <1>4, <1>5, <2>1, AllAfterPaired
<1>6. CASE ~IsFirst(r)
  <2>1. s.at \in 1..Len(s.before)
    BY <1>1, <1>2, <1>6 DEF IsFirst, Calls
  <2> QED BY <1>2, <1>3, <1>4, <1>6, <2>1 DEF InAfter
<1> QED BY <1>5, <1>6

-----------------------------------------------------------------------------
(* The dispatcher's steps                                                  *)

\* A step of one thread that leaves the locals of the others alone.
LEMMA OthersKeep ==
    ASSUME DispatchInv, NEW t \in Thread, call' \in [Thread -> Calls], CallOK(t)',
           \A u \in Thread \ {t} :
              pc'[u] = pc[u] /\ call'[u] = call[u] /\ inv'[u].then = inv[u].then
    PROVE  DispatchInv'
<1>1. ASSUME NEW u \in Thread PROVE CallOK(u)'
  <2>1. CASE u = t
    BY <2>1
  <2>2. CASE u # t
    BY <2>2 DEF DispatchInv, CallOK
  <2> QED BY <2>1, <2>2
<1> QED BY <1>1 DEF DispatchInv

\* Nothing is said of a thread that is in no call.
LEMMA OutsideKeeps ==
    ASSUME IInv, DispatchInv, NEW t \in Thread, UNCHANGED <<call, inv>>,
           NEW next \in {"idle", "native", "file", "unhook"}, pc' = [pc EXCEPT ![t] = next]
    PROVE  DispatchInv'
<1>1. pc'[t] = next /\ \A u \in Thread \ {t} : pc'[u] = pc[u]
  BY DEF IInv, TypeOK
<1>2. CallOK(t)'
  BY <1>1 DEF CallOK, Working
<1>3. call' \in [Thread -> Calls]
  BY DEF DispatchInv
<1> QED BY <1>1, <1>2, <1>3, OthersKeep

\* On the native side the locals of the dispatcher stay as they are.
LEMMA WorkingKeeps ==
    ASSUME IInv, DispatchInv, NEW t \in Thread, UNCHANGED call, pc[t] \in Working,
           NEW next \in Working, pc' = [pc EXCEPT ![t] = next],
           \A u \in Thread : inv'[u].then = inv[u].then
    PROVE  DispatchInv'
<1>1. pc'[t] = next /\ \A u \in Thread \ {t} : pc'[u] = pc[u]
  BY DEF IInv, TypeOK
<1>2. CallOK(t)'
  BY <1>1 DEF DispatchInv, CallOK, Working
<1>3. call' \in [Thread -> Calls]
  BY DEF DispatchInv
<1> QED BY <1>1, <1>2, <1>3, OthersKeep

\* Beginning an invocation for a purpose.
LEMMA BeginInvokeFacts ==
    ASSUME IInv, NEW t \in Thread, NEW then \in {"direct", "call", "replace"},
           BeginInvoke(t, then)
    PROVE  inv'[t].then = then /\ \A u \in Thread \ {t} : inv'[u] = inv[u]
BY DEF IInv, TypeOK, BeginInvoke, Invocations

\* A "before" callback has run, whichever way it did.
LEMMA AfterBeforeStep ==
    ASSUME IInv, DispatchInv, NEW t \in Thread, InBefore(call[t]),
           NEW speaks \in BOOLEAN, NEW throws \in BOOLEAN,
           AfterBefore(t, RunBefore(call[t], call[t].list[call[t].at], speaks, throws))
    PROVE  DispatchInv'
<1> DEFINE s == RunBefore(call[t], call[t].list[call[t].at], speaks, throws)
<1>1. call[t] \in Calls /\ call \in [Thread -> Calls]
  BY DEF DispatchInv
<1>2. /\ Advance(s) \in Calls
      /\ EndOfBefore(s) = "after" => InAfter(Advance(s))
      /\ EndOfBefore(s) = "check" => ForOriginal(Advance(s))
      /\ EndOfBefore(s) = "before" => InBefore(Advance(s))
      /\ EndOfBefore(s) \in {"after", "check", "before"}
  BY <1>1, AfterBeforeKeeps
<1> HIDE DEF s
<1>3. /\ call' = [call EXCEPT ![t] = Advance(s)]
      /\ pc' = [pc EXCEPT ![t] = EndOfBefore(s)]
      /\ BeginInvoke(t, "call")
  BY DEF AfterBefore, Goto, s
<1>4. inv'[t].then = "call" /\ \A u \in Thread \ {t} : inv'[u] = inv[u]
  BY <1>3, BeginInvokeFacts
<1>5. /\ pc'[t] = EndOfBefore(s) /\ call'[t] = Advance(s) /\ call' \in [Thread -> Calls]
      /\ \A u \in Thread \ {t} : pc'[u] = pc[u] /\ call'[u] = call[u]
  BY <1>1, <1>2, <1>3 DEF IInv, TypeOK
<1>6. CallOK(t)'
  BY <1>2, <1>4, <1>5 DEF CallOK, Working
<1> QED BY <1>4, <1>5, <1>6, OthersKeep

\* The locals at the start, with the snapshot.
LEMMA FreshCall ==
    ASSUME NEW list \in Seq(Callback), NEW r, r = [NoCall EXCEPT !.list = list, !.at = 1]
    PROVE  /\ r \in Calls /\ r.list = list /\ r.at = 1 /\ r.before = <<>> /\ Silent(r)
<1>1. NoCall \in Calls
  BY DEF NoCall, Calls, Speaker
<1>2. r \in Calls /\ r.list = list /\ r.at = 1
  BY <1>1 DEF Calls
<1>3. /\ r.before = NoCall.before /\ r.after = NoCall.after /\ r.early = NoCall.early
      /\ r.outcome = NoCall.outcome
  BY <1>1 DEF Calls
<1>4. NoCall.before = <<>> /\ NoCall.after = <<>> /\ ~NoCall.early /\ NoCall.outcome = "none"
  BY DEF NoCall
<1> QED BY <1>2, <1>3, <1>4 DEF Silent

\* The first callback of a call, or its original if there is none.
LEMMA CallStep ==
    ASSUME IInv, DispatchInv, NEW t \in Thread, Call(t)
    PROVE  DispatchInv'
<1> DEFINE r == [NoCall EXCEPT !.list = Snapshot, !.at = 1]
<1>1. /\ r \in Calls /\ r.list = Snapshot /\ r.at = 1 /\ r.before = <<>> /\ Silent(r)
  BY SnapshotType, FreshCall
<1>2. /\ Snapshot = <<>> => WithoutCallbacks(r)
      /\ Snapshot # <<>> => InBefore(r)
  <2>1. Snapshot # <<>> => 1 \in 1..Len(r.list) /\ RanFirst(r, 0)
    BY <1>1, SnapshotType DEF RanFirst
  <2> QED BY <1>1, <2>1 DEF WithoutCallbacks, InBefore
<1> HIDE DEF r
<1>3. /\ call' = [call EXCEPT ![t] = r]
      /\ pc' = [pc EXCEPT ![t] = IF Snapshot = <<>> THEN "check" ELSE "before"]
      /\ BeginInvoke(t, "direct")
  BY DEF Call, AtStep, Goto, r
<1>4. inv'[t].then = "direct" /\ \A u \in Thread \ {t} : inv'[u] = inv[u]
  BY <1>3, BeginInvokeFacts
<1>5. /\ pc'[t] = (IF Snapshot = <<>> THEN "check" ELSE "before") /\ call'[t] = r
      /\ call' \in [Thread -> Calls]
      /\ \A u \in Thread \ {t} : pc'[u] = pc[u] /\ call'[u] = call[u]
  BY <1>1, <1>3 DEF IInv, TypeOK, DispatchInv
<1>6. CallOK(t)'
  BY <1>2, <1>4, <1>5 DEF CallOK, Working
<1> QED BY <1>4, <1>5, <1>6, OthersKeep

\* A "before" callback, and a replacement that finds the slot or does not.
LEMMA BeforeStep ==
    ASSUME IInv, DispatchInv, NEW t \in Thread, Before(t) \/ Replace(t) \/ LookupSlot(t)
    PROVE  DispatchInv'
<1>1. InBefore(call[t])
  BY DEF DispatchInv, CallOK, Before, Replace, LookupSlot, AtStep
<1>2. CASE Before(t)
  <2>1. PICK speaks \in BOOLEAN, throws \in BOOLEAN :
            AfterBefore(t, RunBefore(call[t], call[t].list[call[t].at], speaks, throws))
    BY <1>2 DEF Before
  <2> QED BY <1>1, <2>1, AfterBeforeStep
<1>3. CASE Replace(t)
  <2>1. pc' = [pc EXCEPT ![t] = "lookup"] /\ UNCHANGED <<call, inv>>
    BY <1>3 DEF Replace, AtStep, Goto
  <2>2. pc'[t] = "lookup" /\ \A u \in Thread \ {t} : pc'[u] = pc[u]
    BY <2>1 DEF IInv, TypeOK
  <2>3. CallOK(t)'
    BY <1>1, <2>1, <2>2 DEF CallOK, Working
  <2>4. call' \in [Thread -> Calls]
    BY <2>1 DEF DispatchInv
  <2> QED BY <2>1, <2>2, <2>3, <2>4, OthersKeep
<1>4. CASE LookupSlot(t) /\ slotMap
  <2>1. pc' = [pc EXCEPT ![t] = "check"] /\ BeginInvoke(t, "replace") /\ UNCHANGED call
    BY <1>4 DEF LookupSlot, Goto
  <2>2. pc'[t] = "check" /\ \A u \in Thread \ {t} : pc'[u] = pc[u]
    BY <2>1 DEF IInv, TypeOK
  <2>3. inv'[t].then = "replace" /\ \A u \in Thread \ {t} : inv'[u] = inv[u]
    BY <2>1, BeginInvokeFacts
  <2>4. CallOK(t)'
    BY <1>1, <2>1, <2>2, <2>3 DEF CallOK, Working
  <2>5. call' \in [Thread -> Calls]
    BY <2>1 DEF DispatchInv
  <2> QED BY <2>1, <2>2, <2>3, <2>4, <2>5, OthersKeep
<1>5. CASE LookupSlot(t) /\ ~slotMap
  <2>1. AfterBefore(t, RunBefore(call[t], call[t].list[call[t].at], TRUE, FALSE))
    BY <1>5 DEF LookupSlot
  <2> QED BY <1>1, <2>1, AfterBeforeStep
<1> QED BY <1>2, <1>3, <1>4, <1>5

\* The original has spoken: a call without callbacks is over, another goes on to
\* its "after" callbacks.
LEMMA SpokeKeeps ==
    ASSUME NEW r \in Calls, NEW s,
           s = [r EXCEPT !.outcome = "original", !.said = "original"]
    PROVE  /\ s \in Calls
           /\ WithoutCallbacks(r) => Paired(s)
           /\ ForOriginal(r) => InAfter(s)
<1>1. /\ s \in Calls /\ s.list = r.list /\ s.before = r.before /\ s.after = r.after
      /\ s.at = r.at /\ Spoken(s)
  BY DEF Calls, Speaker, Spoken
<1>2. ASSUME WithoutCallbacks(r) PROVE Paired(s)
  <2>1. s.before = <<>> /\ s.after = <<>> /\ s.list = <<>>
    BY <1>1, <1>2 DEF WithoutCallbacks, Silent
  <2>2. /\ RanFirst(s, Len(s.before)) /\ Len(s.after) = Len(s.before)
        /\ \A i \in 1..Len(s.after) : s.after[i] = s.before[Len(s.before) + 1 - i]
    BY <2>1 DEF RanFirst
  <2> QED BY <1>1, <2>2, AllAfterPaired
<1>3. ASSUME ForOriginal(r) PROVE InAfter(s)
  <2>1. /\ r.at \in Nat /\ r.at # 0 /\ Len(r.before) = r.at /\ r.after = <<>>
        /\ RanFirst(r, r.at)
    BY <1>3 DEF ForOriginal, RanFirst, Silent, Calls
  <2>2. s.at \in 1..Len(s.before) /\ RanFirst(s, Len(s.before)) /\ Len(s.after) = 0
    BY <1>1, <2>1 DEF RanFirst
  <2>3. Len(s.before) - s.at = 0
    BY <1>1, <2>1
  <2> QED BY <1>1, <2>2, <2>3 DEF InAfter
<1> QED BY <1>1, <1>2, <1>3

\* The original method.
LEMMA EnterOriginStep ==
    ASSUME IInv, DispatchInv, NEW t \in Thread, EnterOrigin(t)
    PROVE  DispatchInv'
<1> DEFINE s == [call[t] EXCEPT !.outcome = "original", !.said = "original"]
<1>1. inv[t].then \in {"direct", "call", "replace"} /\ call[t] \in Calls /\ pc[t] = "enter"
  BY DEF IInv, TypeOK, Invocations, DispatchInv, EnterOrigin
<1>2. /\ s \in Calls
      /\ WithoutCallbacks(call[t]) => Paired(s)
      /\ ForOriginal(call[t]) => InAfter(s)
  BY <1>1, SpokeKeeps
<1>3. /\ inv[t].then = "replace" => InBefore(call[t])
      /\ inv[t].then = "call" => ForOriginal(call[t])
      /\ inv[t].then = "direct" => WithoutCallbacks(call[t])
  BY <1>1 DEF DispatchInv, CallOK, Working
<1>4. CASE inv[t].then = "replace"
  <2>1. AfterBefore(t, RunBefore(call[t], call[t].list[call[t].at], TRUE, FALSE))
    BY <1>4 DEF EnterOrigin
  <2> QED BY <1>3, <1>4, <2>1, AfterBeforeStep
<1>5. CASE inv[t].then \in {"direct", "call"}
  <2> DEFINE next == IF inv[t].then = "direct" THEN "done" ELSE "after"
  <2>1. call' = [call EXCEPT ![t] = s] /\ pc' = [pc EXCEPT ![t] = next] /\ UNCHANGED inv
    BY <1>5 DEF EnterOrigin, Goto
  <2> HIDE DEF s
  <2>2. /\ pc'[t] = next /\ call'[t] = s /\ call' \in [Thread -> Calls]
        /\ \A u \in Thread \ {t} : pc'[u] = pc[u] /\ call'[u] = call[u]
    BY <1>2, <2>1 DEF IInv, TypeOK, DispatchInv
  <2>3. CallOK(t)'
    BY <1>2, <1>3, <1>5, <2>2 DEF CallOK, Working
  <2> QED BY <2>1, <2>2, <2>3, OthersKeep
<1> QED BY <1>1, <1>4, <1>5

\* An "after" callback.
LEMMA AfterStep ==
    ASSUME IInv, DispatchInv, NEW t \in Thread, After(t)
    PROVE  DispatchInv'
<1>1. call[t] \in Calls /\ call \in [Thread -> Calls] /\ InAfter(call[t])
  BY DEF DispatchInv, CallOK, After, AtStep
<1>2. PICK speaks \in BOOLEAN, throws \in BOOLEAN :
          call' = [call EXCEPT ![t] =
                     RunAfter(call[t], call[t].list[call[t].at], speaks, throws)]
  BY <1>1 DEF After
<1> DEFINE s == RunAfter(call[t], call[t].list[call[t].at], speaks, throws)
           next == IF IsFirst(call[t]) THEN "done" ELSE "after"
<1>3. /\ s \in Calls
      /\ IsFirst(call[t]) => Paired(s)
      /\ ~IsFirst(call[t]) => InAfter(s)
  BY <1>1, RunAfterKeeps
<1> HIDE DEF s
<1>4. call' = [call EXCEPT ![t] = s] /\ pc' = [pc EXCEPT ![t] = next] /\ UNCHANGED inv
  BY <1>2 DEF After, AtStep, Goto, s
<1>5. /\ pc'[t] = next /\ call'[t] = s /\ call' \in [Thread -> Calls]
      /\ \A u \in Thread \ {t} : pc'[u] = pc[u] /\ call'[u] = call[u]
  BY <1>1, <1>3, <1>4 DEF IInv, TypeOK
<1>6. CallOK(t)'
  BY <1>3, <1>5 DEF CallOK, Working
<1> QED BY <1>4, <1>5, <1>6, OthersKeep

\* handleHookedMethod returns.
LEMMA ReturnStep ==
    ASSUME IInv, DispatchInv, NEW t \in Thread, Return(t)
    PROVE  DispatchInv'
<1>1. NoCall \in Calls
  BY DEF NoCall, Calls, Speaker
<1>2. /\ pc'[t] = "idle" /\ call' \in [Thread -> Calls]
      /\ \A u \in Thread \ {t} : pc'[u] = pc[u] /\ call'[u] = call[u] /\ inv'[u] = inv[u]
  BY <1>1 DEF IInv, TypeOK, DispatchInv, Return, AtStep, Goto
<1>3. CallOK(t)'
  BY <1>2 DEF CallOK, Working
<1> QED BY <1>2, <1>3, OthersKeep

\* Initially nobody is in a call.
LEMMA InitDispatchInv == Init => DispatchInv
<1>1. NoCall \in Calls
  BY DEF NoCall, Calls, Speaker
<1> QED BY <1>1 DEF Init, DispatchInv, CallOK, Working

\* Every step keeps what the locals say.
LEMMA DispatchInductive == IInv /\ DispatchInv /\ [Next]_vars => DispatchInv'
<1> SUFFICES ASSUME IInv, DispatchInv, [Next]_vars PROVE DispatchInv'
  OBVIOUS
<1>1. CASE UNCHANGED vars
  BY <1>1 DEF DispatchInv, CallOK, vars
<1>2. CASE MovingGC
  <2>1. UNCHANGED <<pc, call>> /\ \A t \in Thread : inv'[t].then = inv[t].then
    BY <1>2 DEF MovingGC, IInv, TypeOK, Invocations
  <2> QED BY <2>1 DEF DispatchInv, CallOK
<1>3. ASSUME NEW t \in Thread, NEW c \in Callback, HookMethod(t, c) \/ UnhookCallback(t, c)
      PROVE  DispatchInv'
  <2>1. /\ UNCHANGED <<call, inv>>
        /\ \E next \in {"idle", "native"} : pc' = [pc EXCEPT ![t] = next]
    BY <1>3 DEF HookMethod, UnhookCallback, AtStep, Goto
  <2> QED BY <2>1, OutsideKeeps
<1>4. ASSUME NEW t \in Thread, HookNative(t) \/ FileSlot(t) \/ UnhookSlot(t)
      PROVE  DispatchInv'
  <2>1. /\ UNCHANGED <<call, inv>>
        /\ \E next \in {"file", "idle", "unhook"} : pc' = [pc EXCEPT ![t] = next]
    BY <1>4 DEF HookNative, FileSlot, UnhookSlot, AtStep, Goto
  <2> QED BY <2>1, OutsideKeeps
<1>5. ASSUME NEW t \in Thread, Call(t) \/ Before(t) \/ Replace(t) \/ LookupSlot(t)
      PROVE  DispatchInv'
  BY <1>5, CallStep, BeforeStep
<1>6. ASSUME NEW t \in Thread, After(t) \/ Return(t) \/ EnterOrigin(t)
      PROVE  DispatchInv'
  BY <1>6, AfterStep, ReturnStep, EnterOriginStep
<1>7. ASSUME NEW t \in Thread,
             CheckClass(t) \/ Lock(t) \/ FixOrigin(t) \/ Unlock(t) \/ UseOrigin(t)
      PROVE  DispatchInv'
  <2>1. UNCHANGED call /\ pc[t] \in Working /\ \E next \in Working : pc' = [pc EXCEPT ![t] = next]
    BY <1>7 DEF CheckClass, Lock, FixOrigin, Unlock, UseOrigin, AtStep, Goto, Working
  <2>2. \A u \in Thread : inv'[u].then = inv[u].then
    <3>1. CASE CheckClass(t)
      BY <3>1 DEF CheckClass, IInv, TypeOK, Invocations
    <3>2. CASE UseOrigin(t)
      BY <3>2 DEF UseOrigin, IInv, TypeOK, Invocations
    <3>3. CASE Lock(t) \/ FixOrigin(t) \/ Unlock(t)
      BY <3>3 DEF Lock, FixOrigin, Unlock
    <3> QED BY <1>7, <3>1, <3>2, <3>3
  <2> QED BY <2>1, <2>2, WorkingKeeps
<1> QED BY <1>1, <1>2, <1>3, <1>4, <1>5, <1>6, <1>7 DEF Next

-----------------------------------------------------------------------------
(* The theorems about the dispatcher                                       *)

\* What the locals say holds in every state.
THEOREM DispatchInvariance == Spec => [](IInv /\ DispatchInv)
<1>1. Init => IInv /\ DispatchInv
  BY InitIInv, InitDispatchInv
<1>2. IInv /\ DispatchInv /\ [Next]_vars => (IInv /\ DispatchInv)'
  BY Inductive, DispatchInductive
<1> QED BY <1>1, <1>2, PTL DEF Spec

\* A call that ends has run the "after" parts of the callbacks whose "before"
\* parts it ran, in reverse order, and no index leaves the snapshot, whatever
\* the callbacks do and other threads hook (XposedBridge.java:223-271).
THEOREM CallsArePairedAlways == Spec => []CallsArePaired
<1>1. ASSUME DispatchInv PROVE CallsArePaired
  <2> SUFFICES ASSUME NEW t \in Thread
               PROVE  /\ call[t] \in Calls
                      /\ pc[t] \in {"before", "lookup", "after"} => call[t].at \in DOMAIN call[t].list
                      /\ pc[t] = "done" => /\ call[t].after = Reverse(call[t].before)
                                          /\ IsPrefix(call[t].before, call[t].list)
    BY DEF CallsArePaired
  <2>1. call[t] \in Calls /\ CallOK(t) /\ call[t].list \in Seq(Callback)
    BY <1>1 DEF DispatchInv, Calls
  <2>2. ASSUME pc[t] \in {"before", "lookup"} PROVE call[t].at \in 1..Len(call[t].list)
    BY <2>1, <2>2 DEF CallOK, InBefore
  <2>3. ASSUME pc[t] = "after" PROVE call[t].at \in 1..Len(call[t].list)
    <3>1. call[t].before \in Seq(Callback)
      BY <2>1 DEF Calls
    <3> QED BY <2>1, <2>3, <3>1 DEF CallOK, InAfter, RanFirst
  <2>4. pc[t] = "done" => Paired(call[t])
    BY <2>1 DEF CallOK
  <2> QED BY <2>1, <2>2, <2>3, <2>4 DEF Paired
<1> QED BY <1>1, DispatchInvariance, PTL

\* What the caller gets is what the last participant said that did not throw,
\* and somebody did (XposedBridge.java:228-252, 262-270).
THEOREM OutcomeIsLastSaidAlways == Spec => []OutcomeIsLastSaid
<1>1. DispatchInv => OutcomeIsLastSaid
  BY DEF DispatchInv, CallOK, Paired, Spoken, OutcomeIsLastSaid
<1> QED BY <1>1, DispatchInvariance, PTL
==============================================================================
