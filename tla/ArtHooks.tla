------------------------------ MODULE ArtHooks ------------------------------
(***************************************************************************)
(* The hook of one Java method: XposedBridge registers and dispatches the  *)
(* callbacks, ArtRuntime replaces the method and keeps a clone of it to    *)
(* call the original.  Threads hook, unhook and call the method; a moving  *)
(* collector moves the class of the method, and the clone, which is not a  *)
(* root of the collector, keeps the old address.                           *)
(*                                                                         *)
(* Steps that run under ScopedSuspendAll are one action each.  Whether a   *)
(* participant speaks with setResult or with setThrowable makes no         *)
(* difference to the control; what it says is recorded as its own name.    *)
(***************************************************************************)
EXTENDS Naturals, Sequences, SequencesExt

CONSTANTS
    Thread,     \* the threads of the app
    Order,      \* all the callbacks, in the order of their priority
    Addr,       \* the addresses the collector gives to the class
    MaxMoves,   \* a bound on the moves of the class
    Null

Callback == {Order[i] : i \in DOMAIN Order}

ASSUME ArtHooksAssumption ==
    /\ Order \in Seq(Callback)
    /\ \A i, j \in DOMAIN Order : Order[i] = Order[j] => i = j
    /\ MaxMoves \in Nat
    /\ Addr # {}
    /\ Null \notin Thread /\ \A cs \in SUBSET Callback : cs # Null
    /\ {"none", "original"} \cap Callback = {}

VARIABLES
    callbacks,  \* sHookedMethodCallbacks: the set of the method, Null if none
    slotMap,    \* sHookedMethodSlotMap holds the slot of the method
    hooked,     \* the method has its new entry points
    decl,       \* the class, as the hooked method names it
    declSeen,   \* param->decl_class_
    origin,     \* param->origin_method_: all earlier references are deleted
    clone,      \* the clone behind it: its class, and what its code is
    mutex,      \* the holder of the mutex of art_runtime.cc
    pc,         \* the next step of each thread
    call,       \* its locals in handleHookedMethod
    inv,        \* its locals in InvokeOriginalMethod
    moves,      \* how often the class has moved
    misfiled    \* history: a class that had moved on was put in decl_class_

java == <<callbacks, slotMap>>
param == <<declSeen, origin, clone, misfiled>>
gc == <<decl, moves>>
vars == <<java, hooked, param, gc, mutex, pc, call, inv>>

-----------------------------------------------------------------------------
Speaker == Callback \union {"none", "original"}

\* list, at, early and outcome are callbacksSnapshot, beforeIdx or afterIdx,
\* param.returnEarly and the result in param.  before, after and said are
\* histories: the callbacks run, and who spoke last without throwing.
Calls == [list : Seq(Callback), at : Nat, early : BOOLEAN, outcome : Speaker,
          before : Seq(Callback), after : Seq(Callback), said : Speaker]

\* decl and ref are the local decl_class and the argument origin_method_;
\* then says where the caller goes on; moved is a history: the class has
\* moved since decl was read.
Invocations == [decl : Addr, ref : Nat, then : {"direct", "call", "replace"},
                moved : BOOLEAN]

Steps == {"idle", "native", "file", "unhook", "before", "lookup", "check",
          "lock", "fix", "unlock", "use", "enter", "after", "done"}

NoCall == [list |-> <<>>, at |-> 0, early |-> FALSE, outcome |-> "none",
           before |-> <<>>, after |-> <<>>, said |-> "none"]
NoInv == [decl |-> CHOOSE a \in Addr : TRUE, ref |-> 0, then |-> "direct",
          moved |-> FALSE]

Goto(t, step) == pc' = [pc EXCEPT ![t] = step]
AtStep(t, step, next) == pc[t] = step /\ Goto(t, next)

\* The class and the code of a clone that Clone copies from the method now.
\* The hooked method has the trampoline as its code.
Clone == [decl |-> decl, code |-> IF hooked THEN "trampoline" ELSE "code"]

Init ==
    /\ callbacks = Null /\ slotMap = FALSE /\ hooked = FALSE
    /\ decl \in Addr /\ declSeen = decl /\ moves = 0 /\ misfiled = FALSE
    /\ origin = 0 /\ clone = [decl |-> decl, code |-> "code"]
    /\ mutex = Null
    /\ pc = [t \in Thread |-> "idle"]
    /\ call = [t \in Thread |-> NoCall]
    /\ inv = [t \in Thread |-> NoInv]

-----------------------------------------------------------------------------
(* XposedBridge: hooking and unhooking                                     *)

\* Faulty variant of IsNew: the set is asked whether it is empty.
IsNew_Empty == callbacks \in {Null, {}}

\* The set of the method is made by this thread.
IsNew == callbacks = Null

\* hookMethod up to callbacks.add.  Only the thread that made the set goes on
\* to the native hook; any other returns at once.
HookMethod(t, c) ==
    /\ AtStep(t, "idle", IF IsNew THEN "native" ELSE "idle")
    /\ callbacks' = (IF callbacks = Null THEN {} ELSE callbacks) \union {c}
    /\ UNCHANGED <<slotMap, hooked, param, gc, mutex, call, inv>>

\* hookMethodNative: ArtRuntime::HookMethod with all other threads suspended.
HookNative(t) ==
    /\ AtStep(t, "native", "file")
    /\ hooked' = TRUE
    /\ origin' = origin + 1
    /\ clone' = Clone
    /\ declSeen' = decl
    /\ UNCHANGED <<java, misfiled, gc, mutex, call, inv>>

\* hookMethod: the slot is filed.
FileSlot(t) ==
    /\ AtStep(t, "file", "idle")
    /\ slotMap' = TRUE
    /\ UNCHANGED <<callbacks, hooked, param, gc, mutex, call, inv>>

\* unhookMethod in its two synchronized parts: the slot goes even if other
\* callbacks stay, and the native hook is never taken back.
UnhookSlot(t) ==
    /\ AtStep(t, "idle", "unhook")
    /\ slotMap' = FALSE
    /\ UNCHANGED <<callbacks, hooked, param, gc, mutex, call, inv>>

UnhookCallback(t, c) ==
    /\ AtStep(t, "unhook", "idle")
    /\ callbacks' = (IF callbacks = Null THEN Null ELSE callbacks \ {c})
    /\ UNCHANGED <<slotMap, hooked, param, gc, mutex, call, inv>>

-----------------------------------------------------------------------------
(* XposedBridge.handleHookedMethod                                         *)

\* The elements of the set among the first n by priority, and all of them.
Sorted[n \in 0..Len(Order)] ==
    IF n = 0 THEN <<>>
    ELSE IF Order[n] \in callbacks THEN Append(Sorted[n - 1], Order[n]) ELSE Sorted[n - 1]
Snapshot == Sorted[Len(Order)]

\* Beginning an invocation of the original by thread t.
BeginInvoke(t, then) == inv' = [inv EXCEPT ![t] = [@ EXCEPT !.then = then]]

\* The trampoline of the hooked method calls handleHookedMethod, which takes
\* its snapshot.  Without callbacks it calls the original and returns.
Call(t) ==
    /\ hooked
    /\ AtStep(t, "idle", IF Snapshot = <<>> THEN "check" ELSE "before")
    /\ call' = [call EXCEPT ![t] = [NoCall EXCEPT !.list = Snapshot, !.at = 1]]
    /\ BeginInvoke(t, "direct")
    /\ UNCHANGED <<java, hooked, param, gc, mutex>>

\* Faulty variant of ResetBefore: the result is reset, the mark is not.
ResetBefore_KeepsEarly(r) == [r EXCEPT !.outcome = "none"]

\* A "before" callback has thrown: param.setResult(null), returnEarly = false,
\* continue.
ResetBefore(r) == [r EXCEPT !.outcome = "none", !.early = FALSE]

\* Locals after callback c ran with the given conduct: it may speak, and throw.
RunBefore(r, c, speaks, throws) ==
    LET ran == [r EXCEPT !.before = Append(@, c)]
        spoke == IF speaks THEN [ran EXCEPT !.outcome = c, !.early = TRUE] ELSE ran
    IN  IF throws THEN ResetBefore(spoke)
        ELSE IF speaks THEN [spoke EXCEPT !.said = c] ELSE spoke

\* Where a call goes on after a "before" callback: an early return skips the
\* others and the original.
EndOfBefore(r) ==
    IF r.early THEN "after" ELSE IF r.at = Len(r.list) THEN "check" ELSE "before"

\* Faulty variant: an early return does not count the callback that asked for it.
Advance_Short(r) ==
    IF EndOfBefore(r) = "before" THEN [r EXCEPT !.at = @ + 1]
    ELSE IF r.early /\ r.at > 1 THEN [r EXCEPT !.at = @ - 1] ELSE r

\* Index of the first "after" callback, or of the next "before" callback.
Advance(r) ==
    IF EndOfBefore(r) = "before" THEN [r EXCEPT !.at = @ + 1] ELSE r

AfterBefore(t, r) ==
    /\ call' = [call EXCEPT ![t] = Advance(r)]
    /\ Goto(t, EndOfBefore(r))
    /\ BeginInvoke(t, "call")

\* One "before" callback.
Before(t) ==
    /\ pc[t] = "before"
    /\ \E speaks, throws \in BOOLEAN :
          AfterBefore(t, RunBefore(call[t], call[t].list[call[t].at], speaks, throws))
    /\ UNCHANGED <<java, hooked, param, gc, mutex>>

\* A "before" callback that is an XC_MethodReplacement and calls
\* invokeOriginalMethod(method, ...), as in the parse module: it looks the slot
\* up ...
Replace(t) ==
    /\ AtStep(t, "before", "lookup")
    /\ UNCHANGED <<java, hooked, param, gc, mutex, call, inv>>

\* ... and if it is not there, unboxing null throws, and that is the throwable
\* of the call.
LookupSlot(t) ==
    /\ pc[t] = "lookup"
    /\ IF slotMap
       THEN /\ Goto(t, "check")
            /\ BeginInvoke(t, "replace")
            /\ UNCHANGED call
       ELSE AfterBefore(t, RunBefore(call[t], call[t].list[call[t].at], TRUE, FALSE))
    /\ UNCHANGED <<java, hooked, param, gc, mutex>>

\* An "after" callback has thrown: the last result is put back.
ResetAfter(r, last) == [r EXCEPT !.outcome = last]

\* Locals after callback c, the last one having left outcome last.
RunAfter(r, c, speaks, throws) ==
    LET ran == [r EXCEPT !.after = Append(@, c), !.at = @ - 1]
        spoke == IF speaks THEN [ran EXCEPT !.outcome = c] ELSE ran
    IN  IF throws THEN ResetAfter(spoke, r.outcome)
        ELSE IF speaks THEN [spoke EXCEPT !.said = c] ELSE spoke

\* The loop of the "after" callbacks ends with the first one.
IsFirst(r) == r.at = 1

\* One "after" callback, in reverse order.
After(t) ==
    /\ AtStep(t, "after", IF IsFirst(call[t]) THEN "done" ELSE "after")
    /\ \E speaks, throws \in BOOLEAN :
          call' = [call EXCEPT ![t] =
                     RunAfter(@, @.list[@.at], speaks, throws)]
    /\ UNCHANGED <<java, hooked, param, gc, mutex, inv>>

\* handleHookedMethod returns.
Return(t) ==
    /\ AtStep(t, "done", "idle")
    /\ call' = [call EXCEPT ![t] = NoCall]
    /\ inv' = [inv EXCEPT ![t] = NoInv]
    /\ UNCHANGED <<java, hooked, param, gc, mutex>>

-----------------------------------------------------------------------------
(* ArtRuntime::InvokeOriginalMethod                                        *)

\* decl_class is read and compared without the mutex.
CheckClass(t) ==
    /\ AtStep(t, "check", IF declSeen # decl THEN "lock" ELSE "use")
    /\ inv' = [inv EXCEPT ![t] = [@ EXCEPT !.decl = decl, !.moved = FALSE]]
    /\ UNCHANGED <<java, hooked, param, gc, mutex, call>>

Lock(t) ==
    /\ AtStep(t, "lock", "fix")
    /\ mutex = Null
    /\ mutex' = t
    /\ UNCHANGED <<java, hooked, param, gc, call, inv>>

\* Faulty variant: no second look.
MustFix_Always(t) == TRUE

\* The second look, under the mutex.
MustFix(t) == declSeen # inv[t].decl

\* The new clone gets back the entry points that HookMethod kept.
RestoredClone == [Clone EXCEPT !.code = "code"]

\* With all threads suspended, a new clone replaces the old one, whose reference
\* is deleted, and decl_class_ becomes what was read before the mutex was taken.
FixOrigin(t) ==
    /\ AtStep(t, "fix", "unlock")
    /\ IF MustFix(t)
       THEN /\ clone' = RestoredClone
            /\ origin' = origin + 1
            /\ declSeen' = inv[t].decl
            /\ misfiled' = (misfiled \/ inv[t].decl # decl)
       ELSE UNCHANGED param
    /\ UNCHANGED <<java, hooked, gc, mutex, call, inv>>

Unlock(t) ==
    /\ AtStep(t, "unlock", "use")
    /\ mutex' = Null
    /\ UNCHANGED <<java, hooked, param, gc, call, inv>>

\* param->origin_method_ is read, without the mutex, as an argument.
UseOrigin(t) ==
    /\ AtStep(t, "use", "enter")
    /\ inv' = [inv EXCEPT ![t] = [@ EXCEPT !.ref = origin]]
    /\ UNCHANGED <<java, hooked, param, gc, mutex, call>>

\* The reference is resolved and the clone runs; the stack keeps its class from
\* now on.  The call goes on where it came from.
EnterOrigin(t) ==
    LET r == call[t]
        spoke == [r EXCEPT !.outcome = "original", !.said = "original"]
    IN  /\ pc[t] = "enter"
        /\ CASE inv[t].then = "direct" ->
                  /\ call' = [call EXCEPT ![t] = spoke]
                  /\ Goto(t, "done")
                  /\ UNCHANGED inv
             [] inv[t].then = "call" ->
                  /\ call' = [call EXCEPT ![t] = spoke]
                  /\ Goto(t, "after")
                  /\ UNCHANGED inv
             [] inv[t].then = "replace" ->
                  AfterBefore(t, RunBefore(r, r.list[r.at], TRUE, FALSE))
        /\ UNCHANGED <<java, hooked, param, gc, mutex>>

-----------------------------------------------------------------------------
\* The collector moves the class and updates the hooked method, which the class
\* lists among its methods.
MovingGC ==
    /\ moves < MaxMoves
    /\ moves' = moves + 1
    /\ decl' \in Addr \ {decl}
    /\ inv' = [t \in Thread |-> [inv[t] EXCEPT !.moved = TRUE]]
    /\ UNCHANGED <<java, hooked, param, mutex, pc, call>>

Next ==
    \/ MovingGC
    \/ \E t \in Thread :
          \/ \E c \in Callback : HookMethod(t, c) \/ UnhookCallback(t, c)
          \/ HookNative(t) \/ FileSlot(t) \/ UnhookSlot(t)
          \/ Call(t) \/ Before(t) \/ Replace(t) \/ LookupSlot(t)
          \/ After(t) \/ Return(t)
          \/ CheckClass(t) \/ Lock(t) \/ FixOrigin(t) \/ Unlock(t)
          \/ UseOrigin(t) \/ EnterOrigin(t)

Spec == Init /\ [][Next]_vars

-----------------------------------------------------------------------------
(* Properties                                                              *)

\* The types of the variables, but for the locals of the dispatcher.
TypeOK ==
    /\ callbacks \in (SUBSET Callback) \union {Null}
    /\ slotMap \in BOOLEAN /\ hooked \in BOOLEAN /\ misfiled \in BOOLEAN
    /\ decl \in Addr /\ declSeen \in Addr
    /\ origin \in Nat /\ moves \in 0 .. MaxMoves
    /\ clone \in [decl : Addr, code : {"code", "trampoline"}]
    /\ mutex \in Thread \union {Null}
    /\ pc \in [Thread -> Steps]
    /\ inv \in [Thread -> Invocations]

\* A call that ends has run the "after" part of exactly those callbacks whose
\* "before" part it ran, in reverse order, whatever other threads hook and
\* unhook meanwhile and whichever callbacks throw or return early; and on the
\* way no index leaves the snapshot (handleHookedMethod,
\* XposedBridge.java:223-271).
CallsArePaired ==
    \A t \in Thread :
        /\ call[t] \in Calls
        /\ pc[t] \in {"before", "lookup", "after"} => call[t].at \in DOMAIN call[t].list
        /\ pc[t] = "done" => /\ call[t].after = Reverse(call[t].before)
                            /\ IsPrefix(call[t].before, call[t].list)

\* What the caller gets is what the last participant said that did not throw,
\* and somebody did say something: a callback that throws leaves no trace, and
\* the original is skipped only for a callback that stands by its own result
\* (XposedBridge.java:228-252, 262-270).
OutcomeIsLastSaid ==
    \A t \in Thread : pc[t] = "done" =>
        /\ call[t].outcome = call[t].said
        /\ call[t].said # "none"

\* The kept clone runs the code of the method as it was, never the trampoline,
\* which would call itself without end: the method is hooked natively once, and
\* each new clone gets its entry points back (ArtRuntime::InvokeOriginalMethod).
OriginalIsOriginal == clone.code = "code"

\* The origin method that a thread is about to enter is not deleted and names
\* the class where it is, unless the class moved after the thread compared
\* decl_class_, or decl_class_ has once been set to an address read before the
\* class moved on (art_runtime.cc:272-294: the comparison and the use are
\* outside the mutex, and the second look trusts the first reading).
OriginIsCurrent ==
    \A t \in Thread : pc[t] = "enter" /\ ~inv[t].moved /\ ~misfiled =>
        /\ inv[t].ref = origin
        /\ clone.decl = decl

\* A callback that asks for the original method by name finds it: "calls the
\* original method as it was before the interception by Xposed"
\* (XposedBridge.java:282-283).
OriginalByMember == \A t \in Thread : pc[t] = "lookup" => slotMap

=============================================================================
