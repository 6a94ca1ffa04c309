-------------------------- MODULE AppClient_proofs --------------------------
(* Proofs about AppClient, for any processes, applications, requests and    *)
(* messages.                                                               *)
EXTENDS AppClient, SequenceTheorems, TLAPS

-----------------------------------------------------------------------------
(* The inductive invariant                                                 *)

Binding  == {"data", "make", "open", "clear"}
By(p, i, r) == i \in 1 .. Len(queue[p]) /\ queue[p][i].what = "bind" /\ queue[p][i].by = r
Posted(p, r) == \E i \in Nat : By(p, i, r)
\* Nobody but the server has given the process an application.
Sole(p) == p \notin restored \cap started

\* A process that does not run knows nothing.
DeadKnowNothing ==
    \A p \in Proc \ alive :
        /\ initing[p] = Null /\ token[p] = Null /\ vuid[p] = Null /\ device[p] = Null
        /\ ~Bound(p) /\ p \notin installed /\ mTempLock[p] = Null
        /\ queue[p] = <<>> /\ main[p] = "idle" /\ lock[p] = Null

\* The two assignments of initProcess.
IdentInv ==
    \A p \in Proc :
        /\ token[p] = Null => vuid[p] = Null
        /\ token[p] # Null /\ initing[p] # Null => initing[p] = token[p] /\ vuid[p] = Null
        /\ token[p] # Null /\ initing[p] = Null => vuid[p] = token[p]
        /\ Sole(p) /\ p \in restored /\ initing[p] # Null => main[p] = "report"

\* What the messages name is what the process is, or will be.
MessageInv ==
    \A p \in Proc : \A i \in 1 .. Len(queue[p]) :
        /\ queue[p][i].what # "launch" =>
              token[p] # Null /\ initing[p] = Null /\ queue[p][i].app = token[p]
        /\ queue[p][i].what = "launch" /\ Sole(p) =>
              /\ p \notin restored => token[p] # Null /\ initing[p] = Null
              /\ token[p] # Null => queue[p][i].app = token[p]
              /\ initing[p] # Null => queue[p][i].app = initing[p]
              /\ p \in restored /\ token[p] = Null => queue[p][i].app = Kept[p]

\* The step of the main thread, the lock and the message it is for.
MainInv ==
    \A p \in Proc :
        /\ main[p] = "report" => queue[p] # <<>> /\ Head(queue[p]).what = "launch"
        /\ main[p] \in Binding =>
              /\ queue[p] # <<>>
              /\ lock[p] = IF Head(queue[p]).what = "bind" THEN Head(queue[p]).by ELSE p
              /\ mTempLock[p] = lock[p]
              /\ Sole(p) => /\ token[p] # Null /\ initing[p] = Null
                            /\ device[p] = vuid[p]
        /\ main[p] \notin Binding => mTempLock[p] = Null /\ lock[p] = Null
        /\ main[p] \in {"make", "open", "clear"} => Bound(p)
        /\ main[p] \in {"open", "clear"} => p \in installed
        /\ main[p] = "clear" => lock[p] \in opened
        /\ Bound(p) /\ main[p] \notin {"data", "make"} => p \in installed
        /\ Bound(p) /\ Sole(p) => token[p] # Null /\ initing[p] = Null
        /\ device[p] # Null => Bound(p) \/ main[p] = "data"

\* A lock is open only when the providers of its process are installed.
LockInv ==
    /\ \A p \in Proc : p \in opened => p \in started \union restored
    /\ \A p \in Proc : p \in alive /\ p \in opened => p \in installed
    /\ \A p \in Proc, r \in Request : Posted(p, r) =>
          /\ r \in opened => p \in installed
          /\ req[r].step \in {"posted", "acquire", "ended"}
          /\ \A q \in Proc : Posted(q, r) => q = p
    /\ \A r \in Request : r \in opened => req[r].step \in {"posted", "acquire", "ended"}

\* What a request that goes on has seen.
RequestOK(r) ==
    LET p == req[r].proc IN
    /\ Pending(r) => p \in Proc /\ Attached(p)
    /\ req[r].step = "wait" =>
          /\ req[r].on \in opened => p \in installed
          /\ \/ req[r].on \in opened
             \/ main[p] \in {"data", "make", "open"} /\ lock[p] = req[r].on
    /\ req[r].step = "posted" =>
          /\ r \in opened => p \in installed
          /\ r \in opened \/ Posted(p, r)
    /\ req[r].step \in {"bound", "acquire"} => p \in installed \/ req[r].slipped

RequestInv == \A r \in Request : RequestOK(r)

IInv ==
    /\ TypeOK
    /\ DeadKnowNothing
    /\ IdentInv
    /\ MessageInv
    /\ BoundAsAttached
    /\ MainInv
    /\ LockInv
    /\ RequestInv
-----------------------------------------------------------------------------
(* Steps of a request                                                      *)

Onward == {"posted", "acquire", "ended"}

\* A request that has ended is one.
LEMMA EndedCall == Ended \in Calling /\ Ended.step = "ended"
BY DEF Ended, Call, Calling

\* A step that changes one request only.
LEMMA RequestStep ==
  ASSUME IInv, NEW r \in Request, NEW c \in Calling,
         UNCHANGED <<birth, ident, bind, threads>>, req' = [req EXCEPT ![r] = c],
         req[r].step \in Onward => c.step \in Onward,
         RequestOK(r)'
  PROVE  IInv'
<1> USE DEF IInv, birth, ident, bind, threads
<1>1. req \in [Request -> Calling] /\ req' \in [Request -> Calling]
  BY DEF TypeOK
<1>2. TypeOK' /\ DeadKnowNothing' /\ IdentInv' /\ MessageInv'
  BY <1>1 DEF TypeOK, DeadKnowNothing, Bound, IdentInv, Sole, MessageInv
<1>3. BoundAsAttached' /\ MainInv'
  BY DEF BoundAsAttached, Bound, MainInv, Binding, Sole
<1>4. \A p \in Proc, q \in Request : Posted(p, q)' = Posted(p, q)
  BY DEF Posted, By
<1>5. LockInv'
  BY <1>1, <1>4 DEF LockInv, Onward
<1>6. ASSUME NEW q \in Request, q # r PROVE RequestOK(q)'
  <2>1. req'[q] = req[q] /\ RequestOK(q)
    BY <1>1, <1>6 DEF RequestInv
  <2> QED BY <1>4, <2>1 DEF RequestOK, Pending, Attached
<1>7. RequestInv'
  BY <1>6 DEF RequestInv
<1> QED BY <1>2, <1>3, <1>5, <1>7

\* The server passes a request on.
LEMMA AskStep ==
  ASSUME IInv, NEW r \in Request, NEW p \in Proc, NEW from \in Proc \union {Null},
         Ask(r, p, from)
  PROVE  IInv'
<1> DEFINE c == Call("look", p, from)
<1>1. c.step = "look" /\ c.proc = p
  BY DEF Call
<1>2. c \in Calling
  BY DEF Call, Calling
<1>3. req' = [req EXCEPT ![r] = c] /\ UNCHANGED <<birth, ident, bind, threads>>
      /\ req[r].step = "free" /\ Attached(p)
  BY DEF Ask
<1>4. req'[r] = c
  BY <1>3 DEF IInv, TypeOK
<1>5. RequestOK(r)'
  BY <1>1, <1>3, <1>4 DEF RequestOK, Pending, Attached, birth, ident
<1> QED
  <2> HIDE DEF c
  <2> QED BY <1>2, <1>3, <1>5, RequestStep DEF Onward

\* What is known of the process of a request.
LEMMA Unlocked ==
  ASSUME IInv, NEW r \in Request, Pending(r)
  PROVE  LET p == req[r].proc IN
         /\ p \in Proc /\ Attached(p)
         /\ mTempLock[p] = Null /\ Bound(p) => p \in installed
         /\ mTempLock[p] # Null => /\ mTempLock[p] = lock[p] /\ main[p] \in Binding
                                   /\ main[p] = "clear" => lock[p] \in opened
                                   /\ lock[p] \in opened => p \in installed
<1> DEFINE p == req[r].proc
<1>1. p \in Proc /\ Attached(p) /\ p \in alive
  BY DEF IInv, RequestInv, RequestOK, Attached
<1>2. mTempLock[p] = Null /\ Bound(p) => p \in installed
  <2> SUFFICES ASSUME mTempLock[p] = Null, Bound(p) PROVE p \in installed
    OBVIOUS
  <2>1. main[p] \in Binding => lock[p] = mTempLock[p] /\ queue[p] # <<>>
              /\ lock[p] = IF Head(queue[p]).what = "bind" THEN Head(queue[p]).by ELSE p
    BY <1>1 DEF IInv, MainInv
  <2>2. main[p] \notin Binding
    <3> SUFFICES ASSUME main[p] \in Binding PROVE FALSE
      OBVIOUS
    <3>1. Head(queue[p]) \in Message
      BY <1>1, <2>1 DEF IInv, TypeOK
    <3>2. Head(queue[p]).what = "bind" => Head(queue[p]).by \in Request
      BY <3>1 DEF Message
    <3> QED BY <1>1, <2>1, <3>2, AppClientAssumption DEF AppClientAssumption
  <2> QED BY <1>1, <2>2 DEF IInv, MainInv, Binding
<1>3. mTempLock[p] # Null => /\ mTempLock[p] = lock[p] /\ main[p] \in Binding
                             /\ main[p] = "clear" => lock[p] \in opened
  BY <1>1 DEF IInv, MainInv
<1>4. main[p] \in Binding /\ lock[p] \in opened => p \in installed
  <2> SUFFICES ASSUME main[p] \in Binding, lock[p] \in opened PROVE p \in installed
    OBVIOUS
  <2>1. queue[p] # <<>> /\ lock[p] = IF Head(queue[p]).what = "bind" THEN Head(queue[p]).by ELSE p
    BY <1>1 DEF IInv, MainInv
  <2>2. CASE Head(queue[p]).what # "bind"
    BY <1>1, <2>1, <2>2 DEF IInv, LockInv
  <2>3. CASE Head(queue[p]).what = "bind"
    <3>1. Head(queue[p]) \in Message /\ Head(queue[p]) = queue[p][1] /\ 1 \in 1 .. Len(queue[p])
      BY <1>1, <2>1 DEF IInv, TypeOK
    <3>2. Head(queue[p]).by \in Request
      BY <2>3, <3>1 DEF Message
    <3>3. Posted(p, Head(queue[p]).by)
      BY <2>3, <3>1 DEF Posted, By
    <3> QED BY <1>1, <2>1, <2>3, <3>2, <3>3 DEF IInv, LockInv
  <2> QED BY <2>2, <2>3
<1> QED BY <1>1, <1>2, <1>3, <1>4

\* mTempLock is looked at.
LEMMA LookAtLockStep ==
  ASSUME IInv, NEW r \in Request, LookAtLock(r)
  PROVE  IInv'
<1> DEFINE p == req[r].proc
           c == [req[r] EXCEPT !.step = IF mTempLock[p] = Null THEN "bound" ELSE "block",
                               !.slipped = mTempLock[p] = Null /\ ~Bound(p)]
<1>1. req[r] \in Calling /\ req[r].step = "look" /\ Pending(r)
  BY DEF IInv, TypeOK, LookAtLock, Pending
<1>2. /\ c \in Calling /\ c.proc = p /\ c.step = IF mTempLock[p] = Null THEN "bound" ELSE "block"
      /\ c.slipped = (mTempLock[p] = Null /\ ~Bound(p))
  BY <1>1 DEF Calling
<1>3. req' = [req EXCEPT ![r] = c] /\ UNCHANGED <<birth, ident, bind, threads>> /\ req'[r] = c
  BY DEF LookAtLock, IInv, TypeOK
<1>4. RequestOK(r)'
  <2> HIDE DEF c
  <2>1. p \in Proc /\ Attached(p) /\ (mTempLock[p] = Null /\ Bound(p) => p \in installed)
    BY <1>1, Unlocked
  <2>2. req'[r].step \in {"bound", "block"} /\ req'[r].proc = p
    BY <1>2, <1>3
  <2>3. req'[r].step = "bound" => p \in installed \/ req'[r].slipped
    BY <1>2, <1>3, <2>1
  <2> QED BY <1>3, <2>1, <2>2, <2>3 DEF RequestOK, Pending, Attached, birth, ident, bind
<1> QED
  <2> HIDE DEF c
  <2> QED BY <1>1, <1>2, <1>3, <1>4, RequestStep DEF Onward

\* ... and blocked on.
LEMMA BlockStep ==
  ASSUME IInv, NEW r \in Request, Block(r)
  PROVE  IInv'
<1> DEFINE p == req[r].proc
           c == IF mTempLock[p] = Null THEN Ended
                ELSE [req[r] EXCEPT !.step = "wait", !.on = mTempLock[p]]
<1>1. req[r] \in Calling /\ req[r].step = "block" /\ Pending(r)
  BY DEF IInv, TypeOK, Block, Pending
<1>2. p \in Proc /\ Attached(p) /\ mTempLock[p] \in Lock \union {Null}
  BY <1>1, Unlocked DEF IInv, TypeOK
<1>3. req' = [req EXCEPT ![r] = c] /\ UNCHANGED <<birth, ident, bind, threads>> /\ req'[r] = c
  BY DEF Block, IInv, TypeOK
<1>4. CASE mTempLock[p] = Null
  <2>1. c = Ended
    BY <1>4
  <2>2. c \in Calling /\ c.step = "ended"
    BY <2>1, EndedCall
  <2> HIDE DEF c
  <2>3. RequestOK(r)'
    BY <1>3, <2>2 DEF RequestOK, Pending
  <2> QED BY <1>1, <1>3, <2>2, <2>3, RequestStep DEF Onward
<1>5. CASE mTempLock[p] # Null
  <2>1. c \in Calling /\ c.step = "wait" /\ c.on = mTempLock[p] /\ c.proc = p
    BY <1>1, <1>2, <1>5 DEF Calling
  <2>2. /\ mTempLock[p] = lock[p] /\ main[p] \in Binding
        /\ main[p] = "clear" => lock[p] \in opened
        /\ lock[p] \in opened => p \in installed
    BY <1>1, <1>5, Unlocked
  <2> HIDE DEF c
  <2>3. RequestOK(r)'
    BY <1>2, <1>3, <2>1, <2>2 DEF RequestOK, Pending, Attached, Binding, birth, ident, bind, threads
  <2> QED BY <1>1, <1>3, <2>1, <2>3, RequestStep DEF Onward
<1> QED BY <1>4, <1>5

\* The steps that go on with what is known.
LEMMA GoOnStep ==
  ASSUME IInv, NEW r \in Request, NEW step \in {"bound", "acquire"}, Pending(r),
         UNCHANGED <<birth, ident, bind, threads>>, Goto(r, step),
         req[r].step \in Onward => step = "acquire",
         req[r].proc \in installed \/ req[r].slipped
  PROVE  IInv'
<1> DEFINE c == [req[r] EXCEPT !.step = step]
<1>1. req[r] \in Calling /\ Attached(req[r].proc) /\ req[r].proc \in Proc
  BY Unlocked DEF IInv, TypeOK
<1>2. /\ c \in Calling /\ c.step = step /\ c.proc = req[r].proc /\ c.slipped = req[r].slipped
  BY <1>1 DEF Calling
<1>3. req' = [req EXCEPT ![r] = c] /\ req'[r] = c
  BY DEF Goto, IInv, TypeOK
<1> HIDE DEF c
<1>4. RequestOK(r)'
  BY <1>1, <1>2, <1>3 DEF RequestOK, Pending, Attached, birth, ident, bind
<1> QED BY <1>2, <1>3, <1>4, RequestStep DEF Onward

\* Unblock and BindDone: the open lock tells that the providers are there.
LEMMA UnblockStep ==
  ASSUME IInv, NEW r \in Request, Unblock(r) \/ BindDone(r)
  PROVE  IInv'
<1>1. CASE Unblock(r)
  <2>1. req[r].step = "wait" /\ req[r].proc \in installed
    BY <1>1 DEF Unblock, IInv, RequestInv, RequestOK
  <2> QED BY <1>1, <2>1, GoOnStep DEF Unblock, Pending, Onward
<1>2. CASE BindDone(r)
  <2>1. req[r].step = "posted" /\ req[r].proc \in installed
    BY <1>2 DEF BindDone, IInv, RequestInv, RequestOK
  <2> QED BY <1>2, <2>1, GoOnStep DEF BindDone, Pending
<1> QED BY <1>1, <1>2

\* The provider is acquired.
LEMMA AcquireStep ==
  ASSUME IInv, NEW r \in Request, Acquire(r)
  PROVE  IInv'
<1>1. Ended.step = "ended" /\ Ended \in Calling
  BY EndedCall
<1>3. req' = [req EXCEPT ![r] = Ended] /\ UNCHANGED <<birth, ident, bind, threads>> /\ req'[r] = Ended
  BY DEF Acquire, IInv, TypeOK
<1>4. RequestOK(r)'
  BY <1>1, <1>3 DEF RequestOK, Pending
<1> QED BY <1>1, <1>3, <1>4, RequestStep DEF Onward

-----------------------------------------------------------------------------
(* Messages                                                                *)

LEMMA AppendFacts ==
  ASSUME NEW q \in Seq(Message), NEW m \in Message
  PROVE  /\ Append(q, m) \in Seq(Message) /\ Append(q, m) # <<>>
         /\ Len(Append(q, m)) = Len(q) + 1 /\ Len(q) \in Nat
         /\ \A i \in 1 .. Len(q) : Append(q, m)[i] = q[i]
         /\ Append(q, m)[Len(q) + 1] = m
         /\ q # <<>> => Head(Append(q, m)) = Head(q)
BY AppendProperties, HeadTailAppend

LEMMA TailFacts ==
  ASSUME NEW q \in Seq(Message), q # <<>>
  PROVE  /\ Tail(q) \in Seq(Message) /\ Len(Tail(q)) = Len(q) - 1 /\ Len(q) \in Nat
         /\ \A i \in 1 .. Len(Tail(q)) : Tail(q)[i] = q[i + 1] /\ i + 1 \in 1 .. Len(q)
         /\ Head(q) = q[1] /\ 1 \in 1 .. Len(q) /\ Head(q) \in Message
OBVIOUS

\* Which binds are posted when a message is put at the end ...
LEMMA AppendPosted ==
  ASSUME queue \in [Proc -> Seq(Message)], NEW p \in Proc, NEW m \in Message,
         queue' = [queue EXCEPT ![p] = Append(@, m)]
  PROVE  \A q \in Proc, r \in Request :
            Posted(q, r)' <=> Posted(q, r) \/ (q = p /\ m.what = "bind" /\ m.by = r)
<1> TAKE q \in Proc, r \in Request
<1>1. CASE q # p
  BY <1>1 DEF Posted, By
<1>2. CASE q = p
  <2>1. /\ Len(queue'[p]) = Len(queue[p]) + 1 /\ Len(queue[p]) \in Nat
        /\ \A i \in 1 .. Len(queue[p]) : queue'[p][i] = queue[p][i]
        /\ queue'[p][Len(queue[p]) + 1] = m
    BY AppendFacts
  <2>2. 1 .. Len(queue'[p]) = (1 .. Len(queue[p])) \union {Len(queue[p]) + 1}
    BY <2>1
  <2> QED BY <1>2, <2>1, <2>2 DEF Posted, By
<1> QED BY <1>1, <1>2

\* ... and when the first is taken.
LEMMA TailPosted ==
  ASSUME queue \in [Proc -> Seq(Message)], NEW p \in Proc, queue[p] # <<>>,
         queue' = [queue EXCEPT ![p] = Tail(@)]
  PROVE  \A q \in Proc, r \in Request :
            /\ Posted(q, r)' => Posted(q, r)
            /\ Posted(q, r) => Posted(q, r)' \/ (q = p /\ Head(queue[p]).what = "bind"
                                                     /\ Head(queue[p]).by = r)
<1> TAKE q \in Proc, r \in Request
<1>1. CASE q # p
  BY <1>1 DEF Posted, By
<1>2. CASE q = p
  <2>1. /\ Len(queue'[p]) = Len(queue[p]) - 1 /\ Len(queue[p]) \in Nat
        /\ \A i \in 1 .. Len(queue'[p]) : queue'[p][i] = queue[p][i + 1] /\ i + 1 \in 1 .. Len(queue[p])
        /\ Head(queue[p]) = queue[p][1]
    BY TailFacts
  <2>2. ASSUME NEW i \in Nat, By(p, i, r)' PROVE By(p, i + 1, r)
    BY <2>1, <2>2 DEF By
  <2>3. ASSUME NEW i \in Nat, By(p, i, r), i # 1 PROVE By(p, i - 1, r)' /\ i - 1 \in Nat
    BY <2>1, <2>3 DEF By
  <2>4. By(p, 1, r) => Head(queue[p]).what = "bind" /\ Head(queue[p]).by = r
    BY <2>1 DEF By
  <2>5. Posted(p, r)' => Posted(p, r)
    BY <2>2 DEF Posted
  <2>6. Posted(p, r) => Posted(p, r)' \/ (Head(queue[p]).what = "bind" /\ Head(queue[p]).by = r)
    BY <2>3, <2>4 DEF Posted
  <2> QED BY <1>2, <2>5, <2>6
<1> QED BY <1>1, <1>2

\* The lock of a bind, and the only process it is a bind of.
LEMMA LockOf ==
  ASSUME IInv, NEW p \in Proc, main[p] \in Binding
  PROVE  /\ queue[p] # <<>> /\ Head(queue[p]) \in Message
         /\ Head(queue[p]) = queue[p][1] /\ 1 \in 1 .. Len(queue[p])
         /\ \/ lock[p] = p /\ Head(queue[p]).what # "bind"
            \/ /\ lock[p] \in Request /\ Posted(p, lock[p])
               /\ Head(queue[p]).what = "bind" /\ Head(queue[p]).by = lock[p]
<1>1. /\ queue[p] # <<>> /\ queue[p] \in Seq(Message)
      /\ lock[p] = IF Head(queue[p]).what = "bind" THEN Head(queue[p]).by ELSE p
  BY DEF IInv, MainInv, TypeOK
<1>2. Head(queue[p]) \in Message /\ Head(queue[p]) = queue[p][1] /\ 1 \in 1 .. Len(queue[p])
  BY <1>1, TailFacts
<1>3. Head(queue[p]).what = "bind" => Head(queue[p]).by \in Request /\ Posted(p, Head(queue[p]).by)
  BY <1>2 DEF Message, Posted, By
<1> QED BY <1>1, <1>2, <1>3

LEMMA LockOwner ==
  ASSUME IInv, NEW p \in Proc, NEW q \in Proc, main[p] \in Binding, main[q] \in Binding,
         lock[p] = lock[q]
  PROVE  p = q
<1>1. lock[p] = p \/ (lock[p] \in Request /\ Posted(p, lock[p]))
  BY LockOf
<1>2. lock[q] = q \/ (lock[q] \in Request /\ Posted(q, lock[q]))
  BY LockOf
<1> QED BY <1>1, <1>2, AppClientAssumption DEF AppClientAssumption, IInv, LockInv

-----------------------------------------------------------------------------
(* Birth and identity                                                      *)

\* The process is new, or Android has restored it and it knows nothing yet.
LEMMA StartProcessStep ==
  ASSUME IInv, NEW p \in Proc, NEW a \in App, StartProcess(p, a)
  PROVE  IInv'
<1> USE AppClientAssumption DEF IInv, AppClientAssumption, StartProcess, birth, ident, bind, threads
<1>0. /\ initing[p] = Null /\ token[p] = Null /\ vuid[p] = Null
      /\ p \in alive => p \in restored
      /\ p \notin alive => queue[p] = <<>> /\ main[p] = "idle" /\ ~Bound(p) /\ p \notin installed
      /\ p \notin alive => device[p] = Null /\ mTempLock[p] = Null /\ lock[p] = Null /\ p \notin opened
  BY DEF TypeOK, DeadKnowNothing, IdentInv, LockInv
<1>1. TypeOK'
  BY DEF TypeOK, Message, Lock, MainStep
<1>2. DeadKnowNothing'
  BY DEF DeadKnowNothing, TypeOK, Bound, NotBound
<1>3. IdentInv'
  BY <1>0 DEF IdentInv, Sole, TypeOK
<1>4. MessageInv'
  BY <1>0 DEF MessageInv, Sole, TypeOK
<1>5. BoundAsAttached'
  BY <1>0 DEF BoundAsAttached, Bound, NotBound, TypeOK, Sole
<1>6. MainInv'
  BY <1>0 DEF MainInv, Binding, Sole, TypeOK, Bound, NotBound
<1>7. LockInv'
  BY <1>0 DEF LockInv, Posted, By, TypeOK
<1>8. RequestInv'
  BY DEF RequestInv, RequestOK, Pending, Attached, Posted, By, TypeOK
<1> QED BY <1>1, <1>2, <1>3, <1>4, <1>5, <1>6, <1>7, <1>8

\* The process is new.
LEMMA RestoreStep ==
  ASSUME IInv, NEW p \in Proc, Restore(p)
  PROVE  IInv'
<1> USE AppClientAssumption DEF IInv, AppClientAssumption, Restore, birth, ident, bind, threads
<1> DEFINE m == [what |-> "launch", app |-> Kept[p]]
<1>0. /\ initing[p] = Null /\ token[p] = Null /\ vuid[p] = Null /\ p \notin alive
      /\ queue[p] = <<>> /\ main[p] = "idle" /\ ~Bound(p) /\ p \notin installed
      /\ device[p] = Null /\ mTempLock[p] = Null /\ lock[p] = Null /\ p \notin opened
  BY DEF TypeOK, DeadKnowNothing, IdentInv, LockInv
<1>m. /\ m \in Message /\ m.what = "launch" /\ m.app = Kept[p]
      /\ queue' = [queue EXCEPT ![p] = <<m>>] /\ queue'[p] = <<m>>
  BY DEF TypeOK, Message
<1>r. \A q \in Proc, r \in Request : Posted(q, r)' = Posted(q, r)
  BY <1>0, <1>m DEF Posted, By
<1> HIDE DEF m
<1>1. TypeOK'
  BY <1>0, <1>m DEF TypeOK
<1>2. DeadKnowNothing'
  BY DEF DeadKnowNothing, TypeOK, Bound, NotBound
<1>3. IdentInv'
  BY <1>0 DEF IdentInv, Sole, TypeOK
<1>4. MessageInv'
  BY <1>0, <1>m DEF MessageInv, Sole, TypeOK
<1>5. BoundAsAttached'
  BY <1>0 DEF BoundAsAttached, Bound, NotBound, TypeOK, Sole
<1>6. MainInv'
  BY <1>0 DEF MainInv, Binding, Sole, TypeOK, Bound, NotBound
<1>7. LockInv'
  BY <1>0, <1>r DEF LockInv, TypeOK
<1>8. RequestInv'
  BY <1>0, <1>r DEF RequestInv, RequestOK, Pending, Attached, TypeOK
<1> QED BY <1>1, <1>2, <1>3, <1>4, <1>5, <1>6, <1>7, <1>8

\* The new record is made from the message that is launched.
LEMMA ProcessRestartedStep ==
  ASSUME IInv, NEW p \in Proc, ProcessRestarted(p)
  PROVE  IInv'
<1> USE AppClientAssumption DEF IInv, AppClientAssumption, ProcessRestarted, birth, ident, bind, threads
<1>0. /\ queue[p] \in Seq(Message) /\ queue[p] # <<>> /\ Head(queue[p]) = queue[p][1] /\ 1 \in 1 .. Len(queue[p])
      /\ Head(queue[p]) \in Message /\ Head(queue[p]).what = "launch"
      /\ Head(queue[p]).app \in App
  BY TailFacts DEF MainInv, Message, TypeOK
<1>1. TypeOK'
  BY <1>0 DEF TypeOK, MainStep
<1>2. DeadKnowNothing'
  BY DEF DeadKnowNothing, TypeOK, Bound, NotBound
<1>3. IdentInv'
  BY <1>0 DEF IdentInv, Sole, TypeOK, MessageInv
<1>4. MessageInv'
  BY <1>0 DEF MessageInv, Sole, TypeOK
<1>5. BoundAsAttached'
  BY DEF BoundAsAttached, Bound, NotBound, TypeOK, Sole
<1>6. MainInv'
  BY DEF MainInv, Binding, Sole, TypeOK, Bound, NotBound
<1>7. LockInv'
  BY DEF LockInv, Posted, By, TypeOK
<1>8. RequestInv'
  BY <1>0 DEF RequestInv, RequestOK, Pending, Attached, Posted, By, TypeOK
<1> QED BY <1>1, <1>2, <1>3, <1>4, <1>5, <1>6, <1>7, <1>8

\* The process stays unknown.
LEMMA StubNotFoundStep ==
  ASSUME IInv, NEW p \in Proc, StubNotFound(p)
  PROVE  IInv'
<1> USE AppClientAssumption DEF IInv, AppClientAssumption, StubNotFound, birth, ident, bind, threads
<1>1. TypeOK'
  BY DEF TypeOK, Message, Lock, MainStep
<1>2. DeadKnowNothing'
  BY DEF DeadKnowNothing, TypeOK, Bound, NotBound
<1>3. IdentInv'
  BY DEF IdentInv, Sole, TypeOK
<1>4. MessageInv'
  BY DEF MessageInv, Sole, TypeOK
<1>5. BoundAsAttached'
  BY DEF BoundAsAttached, Bound, NotBound, TypeOK, Sole
<1>6. MainInv'
  BY DEF MainInv, Binding, Sole, TypeOK, Bound, NotBound
<1>7. LockInv'
  BY DEF LockInv, Posted, By, TypeOK
<1>8. RequestInv'
  BY DEF RequestInv, RequestOK, Pending, Attached, Posted, By, TypeOK
<1> QED BY <1>1, <1>2, <1>3, <1>4, <1>5, <1>6, <1>7, <1>8

\* The first assignment of initProcess.
LEMMA SetTokenStep ==
  ASSUME IInv, NEW p \in Proc, SetToken(p)
  PROVE  IInv'
<1> USE AppClientAssumption DEF IInv, AppClientAssumption, SetToken, birth, ident, bind, threads
<1>1. TypeOK'
  BY DEF TypeOK, Message, Lock, MainStep
<1>2. DeadKnowNothing'
  BY DEF DeadKnowNothing, TypeOK, Bound, NotBound
<1>3. IdentInv'
  BY DEF IdentInv, Sole, TypeOK
<1>4. MessageInv'
  BY DEF MessageInv, Sole, TypeOK
<1>5. BoundAsAttached'
  BY DEF BoundAsAttached, Bound, NotBound, TypeOK, Sole, MainInv
<1>6. MainInv'
  BY DEF MainInv, Binding, Sole, TypeOK, Bound, NotBound
<1>7. LockInv'
  BY DEF LockInv, Posted, By, TypeOK
<1>8. RequestInv'
  BY DEF RequestInv, RequestOK, Pending, Attached, Posted, By, TypeOK
<1> QED BY <1>1, <1>2, <1>3, <1>4, <1>5, <1>6, <1>7, <1>8

\* The second.
LEMMA SetVuidStep ==
  ASSUME IInv, NEW p \in Proc, SetVuid(p)
  PROVE  IInv'
<1> USE AppClientAssumption DEF IInv, AppClientAssumption, SetVuid, birth, ident, bind, threads
<1>1. TypeOK'
  BY DEF TypeOK, Message, Lock, MainStep
<1>2. DeadKnowNothing'
  BY DEF DeadKnowNothing, TypeOK, Bound, NotBound
<1>3. IdentInv'
  BY DEF IdentInv, Sole, TypeOK
<1>4. MessageInv'
  BY DEF MessageInv, Sole, TypeOK
<1>5. BoundAsAttached'
  BY DEF BoundAsAttached, Bound, NotBound, TypeOK, Sole, MainInv
<1>6. MainInv'
  BY DEF MainInv, Binding, Sole, TypeOK, Bound, NotBound
<1>7. LockInv'
  BY DEF LockInv, Posted, By, TypeOK
<1>8. RequestInv'
  BY DEF RequestInv, RequestOK, Pending, Attached, Posted, By, TypeOK
<1> QED BY <1>1, <1>2, <1>3, <1>4, <1>5, <1>6, <1>7, <1>8

\* All the process knew goes, and who waits for it gets an exception.
LEMMA DieStep ==
  ASSUME IInv, NEW p \in Proc, Die(p)
  PROVE  IInv'
<1> USE AppClientAssumption DEF IInv, AppClientAssumption, Die, birth, ident, bind, threads
<1> DEFINE next(r) == IF Pending(r) /\ req[r].proc = p THEN Ended
                      ELSE IF req[r].from = p THEN [req[r] EXCEPT !.from = Null] ELSE req[r]
<1>0. ASSUME NEW r \in Request
      PROVE  /\ req'[r] = next(r) /\ req'[r] \in Calling
             /\ req'[r].step # "ended" => /\ req'[r].step = req[r].step /\ req'[r].proc = req[r].proc
                                          /\ req'[r].on = req[r].on /\ req'[r].slipped = req[r].slipped
             /\ req'[r].step \notin {"free", "ended"} => req[r].proc # p
             /\ req'[r].step = "ended" \/ req'[r].step = req[r].step
  <2>1. req[r] \in Calling /\ req'[r] = next(r)
    BY DEF TypeOK
  <2>2. CASE Pending(r) /\ req[r].proc = p
    BY <2>1, <2>2, EndedCall
  <2>3. CASE ~(Pending(r) /\ req[r].proc = p) /\ req[r].from = p
    <3>1. /\ req'[r] = [req[r] EXCEPT !.from = Null]
      BY <2>1, <2>3
    <3>2. req'[r] \in Calling /\ req'[r].step = req[r].step /\ req'[r].proc = req[r].proc
          /\ req'[r].on = req[r].on /\ req'[r].slipped = req[r].slipped
      BY <2>1, <3>1 DEF Calling
    <3> QED BY <2>1, <2>3, <3>2 DEF Pending
  <2>4. CASE ~(Pending(r) /\ req[r].proc = p) /\ req[r].from # p
    BY <2>1, <2>4 DEF Pending
  <2> QED BY <2>2, <2>3, <2>4
<1>r. \A q \in Proc, r \in Request : Posted(q, r)' => Posted(q, r) /\ q # p
  BY DEF Posted, By, TypeOK
<1>s. \A q \in Proc, r \in Request : q # p /\ Posted(q, r) => Posted(q, r)'
  BY DEF Posted, By, TypeOK
<1>t. req' \in [Request -> Calling]
  <2>1. req' = [r \in Request |-> next(r)]
    OBVIOUS
  <2> QED BY <1>0, <2>1
<1> HIDE DEF next
<1>1. TypeOK'
  BY <1>t DEF TypeOK, MainStep, NotBound
<1>2. DeadKnowNothing'
  BY DEF DeadKnowNothing, TypeOK, Bound, NotBound
<1>3. IdentInv'
  BY DEF IdentInv, Sole, TypeOK
<1>4. MessageInv'
  BY DEF MessageInv, Sole, TypeOK
<1>5. BoundAsAttached'
  BY DEF BoundAsAttached, Bound, NotBound, TypeOK, Sole
<1>6. MainInv'
  BY DEF MainInv, Binding, Sole, TypeOK, Bound, NotBound
<1>7. LockInv'
  BY <1>0, <1>r DEF LockInv, TypeOK
<1>8. RequestInv'
  <2>1. ASSUME NEW r \in Request PROVE RequestOK(r)'
    <3>1. CASE req'[r].step \in {"free", "ended"}
      BY <3>1 DEF RequestOK, Pending
    <3>2. CASE req'[r].step \notin {"free", "ended"}
      <4>0. PICK q \in Proc : q = req[r].proc
        BY <1>0, <3>2 DEF RequestInv, RequestOK, Pending
      <4>1. /\ q # p /\ Pending(r) /\ RequestOK(r)
            /\ req'[r].step = req[r].step /\ req'[r].proc = q
            /\ req'[r].on = req[r].on /\ req'[r].slipped = req[r].slipped
        BY <1>0, <3>2, <4>0 DEF RequestInv, Pending
      <4>2. q \in Proc /\ Attached(q)
        BY <4>0, <4>1 DEF RequestOK
      <4>3. /\ main'[q] = main[q] /\ lock'[q] = lock[q] /\ token'[q] = token[q]
            /\ initing'[q] = initing[q] /\ opened' = opened
            /\ q \in alive' <=> q \in alive
            /\ q \in installed' <=> q \in installed
        BY <4>1, <4>2 DEF TypeOK
      <4>4. Posted(q, r) => Posted(q, r)'
        BY <1>s, <4>1, <4>2
      <4> HIDE DEF Die
      <4>5. Attached(q)'
        BY <4>2, <4>3 DEF Attached
      <4>6. req[r].step = "wait" =>
              /\ req[r].on \in opened' => q \in installed'
              /\ \/ req[r].on \in opened'
                 \/ main'[q] \in {"data", "make", "open"} /\ lock'[q] = req[r].on
        BY <4>0, <4>1, <4>3 DEF RequestOK
      <4>7. req[r].step = "posted" =>
              /\ r \in opened' => q \in installed'
              /\ r \in opened' \/ Posted(q, r)'
        BY <4>0, <4>1, <4>3, <4>4 DEF RequestOK
      <4>8. req[r].step \in {"bound", "acquire"} => q \in installed' \/ req'[r].slipped
        BY <4>0, <4>1, <4>3 DEF RequestOK
      <4> QED BY <4>0, <4>1, <4>2, <4>5, <4>6, <4>7, <4>8 DEF RequestOK, Pending
    <3> QED BY <3>1, <3>2
  <2> QED BY <2>1 DEF RequestInv
<1> QED BY <1>1, <1>2, <1>3, <1>4, <1>5, <1>6, <1>7, <1>8

-----------------------------------------------------------------------------
(* The main thread                                                         *)

\* The message names the application of the token.
LEMMA SendStep ==
  ASSUME IInv, NEW p \in Proc, NEW what \in {"work", "launch"}, Send(p, what)
  PROVE  IInv'
<1> USE AppClientAssumption DEF IInv, AppClientAssumption, Send, Attached, birth, ident, bind, threads
<1> DEFINE m == [what |-> what, app |-> token[p]]
<1>m. /\ m \in Message /\ m.what \in {"work", "launch"} /\ m.app = token[p]
      /\ queue' = [queue EXCEPT ![p] = Append(@, m)] /\ queue'[p] = Append(queue[p], m)
  BY DEF TypeOK, Message
<1> HIDE DEF m
<1>a. /\ queue[p] \in Seq(Message) /\ queue'[p] \in Seq(Message) /\ queue'[p] # <<>>
      /\ Len(queue'[p]) = Len(queue[p]) + 1 /\ Len(queue[p]) \in Nat
      /\ \A i \in 1 .. Len(queue[p]) : queue'[p][i] = queue[p][i]
      /\ queue'[p][Len(queue[p]) + 1] = m
      /\ queue[p] # <<>> => Head(queue'[p]) = Head(queue[p])
  BY <1>m, AppendFacts DEF TypeOK
<1>b. queue \in [Proc -> Seq(Message)]
  BY DEF TypeOK
<1>c. \A q \in Proc, r \in Request :
         Posted(q, r)' <=> Posted(q, r) \/ (q = p /\ m.what = "bind" /\ m.by = r)
  BY <1>m, <1>b, AppendPosted
<1>r. \A q \in Proc, r \in Request : Posted(q, r)' <=> Posted(q, r)
  BY <1>m, <1>c
<1>1. TypeOK'
  <2>1. queue' \in [Proc -> Seq(Message)]
    BY <1>m, <1>a DEF TypeOK
  <2>2. sent' \in 0 .. MaxSent
    BY DEF TypeOK
  <2> QED BY <1>a, <2>1, <2>2 DEF TypeOK
<1>2. DeadKnowNothing'
  BY DEF DeadKnowNothing, TypeOK, Bound, NotBound
<1>3. IdentInv'
  BY DEF IdentInv, Sole, TypeOK
<1>4. MessageInv'
  <2>1. \A i \in 1 .. Len(queue'[p]) : i \in 1 .. Len(queue[p]) \/ i = Len(queue[p]) + 1
    BY <1>a
  <2>2. \A i \in 1 .. Len(queue'[p]) :
           \/ queue'[p][i] = m
           \/ i \in 1 .. Len(queue[p]) /\ queue'[p][i] = queue[p][i]
    BY <1>a, <2>1
  <2> QED BY <1>m, <2>2 DEF MessageInv, Sole, TypeOK
<1>5. BoundAsAttached'
  BY DEF BoundAsAttached, Bound, NotBound, TypeOK, Sole
<1>6. MainInv'
  BY <1>a, <1>m DEF MainInv, Binding, Sole, TypeOK, Bound, NotBound
<1>7. LockInv'
  BY <1>r DEF LockInv, TypeOK
<1>8. RequestInv'
  BY <1>r DEF RequestInv, RequestOK, Pending, Attached, TypeOK
<1> QED BY <1>1, <1>2, <1>3, <1>4, <1>5, <1>6, <1>7, <1>8

\* A bind begins.
LEMMA BeginBindStep ==
  ASSUME IInv, NEW p \in Proc, NEW l, BeginBind(p, l),
         p \in alive, main[p] = "idle", queue[p] # <<>>, UNCHANGED <<birth, ident, queue, sent, req>>,
         l = IF Head(queue[p]).what = "bind" THEN Head(queue[p]).by ELSE p,
         Head(queue[p]).what = "launch" => token[p] # Null
  PROVE  IInv'
<1> USE AppClientAssumption DEF IInv, AppClientAssumption, BeginBind, birth, ident, bind, threads
<1>0. /\ queue[p] \in Seq(Message) /\ Head(queue[p]) \in Message /\ Head(queue[p]) = queue[p][1]
      /\ 1 \in 1 .. Len(queue[p])
  BY TailFacts DEF TypeOK
<1>l. l \in Lock
  BY <1>0 DEF Message, Lock
<1>s. Sole(p) => token[p] # Null /\ initing[p] = Null
  BY <1>0 DEF MessageInv, IdentInv, Message, Sole
<1>d. Sole(p) => device[p] = Null \/ device[p] = vuid[p]
  BY DEF MainInv, BoundAsAttached, Sole
<1>r. \A q \in Proc, r \in Request : Posted(q, r)' = Posted(q, r)
  BY DEF Posted, By
<1>1. TypeOK'
  BY <1>l DEF TypeOK, MainStep
<1>2. DeadKnowNothing'
  BY DEF DeadKnowNothing, TypeOK, Bound, NotBound
<1>3. IdentInv'
  BY DEF IdentInv, Sole, TypeOK
<1>4. MessageInv'
  BY DEF MessageInv, Sole, TypeOK
<1>5. BoundAsAttached'
  BY <1>s, <1>d DEF BoundAsAttached, Bound, NotBound, TypeOK, Sole, MainInv
<1>6. MainInv'
  BY <1>s, <1>d DEF MainInv, Binding, Sole, TypeOK, Bound, NotBound
<1>7. LockInv'
  BY <1>r DEF LockInv, TypeOK
<1>8. RequestInv'
  BY <1>r DEF RequestInv, RequestOK, Pending, Attached, TypeOK
<1> QED BY <1>1, <1>2, <1>3, <1>4, <1>5, <1>6, <1>7, <1>8

\* A component runs: its message is done.
LEMMA ComponentStep ==
  ASSUME IInv, NEW p \in Proc, Bound(p), main[p] = "idle", queue[p] # <<>>, p \in alive,
         Head(queue[p]).what # "bind", queue' = [queue EXCEPT ![p] = Tail(@)],
         main' = [main EXCEPT ![p] = "run"],
         UNCHANGED <<bind, lock, birth, ident, sent, req>>
  PROVE  IInv'
<1> USE AppClientAssumption DEF IInv, AppClientAssumption, birth, ident, bind, threads
<1>0. /\ queue'[p] = Tail(queue[p]) /\ queue'[p] \in Seq(Message)
      /\ \A i \in 1 .. Len(queue'[p]) : queue'[p][i] = queue[p][i + 1] /\ i + 1 \in 1 .. Len(queue[p])
  BY TailFacts DEF TypeOK
<1>b. queue \in [Proc -> Seq(Message)]
  BY DEF TypeOK
<1>r. \A q \in Proc, r \in Request : Posted(q, r)' <=> Posted(q, r)
  BY <1>b, TailPosted
<1>1. TypeOK'
  BY <1>0 DEF TypeOK, MainStep
<1>2. DeadKnowNothing'
  BY DEF DeadKnowNothing, TypeOK, Bound, NotBound
<1>3. IdentInv'
  BY DEF IdentInv, Sole, TypeOK
<1>4. MessageInv'
  BY <1>0 DEF MessageInv, Sole, TypeOK
<1>5. BoundAsAttached'
  BY DEF BoundAsAttached, Bound, NotBound, TypeOK, Sole
<1>6. MainInv'
  BY DEF MainInv, Binding, Sole, TypeOK, Bound, NotBound
<1>7. LockInv'
  BY <1>r DEF LockInv, TypeOK
<1>8. RequestInv'
  BY <1>r DEF RequestInv, RequestOK, Pending, Attached, TypeOK
<1> QED BY <1>1, <1>2, <1>3, <1>4, <1>5, <1>6, <1>7, <1>8

LEMMA WorkStep ==
  ASSUME IInv, NEW p \in Proc, Work(p)
  PROVE  IInv'
<1>1. CASE Bound(p)
  BY <1>1, ComponentStep DEF Work
<1>2. CASE ~Bound(p)
  BY <1>2, BeginBindStep DEF Work
<1> QED BY <1>1, <1>2

\* A process that does not know whose it is reports itself.
LEMMA ReportStep ==
  ASSUME IInv, NEW p \in Proc, p \in alive, main[p] = "idle", queue[p] # <<>>,
         Head(queue[p]).what = "launch", token[p] = Null, main' = [main EXCEPT ![p] = "report"],
         UNCHANGED <<birth, ident, bind, queue, lock, sent, req>>
  PROVE  IInv'
<1> USE AppClientAssumption DEF IInv, AppClientAssumption, birth, ident, bind, threads
<1>1. TypeOK'
  BY DEF TypeOK, Message, Lock, MainStep
<1>2. DeadKnowNothing'
  BY DEF DeadKnowNothing, TypeOK, Bound, NotBound
<1>3. IdentInv'
  BY DEF IdentInv, Sole, TypeOK
<1>4. MessageInv'
  BY DEF MessageInv, Sole, TypeOK
<1>5. BoundAsAttached'
  BY DEF BoundAsAttached, Bound, NotBound, TypeOK, Sole
<1>6. MainInv'
  BY DEF MainInv, Binding, Sole, TypeOK, Bound, NotBound
<1>7. LockInv'
  BY DEF LockInv, Posted, By, TypeOK
<1>8. RequestInv'
  BY DEF RequestInv, RequestOK, Pending, Attached, Posted, By, TypeOK
<1> QED BY <1>1, <1>2, <1>3, <1>4, <1>5, <1>6, <1>7, <1>8

LEMMA LaunchStep ==
  ASSUME IInv, NEW p \in Proc, Launch(p)
  PROVE  IInv'
<1>1. CASE token[p] = Null
  BY <1>1, ReportStep DEF Launch, ident, threads
<1>2. CASE token[p] # Null /\ Bound(p)
  BY <1>2, ComponentStep DEF Launch
<1>3. CASE token[p] # Null /\ ~Bound(p)
  BY <1>3, BeginBindStep DEF Launch
<1> QED BY <1>1, <1>2, <1>3

LEMMA RunBindStep ==
  ASSUME IInv, NEW p \in Proc, RunBind(p)
  PROVE  IInv'
BY BeginBindStep DEF RunBind

\* The data name the application of the message.
LEMMA BindDataStep ==
  ASSUME IInv, NEW p \in Proc, BindData(p)
  PROVE  IInv'
<1> USE AppClientAssumption DEF IInv, AppClientAssumption, BindData, birth, ident, bind, threads
<1>0. main[p] \in Binding
  BY DEF Binding
<1>1a. Head(queue[p]) \in Message /\ Head(queue[p]) = queue[p][1] /\ 1 \in 1 .. Len(queue[p])
  BY <1>0, LockOf
<1>a. Head(queue[p]).app \in App /\ Head(queue[p]).what \in {"work", "launch", "bind"}
  BY <1>1a DEF Message
<1>b. Sole(p) => Head(queue[p]).app = token[p] /\ device[p] = vuid[p]
  BY <1>0, <1>1a, <1>a DEF MessageInv, MainInv, Sole
<1>c. boundTo'[p] = [app |-> Head(queue[p]).app, user |-> vuid[p]] /\ boundTo'[p] # NotBound
  BY <1>a DEF TypeOK, NotBound
<1>d. boundTo' \in [Proc -> [app : App \union {Null}, user : App \union {Null}]]
  BY <1>a DEF TypeOK
<1>e. \A q \in Proc : q # p => boundTo'[q] = boundTo[q]
  BY DEF TypeOK
<1>1. TypeOK'
  BY <1>d, ZenonT(40) DEF TypeOK, MainStep
<1>2. DeadKnowNothing'
  BY <1>e DEF DeadKnowNothing, TypeOK, Bound
<1>3. IdentInv'
  BY DEF IdentInv, Sole, TypeOK
<1>4. MessageInv'
  BY DEF MessageInv, Sole, TypeOK
<1>5. BoundAsAttached'
  BY <1>b, <1>c, <1>e DEF BoundAsAttached, Bound, TypeOK, Sole
<1>6. MainInv'
  BY <1>c, <1>e DEF MainInv, Binding, Sole, TypeOK, Bound
<1>7. LockInv'
  BY DEF LockInv, Posted, By, TypeOK
<1>8. RequestInv'
  BY DEF RequestInv, RequestOK, Pending, Attached, Posted, By, TypeOK
<1> QED BY <1>1, <1>2, <1>3, <1>4, <1>5, <1>6, <1>7, <1>8

\* The providers are there.
LEMMA InstallProvidersStep ==
  ASSUME IInv, NEW p \in Proc, InstallProviders(p)
  PROVE  IInv'
<1> USE AppClientAssumption DEF IInv, AppClientAssumption, InstallProviders, birth, ident, bind, threads
<1>1. TypeOK'
  BY DEF TypeOK, Message, Lock, MainStep
<1>2. DeadKnowNothing'
  BY DEF DeadKnowNothing, TypeOK, Bound, NotBound
<1>3. IdentInv'
  BY DEF IdentInv, Sole, TypeOK
<1>4. MessageInv'
  BY DEF MessageInv, Sole, TypeOK
<1>5. BoundAsAttached'
  BY DEF BoundAsAttached, Bound, NotBound, TypeOK, Sole
<1>6. MainInv'
  BY DEF MainInv, Binding, Sole, TypeOK, Bound, NotBound
<1>7. LockInv'
  BY DEF LockInv, Posted, By, TypeOK
<1>8. RequestInv'
  BY DEF RequestInv, RequestOK, Pending, Attached, Posted, By, TypeOK
<1> QED BY <1>1, <1>2, <1>3, <1>4, <1>5, <1>6, <1>7, <1>8

\* The lock is opened, when the providers are there.
LEMMA OpenLockStep ==
  ASSUME IInv, NEW p \in Proc, OpenLock(p)
  PROVE  IInv'
<1> USE AppClientAssumption DEF IInv, AppClientAssumption, OpenLock, birth, ident, bind, threads
<1>0. main[p] \in Binding /\ p \in installed
  BY DEF Binding, MainInv
<1>l. \/ lock[p] = p
      \/ lock[p] \in Request /\ Posted(p, lock[p])
  BY <1>0, LockOf
<1>r. \A q \in Proc, r \in Request : Posted(q, r)' = Posted(q, r)
  BY DEF Posted, By
<1>o. \A q \in Proc : main[q] \in Binding /\ lock[q] = lock[p] => q = p
  BY <1>0, LockOwner
<1>1. TypeOK'
  BY <1>l DEF TypeOK, MainStep, Lock
<1>2. DeadKnowNothing'
  BY DEF DeadKnowNothing, TypeOK, Bound, NotBound
<1>3. IdentInv'
  BY DEF IdentInv, Sole, TypeOK
<1>4. MessageInv'
  BY DEF MessageInv, Sole, TypeOK
<1>5. BoundAsAttached'
  BY DEF BoundAsAttached, Bound, NotBound, TypeOK, Sole
<1>6. MainInv'
  BY DEF MainInv, Binding, Sole, TypeOK, Bound, NotBound
<1>7. LockInv'
  <2>1. \A q \in Proc : q \in opened' => q \in started \union restored /\ (q \in alive => q \in installed)
    BY <1>0, <1>l DEF LockInv, TypeOK
  <2>2. ASSUME NEW q \in Proc, NEW r \in Request, Posted(q, r)
        PROVE  /\ r \in opened' => q \in installed
               /\ req[r].step \in {"posted", "acquire", "ended"}
               /\ \A t \in Proc : Posted(t, r) => t = q
    <3>1. r = lock[p] => q = p
      BY <1>l, <2>2 DEF LockInv
    <3> QED BY <1>0, <2>2, <3>1 DEF LockInv
  <2>3. \A r \in Request : r \in opened' => req[r].step \in {"posted", "acquire", "ended"}
    BY <1>l DEF LockInv
  <2> QED BY <1>r, <2>1, <2>2, <2>3 DEF LockInv
<1>8. RequestInv'
  <2>1. ASSUME NEW r \in Request PROVE RequestOK(r)'
    <3>1. req[r].step = "wait" /\ req[r].on = lock[p] /\ req[r].on \notin opened => req[r].proc = p
      BY <1>o DEF RequestInv, RequestOK, Pending, Binding
    <3>2. req[r].step = "posted" /\ r = lock[p] /\ r \notin opened => req[r].proc = p
      BY <1>l DEF RequestInv, RequestOK, Pending, LockInv
    <3>3. opened' = opened \union {lock[p]} /\ \A q \in Proc : q # p => main'[q] = main[q]
      BY DEF TypeOK
    <3>4. req[r].step = "wait" /\ req[r].on \notin opened' =>
             main'[req[r].proc] \in {"data", "make", "open"} /\ lock[req[r].proc] = req[r].on
      BY <3>3 DEF RequestInv, RequestOK, Pending
    <3> QED BY <1>0, <1>r, <3>1, <3>2, <3>3, <3>4 DEF RequestInv, RequestOK, Pending, Attached
  <2> QED BY <2>1 DEF RequestInv
<1> QED BY <1>1, <1>2, <1>3, <1>4, <1>5, <1>6, <1>7, <1>8

\* mTempLock goes, and the message with it that was the bind.
LEMMA ClearLockStep ==
  ASSUME IInv, NEW p \in Proc, ClearLock(p)
  PROVE  IInv'
<1> USE AppClientAssumption DEF IInv, AppClientAssumption, ClearLock, birth, ident, bind, threads
<1>0. main[p] \in Binding /\ queue[p] # <<>> /\ lock[p] \in opened
  BY DEF Binding, MainInv
<1>l. Head(queue[p]).what = "bind" => Head(queue[p]).by = lock[p]
  BY <1>0, LockOf
<1>t. /\ queue' \in [Proc -> Seq(Message)]
      /\ \A q \in Proc : \A i \in 1 .. Len(queue'[q]) :
            \E j \in 1 .. Len(queue[q]) : queue'[q][i] = queue[q][j]
  <2>1. CASE Head(queue[p]).what = "bind"
    <3>1. /\ queue'[p] = Tail(queue[p]) /\ queue'[p] \in Seq(Message)
          /\ \A i \in 1 .. Len(queue'[p]) : queue'[p][i] = queue[p][i + 1] /\ i + 1 \in 1 .. Len(queue[p])
      BY <1>0, <2>1, TailFacts DEF TypeOK
    <3>2. queue' \in [Proc -> Seq(Message)]
      BY <2>1, <3>1 DEF TypeOK
    <3>3. ASSUME NEW q \in Proc, NEW i \in 1 .. Len(queue'[q])
          PROVE  \E j \in 1 .. Len(queue[q]) : queue'[q][i] = queue[q][j]
      <4>1. CASE q = p
        BY <3>1, <3>3, <4>1
      <4>2. CASE q # p
        <5>1. queue'[q] = queue[q]
          BY <4>2 DEF TypeOK
        <5> QED BY <3>3, <5>1
      <4> QED BY <4>1, <4>2
    <3> QED BY <3>2, <3>3
  <2>2. CASE Head(queue[p]).what # "bind"
    <3>1. queue' = queue /\ queue \in [Proc -> Seq(Message)]
      BY <2>2 DEF TypeOK
    <3>2. \A q \in Proc : \A i \in 1 .. Len(queue'[q]) :
             i \in 1 .. Len(queue[q]) /\ queue'[q][i] = queue[q][i]
      BY <3>1
    <3> QED BY <3>1, <3>2
  <2> QED BY <2>1, <2>2
<1>e. \A q \in Proc : q # p => queue'[q] = queue[q]
  BY DEF TypeOK
<1>r. \A q \in Proc, r \in Request : /\ Posted(q, r)' => Posted(q, r)
                                     /\ Posted(q, r) => Posted(q, r)' \/ r \in opened
  <2>1. CASE Head(queue[p]).what = "bind"
    <3>1. queue' = [queue EXCEPT ![p] = Tail(@)]
      BY <2>1
    <3>2. queue \in [Proc -> Seq(Message)]
      BY DEF TypeOK
    <3>3. opened' = opened
      OBVIOUS
    <3>4. \A r \in Request : Head(queue[p]).by = r => r \in opened
      BY <1>0, <1>l, <2>1
    <3>5. queue[p] # <<>>
      BY <1>0
    <3>6. \A q \in Proc, r \in Request :
            /\ Posted(q, r)' => Posted(q, r)
            /\ Posted(q, r) => Posted(q, r)' \/ (q = p /\ Head(queue[p]).what = "bind"
                                                     /\ Head(queue[p]).by = r)
      BY <3>1, <3>2, <3>5, TailPosted
    <3> QED BY <3>4, <3>6
  <2>2. CASE Head(queue[p]).what # "bind"
    <3>1. queue' = queue
      BY <2>2 DEF TypeOK
    <3> QED BY <3>1 DEF Posted, By
  <2> QED BY <2>1, <2>2
<1>m. main'[p] = "run" /\ mTempLock'[p] = Null /\ lock'[p] = Null
      /\ \A q \in Proc : q # p => main'[q] = main[q] /\ mTempLock'[q] = mTempLock[q] /\ lock'[q] = lock[q]
  BY DEF TypeOK
<1>1. TypeOK'
  BY <1>t, <1>e, <1>m DEF TypeOK, MainStep
<1>2. DeadKnowNothing'
  BY <1>e, <1>m DEF DeadKnowNothing, TypeOK, Bound
<1>3. IdentInv'
  BY DEF IdentInv, Sole, TypeOK
<1>4. MessageInv'
  <2>1. UNCHANGED <<token, initing, restored, started>> /\ MessageInv
    OBVIOUS
  <2> HIDE DEF IInv, ClearLock
  <2> SUFFICES ASSUME NEW q \in Proc, NEW i \in 1 .. Len(queue'[q])
               PROVE  MessageInv!(q)!(i)'
    BY DEF MessageInv
  <2>2. PICK j \in 1 .. Len(queue[q]) : queue'[q][i] = queue[q][j]
    BY <1>t
  <2>3. MessageInv!(q)!(j)
    BY <2>1 DEF MessageInv
  <2> QED BY <2>1, <2>2, <2>3 DEF Sole
<1>5. BoundAsAttached'
  BY DEF BoundAsAttached, Bound, NotBound, TypeOK, Sole
<1>6. MainInv'
  BY <1>0, <1>e, <1>m DEF MainInv, Binding, Sole, TypeOK, Bound, NotBound
<1>7. LockInv'
  BY <1>r DEF LockInv, TypeOK
<1>8. RequestInv'
  BY <1>0, <1>r, <1>m DEF RequestInv, RequestOK, Pending, Attached, TypeOK
<1> QED BY <1>1, <1>2, <1>3, <1>4, <1>5, <1>6, <1>7, <1>8

\* The code of the app returns.
LEMMA ReturnStep ==
  ASSUME IInv, NEW p \in Proc, Return(p)
  PROVE  IInv'
<1> USE AppClientAssumption DEF IInv, AppClientAssumption, Return, birth, ident, bind, threads
<1>1. TypeOK'
  BY DEF TypeOK, Message, Lock, MainStep
<1>2. DeadKnowNothing'
  BY DEF DeadKnowNothing, TypeOK, Bound, NotBound
<1>3. IdentInv'
  BY DEF IdentInv, Sole, TypeOK
<1>4. MessageInv'
  BY DEF MessageInv, Sole, TypeOK
<1>5. BoundAsAttached'
  BY DEF BoundAsAttached, Bound, NotBound, TypeOK, Sole
<1>6. MainInv'
  BY DEF MainInv, Binding, Sole, TypeOK, Bound, NotBound
<1>7. LockInv'
  BY DEF LockInv, Posted, By, TypeOK
<1>8. RequestInv'
  BY DEF RequestInv, RequestOK, Pending, Attached, Posted, By, TypeOK
<1> QED BY <1>1, <1>2, <1>3, <1>4, <1>5, <1>6, <1>7, <1>8

-----------------------------------------------------------------------------
(* A request that finds the process unbound posts a bind                   *)

LEMMA PostStep ==
  ASSUME IInv, NEW r \in Request, LookIfBound(r), ~Bound(req[r].proc)
  PROVE  IInv'
<1> USE AppClientAssumption DEF IInv, AppClientAssumption, birth, ident, bind, threads
<1> DEFINE p == req[r].proc
           m == [what |-> "bind", app |-> token[p], by |-> r]
           c == [req[r] EXCEPT !.step = "posted"]
<1>1. req[r] \in Calling /\ req[r].step = "bound" /\ Pending(r)
  BY DEF TypeOK, LookIfBound, Pending
<1>2. p \in Proc /\ Attached(p) /\ p \in alive
  BY <1>1, Unlocked DEF Attached
<1>3. /\ c \in Calling /\ c.step = "posted" /\ c.proc = p
  BY <1>1 DEF Calling
<1>4. /\ m \in Message /\ m.what = "bind" /\ m.app = token[p] /\ m.by = r
  BY <1>2 DEF Attached, TypeOK, Message
<1>5. /\ req' = [req EXCEPT ![r] = c] /\ queue' = [queue EXCEPT ![p] = Append(@, m)]
      /\ UNCHANGED <<birth, ident, bind, main, lock, sent>>
  BY DEF LookIfBound, Goto
<1> HIDE DEF c, m, p
<1>6. req'[r] = c /\ \A q \in Request : q # r => req'[q] = req[q]
  BY <1>5 DEF TypeOK
<1>7. /\ queue[p] \in Seq(Message) /\ queue'[p] \in Seq(Message) /\ queue'[p] # <<>>
      /\ Len(queue'[p]) = Len(queue[p]) + 1 /\ Len(queue[p]) \in Nat
      /\ \A i \in 1 .. Len(queue[p]) : queue'[p][i] = queue[p][i]
      /\ queue'[p][Len(queue[p]) + 1] = m
      /\ queue[p] # <<>> => Head(queue'[p]) = Head(queue[p])
      /\ \A q \in Proc : q # p => queue'[q] = queue[q]
  <2>1. queue[p] \in Seq(Message) /\ queue'[p] = Append(queue[p], m)
        /\ \A q \in Proc : q # p => queue'[q] = queue[q]
    BY <1>2, <1>5 DEF TypeOK
  <2> QED BY <1>4, <2>1, AppendFacts
<1>8. \A q \in Proc, t \in Request : Posted(q, t)' <=> Posted(q, t) \/ (q = p /\ t = r)
  <2>1. queue \in [Proc -> Seq(Message)]
    BY DEF TypeOK
  <2>2. \A q \in Proc, t \in Request :
           Posted(q, t)' <=> Posted(q, t) \/ (q = p /\ m.what = "bind" /\ m.by = t)
    BY <1>2, <1>4, <1>5, <2>1, AppendPosted
  <2> QED BY <1>4, <2>2
<1>9. TypeOK' /\ DeadKnowNothing' /\ IdentInv' /\ BoundAsAttached'
  <2>1. TypeOK'
    BY <1>2, <1>3, <1>5, <1>7 DEF TypeOK
  <2>2. DeadKnowNothing'
    BY <1>2, <1>5, <1>7 DEF DeadKnowNothing, Bound
  <2>3. IdentInv' /\ BoundAsAttached'
    BY <1>5 DEF IdentInv, BoundAsAttached, Sole, Bound
  <2> QED BY <2>1, <2>2, <2>3
<1>10. MessageInv'
  <2>1. \A i \in 1 .. Len(queue'[p]) : i \in 1 .. Len(queue[p]) \/ i = Len(queue[p]) + 1
    BY <1>7
  <2>2. \A i \in 1 .. Len(queue'[p]) :
           \/ queue'[p][i] = m
           \/ i \in 1 .. Len(queue[p]) /\ queue'[p][i] = queue[p][i]
    BY <1>7, <2>1
  <2>3. token[p] # Null /\ initing[p] = Null
    BY <1>2 DEF Attached
  <2> QED BY <1>4, <1>5, <1>7, <2>2, <2>3 DEF MessageInv, Sole
<1>11. MainInv'
  BY <1>5, <1>7 DEF MainInv, Binding, Sole, Bound
<1>12. LockInv'
  <2>1. r \notin opened /\ \A q \in Proc : ~Posted(q, r)
    BY <1>1 DEF LockInv
  <2> QED BY <1>3, <1>5, <1>6, <1>8, <2>1 DEF LockInv
<1>13. RequestInv'
  <2>1. RequestOK(r)'
    <3>1. r \notin opened
      BY <1>1 DEF LockInv
    <3> QED BY <1>2, <1>3, <1>5, <1>6, <1>8, <3>1 DEF RequestOK, Pending, Attached
  <2>2. ASSUME NEW q \in Request, q # r PROVE RequestOK(q)'
    BY <1>5, <1>6, <1>8, <2>2 DEF RequestInv, RequestOK, Pending, Attached
  <2> QED BY <2>1, <2>2 DEF RequestInv
<1> QED BY <1>9, <1>10, <1>11, <1>12, <1>13

LEMMA LookIfBoundStep ==
  ASSUME IInv, NEW r \in Request, LookIfBound(r)
  PROVE  IInv'
<1>1. CASE Bound(req[r].proc)
  <2>1. /\ req[r].step = "bound" /\ Pending(r) /\ Goto(r, "acquire")
        /\ UNCHANGED <<birth, ident, bind, threads>>
    BY <1>1 DEF LookIfBound, Pending, threads
  <2>2. req[r].proc \in installed \/ req[r].slipped
    BY <2>1 DEF IInv, RequestInv, RequestOK
  <2> QED BY <2>1, <2>2, GoOnStep DEF Onward
<1>2. CASE ~Bound(req[r].proc)
  BY <1>2, PostStep
<1> QED BY <1>1, <1>2

-----------------------------------------------------------------------------
(* The theorems                                                            *)

LEMMA InitIInv == Init => IInv
<1> SUFFICES ASSUME Init PROVE IInv
  OBVIOUS
<1> USE AppClientAssumption DEF AppClientAssumption, Init
<1>1. NoCall \in Calling /\ NoCall.step = "free"
  BY DEF NoCall, Call, Calling
<1> HIDE DEF NoCall
<1>2. TypeOK
  BY <1>1 DEF TypeOK, NotBound, MainStep, Message
<1>3. DeadKnowNothing /\ IdentInv /\ MessageInv /\ BoundAsAttached
  BY DEF DeadKnowNothing, IdentInv, MessageInv, BoundAsAttached, Bound, NotBound, Sole
<1>4. MainInv
  BY DEF MainInv, Binding, Bound, NotBound
<1>5. LockInv /\ RequestInv
  BY <1>1 DEF LockInv, RequestInv, RequestOK, Pending, Posted, By
<1> QED BY <1>2, <1>3, <1>4, <1>5 DEF IInv

LEMMA Stutter == IInv /\ UNCHANGED vars => IInv'
<1> SUFFICES ASSUME IInv, UNCHANGED vars PROVE IInv'
  OBVIOUS
<1> USE DEF IInv, vars, birth, ident, bind, threads
<1>1. TypeOK' /\ DeadKnowNothing' /\ IdentInv' /\ MessageInv'
  BY DEF TypeOK, DeadKnowNothing, Bound, IdentInv, Sole, MessageInv
<1>2. BoundAsAttached' /\ MainInv'
  BY DEF BoundAsAttached, Bound, MainInv, Binding, Sole
<1>3. \A p \in Proc, q \in Request : Posted(p, q)' = Posted(p, q)
  BY DEF Posted, By
<1>4. LockInv' /\ RequestInv'
  BY <1>3 DEF LockInv, RequestInv, RequestOK, Pending, Attached
<1> QED BY <1>1, <1>2, <1>4

LEMMA NextIInv == IInv /\ [Next]_vars => IInv'
<1> SUFFICES ASSUME IInv, [Next]_vars PROVE IInv'
  OBVIOUS
<1>1. CASE Environment
  <2>1. PICK p \in Proc : \/ Restore(p) \/ \E a \in Starts[p] : StartProcess(p, a)
                          \/ \E what \in {"work", "launch"} : Send(p, what)
                          \/ \E r \in Request, from \in Proc \union {Null} : Ask(r, p, from)
                          \/ Die(p)
    BY <1>1 DEF Environment
  <2>2. Starts[p] \subseteq App
    BY AppClientAssumption DEF AppClientAssumption
  <2> QED BY <2>1, <2>2, RestoreStep, StartProcessStep, SendStep, AskStep, DieStep
<1>2. ASSUME NEW p \in Proc, Server(p) PROVE IInv'
  BY <1>2, ProcessRestartedStep, StubNotFoundStep, SetTokenStep, SetVuidStep DEF Server
<1>3. ASSUME NEW p \in Proc, Main(p) PROVE IInv'
  BY <1>3, WorkStep, LaunchStep, RunBindStep, BindDataStep, InstallProvidersStep, OpenLockStep,
     ClearLockStep, ReturnStep DEF Main
<1>4. ASSUME NEW r \in Request, Binder(r) PROVE IInv'
  BY <1>4, LookAtLockStep, BlockStep, UnblockStep, LookIfBoundStep, AcquireStep DEF Binder
<1> QED BY <1>1, <1>2, <1>3, <1>4, Stutter DEF Next

THEOREM Invariance == Spec => []IInv
BY InitIInv, NextIInv, PTL DEF Spec

\* The variables have their types, and a main thread in a bind has the message it
\* is for.
THEOREM TypeCorrect == Spec => []TypeOK
<1>1. IInv => TypeOK
  BY DEF IInv
<1> QED BY <1>1, Invariance, PTL

\* A process is bound to what initProcess was called with, unless Android restored
\* it and the server started it (HCallbackStub.java:128-146,
\* VClientImpl.java:180-183).
THEOREM BoundAsAttachedAlways == Spec => []BoundAsAttached
<1>1. IInv => BoundAsAttached
  BY DEF IInv
<1> QED BY <1>1, Invariance, PTL

\* A provider is handed out before the providers of its process are installed only
\* to a request that slipped through between the lock and isBound
\* (VClientImpl.java:523-529).
THEOREM EarlyOnlyIfSlippedAlways == Spec => []EarlyOnlyIfSlipped
<1>1. IInv => EarlyOnlyIfSlipped
  BY DEF IInv, RequestInv, RequestOK, EarlyOnlyIfSlipped
<1> QED BY <1>1, Invariance, PTL

\* A lock that is waited for is open, or its bind is under way or on the queue
\* (VClientImpl.java:209-220, 524-526).
THEOREM AwaitedIsComingAlways == Spec => []AwaitedIsComing
<1>1. IInv => AwaitedIsComing
  <2> SUFFICES ASSUME IInv, NEW r \in Request
               PROVE  LET p == req[r].proc IN
                      /\ req[r].step = "wait" =>
                            \/ req[r].on \in opened
                            \/ main[p] \in {"data", "make", "open"} /\ lock[p] = req[r].on
                      /\ req[r].step = "posted" =>
                            \/ r \in opened
                            \/ \E i \in DOMAIN queue[p] : queue[p][i].what = "bind" /\ queue[p][i].by = r
    BY DEF AwaitedIsComing
  <2> DEFINE p == req[r].proc
  <2>1. RequestOK(r) /\ (req[r].step = "posted" => Pending(r) /\ p \in Proc)
    BY DEF IInv, RequestInv, RequestOK, Pending
  <2>2. p \in Proc => DOMAIN queue[p] = 1 .. Len(queue[p])
    BY DEF IInv, TypeOK
  <2> QED BY <2>1, <2>2 DEF RequestOK, Posted, By
<1> QED BY <1>1, Invariance, PTL

=============================================================================
