----------------------- MODULE ServiceLifecycle_proofs -----------------------
(* Proofs about ServiceLifecycle, for any processes, records and clients.   *)
EXTENDS ServiceLifecycle, FiniteSetTheorems, TLAPS

-----------------------------------------------------------------------------
(* The inductive invariant                                                 *)

\* The types, with the queues as sequences and what each step has in hand.
TypeInv ==
    /\ TypeOK
    /\ queue \in [Proc -> Seq(Message)]
    /\ pc = "create" => job.app \in Proc /\ job.op \in {"start", "bind"}
    /\ pc # "idle" /\ job.op # "start" => job.conn \in Conn
    /\ pc = "bind" => job.op = "bind"

\* Starts stay below the bound.
BoundInv ==
    /\ pc = "create" => \A r \in mHistory : sr[r].startId < MaxStart
    /\ \A r \in Svc : sr[r].proc = Null => sr[r].startId = 0

\* A process is named in a record, in the table or by an operation only once
\* it has been started, and has nothing left when it is dead.
Started(p) == p \in alive \/ notice[p] # "none"
BornInv ==
    /\ cur # Null => Started(cur)
    /\ pc = "create" => Started(job.app)
    /\ \A r \in Svc : sr[r].proc # Null => Started(sr[r].proc)
    /\ \A p \in alive : notice[p] = "none"
    /\ \A p \in Proc \ alive : queue[p] = <<>> /\ running[p] = {}

\* The message at place i of the queue of p.
Is(p, i, w, r) == i \in 1..Len(queue[p]) /\ queue[p][i].what = w /\ queue[p][i].svc = r

\* Whatever there is of a record is in the process of the record.
FiledInv ==
    /\ \A r \in mHistory \cup stopped : sr[r].proc # Null
    /\ stopped \cap mHistory = {}
    /\ \A p \in Proc : \A r \in running[p] : sr[r].proc = p
    /\ \A p \in Proc : upcall[p] # Null => sr[upcall[p].svc].proc = p
    /\ \A p \in Proc : \A i \in 1..Len(queue[p]) :
          /\ sr[queue[p][i].svc].proc # Null
          /\ queue[p][i].what # "args" => sr[queue[p][i].svc].proc = p

\* The process p has stopped r and says so.
Done(p, r) == upcall[p] # Null /\ upcall[p].op = "doneStop" /\ upcall[p].svc = r

\* The create of a record comes once and before all else.
CreateFirst ==
    \A p \in Proc, r \in Svc, i \in Nat : Is(p, i, "create", r) =>
        /\ r \notin running[p] /\ ~Done(p, r)
        /\ \A j \in Nat : Is(p, j, "create", r) => i = j
        /\ \A j \in Nat : Is(p, j, "stop", r) => i < j

\* Nothing is created and left to itself.
Tracked ==
    \A p \in Proc, r \in Svc :
        r \in running[p] \/ (\E i \in Nat : Is(p, i, "create", r)) =>
            r \in mHistory \/ \E j \in Nat : Is(p, j, "stop", r)

\* What is known is backed, and asked to stop only by unbindService.
Backed ==
    \A r \in mHistory, p \in Proc :
        /\ p = sr[r].proc /\ p \in alive =>
              r \in running[p] \/ Done(p, r) \/ \E i \in Nat : Is(p, i, "create", r)
        /\ Done(p, r) \/ (\E j \in Nat : Is(p, j, "stop", r)) => r \in unbindStop

\* A record whose stop has been worked off does not run.
DoneInv == \A p \in Proc, r \in Svc : Done(p, r) => r \notin running[p]

\* The arguments come after the create and before the stop.
ArgsInOrder ==
    \A p \in Proc, r \in Svc, i \in Nat :
        Is(p, i, "args", r) /\ sr[r].proc = p /\ r \notin unbindStop =>
            /\ r \in running[p] \/ \E j \in Nat : j < i /\ Is(p, j, "create", r)
            /\ \A j \in Nat : Is(p, j, "stop", r) => i < j

\* One instance is stopped before the next is created.
OneAtATime ==
    \A p \in Proc, r, s \in Svc :
        /\ r \in running[p] /\ s \in running[p] => r = s
        /\ \A k \in Nat : r \in running[p] /\ Is(p, k, "create", s) =>
              \E j \in Nat : j < k /\ Is(p, j, "stop", r)
        /\ \A i, k \in Nat : Is(p, i, "create", r) /\ Is(p, k, "create", s) /\ i < k =>
              \E j \in Nat : i < j /\ j < k /\ Is(p, j, "stop", r)

\* A connection is told of a service it is bound to.
ViewInv ==
    /\ \A c \in Conn : view[c] \in Svc => c \in sr[view[c]].conns
    /\ BelievedOnlyIfLate

IInv ==
    /\ TypeInv /\ BoundInv /\ BornInv /\ FiledInv
    /\ CreateFirst /\ Tracked /\ Backed /\ DoneInv /\ ArgsInOrder /\ OneAtATime
    /\ ViewInv

-----------------------------------------------------------------------------
(* Init and the queues                                                     *)

\* Initially there is nothing of any record.
LEMMA InitIInv == Init => IInv
<1> SUFFICES ASSUME Init PROVE IInv
  OBVIOUS
<1> USE ServiceLifecycleAssumption DEF ServiceLifecycleAssumption
<1>1. TypeInv
  BY DEF Init, TypeInv, TypeOK, Fields, Jobs, NoJob
<1>2. BoundInv /\ BornInv
  BY DEF Init, BoundInv, BornInv, Started, Fields
<1>3. FiledInv /\ DoneInv /\ ViewInv
  BY DEF Init, FiledInv, DoneInv, Done, ViewInv, BelievedOnlyIfLate
<1>4. CreateFirst /\ Tracked /\ Backed
  BY DEF Init, CreateFirst, Tracked, Backed, Is
<1>5. ArgsInOrder /\ OneAtATime
  BY DEF Init, ArgsInOrder, OneAtATime, Is
<1> QED BY <1>1, <1>2, <1>3, <1>4, <1>5 DEF IInv

\* Messages go to the end of a queue, and to no other.
LEMMA Scheduled ==
  ASSUME TypeInv, NEW p \in Proc, NEW m \in Seq(Message), Schedule(p, m)
  PROVE  /\ queue' \in [Proc -> Seq(Message)]
         /\ \A q \in Proc : q # p => queue'[q] = queue[q]
         /\ p \notin alive => queue' = queue
         /\ p \in alive => /\ Len(queue'[p]) = Len(queue[p]) + Len(m)
                           /\ \A i \in 1..Len(queue[p]) : queue'[p][i] = queue[p][i]
                           /\ \A i \in 1..Len(m) : queue'[p][Len(queue[p]) + i] = m[i]
<1>1. queue \in [Proc -> Seq(Message)]
  BY DEF TypeInv
<1>2. CASE p \in alive
  BY <1>1, <1>2 DEF Schedule
<1>3. CASE p \notin alive
  BY <1>1, <1>3 DEF Schedule
<1> QED BY <1>2, <1>3

-----------------------------------------------------------------------------
(* Steps that touch no queue                                               *)

\* A step of the table or of a thread's locals disturbs nothing of a record.
LEMMA Elsewhere ==
  ASSUME IInv, alive' \subseteq alive \cup {q \in Proc : queue[q] = <<>>},
         UNCHANGED <<mHistory, sr, app, view, hist>>
  PROVE  CreateFirst' /\ Tracked' /\ DoneInv' /\ ArgsInOrder' /\ OneAtATime' /\ ViewInv'
<1> USE DEF IInv, app, hist
<1>1. CreateFirst' /\ Tracked' /\ DoneInv'
  BY DEF CreateFirst, Tracked, DoneInv, Is, Done
<1>2. ArgsInOrder' /\ OneAtATime' /\ ViewInv'
  BY DEF ArgsInOrder, OneAtATime, ViewInv, BelievedOnlyIfLate, Is
<1> QED BY <1>1, <1>2

\* A process is found or started.
LEMMA AcquireStep ==
  ASSUME IInv, NEW j \in Jobs, j.op = "start" \/ (j.op = "bind" /\ j.conn \in Conn),
         pc = "idle", Calm, Acquire(j), pc' = "create",
         UNCHANGED <<mHistory, sr, app, view, hist>>
  PROVE  IInv'
<1> USE ServiceLifecycleAssumption DEF ServiceLifecycleAssumption, IInv, Acquire, app, hist
<1>1. PICK p \in Proc :
        /\ job' = [j EXCEPT !.app = p] /\ cur' = p
        /\ notice' = notice /\ buried' = buried
        /\ \/ p = cur /\ alive' = alive
           \/ notice[p] = "none" /\ p \notin alive /\ alive' = alive \cup {p}
  BY DEF table, TypeInv, TypeOK
<1>2. job' \in Jobs /\ job'.app = p /\ job'.op = j.op /\ job'.conn = j.conn
  BY <1>1 DEF Jobs
<1>3. TypeInv'
  BY <1>1, <1>2 DEF TypeInv, TypeOK
<1>4. BoundInv'
  BY DEF BoundInv, Calm
<1>5. BornInv'
  BY <1>1, <1>2 DEF BornInv, Started, TypeInv, TypeOK, Fields
<1>6. FiledInv'
  BY DEF FiledInv
<1>7. Backed'
  <2>1. \A r \in mHistory : r \in Svc /\ sr[r].proc # Null
    BY DEF TypeInv, TypeOK, FiledInv
  <2>2. \A r \in mHistory : sr[r].proc \in alive' => sr[r].proc \in alive
    BY <1>1, <2>1 DEF BornInv, Started
  <2> QED BY <2>2 DEF Backed, Is, Done
<1>8. CreateFirst' /\ Tracked' /\ DoneInv' /\ ArgsInOrder' /\ OneAtATime' /\ ViewInv'
  BY <1>1, Elsewhere DEF BornInv
<1> QED BY <1>3, <1>4, <1>5, <1>6, <1>7, <1>8

\* A start begins.
LEMMA StartServiceStep ==
  ASSUME IInv, StartService
  PROVE  IInv'
<1> DEFINE j == [NoJob EXCEPT !.op = "start"]
<1>1. j \in Jobs /\ j.op = "start"
  BY DEF NoJob, Jobs
<1>2. Acquire(j)
  BY DEF StartService
<1> HIDE DEF j
<1> QED BY <1>1, <1>2, AcquireStep DEF StartService

\* A bind begins.
LEMMA BindServiceStep ==
  ASSUME IInv, NEW c \in Conn, BindService(c)
  PROVE  IInv'
<1> DEFINE j == [NoJob EXCEPT !.op = "bind", !.conn = c]
<1>1. j \in Jobs /\ j.op = "bind" /\ j.conn = c
  BY DEF NoJob, Jobs
<1> HIDE DEF j
<1>2. CASE pc' = "create" /\ Acquire(j)
  BY <1>1, <1>2, AcquireStep DEF BindService, j
<1>3. CASE pc' = "bind" /\ job' = j /\ UNCHANGED table
  <2>1. UNCHANGED <<table, mHistory, sr, app, view, hist>>
    BY <1>3 DEF BindService
  <2>2. TypeInv' /\ BoundInv' /\ BornInv' /\ FiledInv'
    BY <1>1, <1>3, <2>1
    DEF IInv, TypeInv, TypeOK, BoundInv, BornInv, FiledInv, Started, table, app, hist
  <2>3. Backed'
    BY <2>1 DEF IInv, Backed, Is, Done, table, app, hist
  <2>4. CreateFirst' /\ Tracked' /\ DoneInv' /\ ArgsInOrder' /\ OneAtATime' /\ ViewInv'
    BY <2>1, Elsewhere DEF table
  <2> QED BY <2>2, <2>3, <2>4 DEF IInv
<1> QED BY <1>2, <1>3 DEF BindService, j

\* A death frees the name.
LEMMA BinderDiedStep ==
  ASSUME IInv, NEW p \in Proc, BinderDied(p)
  PROVE  IInv'
<1>1. TypeInv' /\ BoundInv' /\ BornInv' /\ FiledInv'
  BY ServiceLifecycleAssumption
  DEF IInv, TypeInv, TypeOK, BoundInv, BornInv, FiledInv, Started, BinderDied, server, app, hist
<1>2. Backed'
  BY DEF IInv, Backed, Is, Done, BinderDied, app, hist
<1>3. CreateFirst' /\ Tracked' /\ DoneInv' /\ ArgsInOrder' /\ OneAtATime' /\ ViewInv'
  BY Elsewhere DEF BinderDied
<1> QED BY <1>1, <1>2, <1>3 DEF IInv

\* A death drops the records of the process, of which nothing is left.
LEMMA ProcessDeadStep ==
  ASSUME IInv, NEW p \in Proc, ProcessDead(p)
  PROVE  IInv'
<1> USE DEF IInv, ProcessDead, server, app, hist
<1>1. TypeInv' /\ BoundInv' /\ BornInv' /\ FiledInv'
  BY DEF TypeInv, TypeOK, BoundInv, BornInv, FiledInv, Started
<1>2. p \notin alive /\ queue[p] = <<>> /\ running[p] = {}
  BY DEF BornInv
<1>3. CreateFirst' /\ DoneInv'
  BY DEF CreateFirst, DoneInv, Is, Done
<1>4. Tracked'
  <2> SUFFICES ASSUME NEW q \in Proc, NEW r \in Svc,
                      r \in running[q] \/ (\E i \in Nat : Is(q, i, "create", r))
               PROVE  r \in mHistory' \/ \E j \in Nat : Is(q, j, "stop", r)
    BY DEF Tracked, Is
  <2>1. q # p /\ sr[r].proc = q
    BY <1>2 DEF Is, FiledInv
  <2> QED BY <2>1 DEF Tracked
<1>5. Backed'
  BY DEF Backed, Is, Done
<1>6. ArgsInOrder' /\ OneAtATime' /\ ViewInv'
  BY DEF ArgsInOrder, OneAtATime, ViewInv, BelievedOnlyIfLate, Is
<1> QED BY <1>1, <1>3, <1>4, <1>5, <1>6

\* A client's death takes its connection with it.
LEMMA ConnectionDiedStep ==
  ASSUME IInv, NEW c \in Conn, ConnectionDied(c)
  PROVE  IInv'
<1> USE ServiceLifecycleAssumption
    DEF ServiceLifecycleAssumption, IInv, ConnectionDied, table, server, app, hist
<1>1. \A r \in Svc : /\ sr'[r] \in Fields
                     /\ sr'[r].proc = sr[r].proc /\ sr'[r].startId = sr[r].startId
                     /\ sr'[r].conns = sr[r].conns \ {c}
  <2> SUFFICES ASSUME NEW r \in Svc
               PROVE  /\ sr'[r] \in Fields
                      /\ sr'[r].proc = sr[r].proc /\ sr'[r].startId = sr[r].startId
                      /\ sr'[r].conns = sr[r].conns \ {c}
    OBVIOUS
  <2>1. sr[r] \in Fields /\ sr'[r] = [sr[r] EXCEPT !.conns = @ \ {c}]
    BY DEF TypeInv, TypeOK
  <2> QED BY <2>1 DEF Fields
<1>2. TypeInv'
  BY <1>1 DEF TypeInv, TypeOK
<1>8. UNCHANGED <<table, server, mHistory, app, hist>>
  OBVIOUS
<1> HIDE DEF ConnectionDied
<1>3. BoundInv' /\ BornInv'
  BY <1>8, <1>1 DEF TypeInv, TypeOK, BoundInv, BornInv, Started
<1>7. FiledInv'
  <2>1. \A q \in Proc : \A i \in 1..Len(queue[q]) : queue[q][i].svc \in Svc
    <3>1. queue \in [Proc -> Seq(Message)] /\ \A m \in Message : m.svc \in Svc
      BY DEF TypeInv, Message
    <3> QED BY <3>1
  <2>2. \A q \in Proc : upcall[q] # Null => upcall[q].svc \in Svc
    BY DEF TypeInv, TypeOK, Upcalls
  <2>3. mHistory \cup stopped \subseteq Svc /\ \A q \in Proc : running[q] \subseteq Svc
    BY DEF TypeInv, TypeOK
  <2> QED BY <1>8, <1>1, <2>1, <2>2, <2>3 DEF FiledInv
<1>4. CreateFirst' /\ Tracked' /\ DoneInv' /\ OneAtATime'
  <2>1. CreateFirst' /\ Tracked'
    BY <1>8 DEF CreateFirst, Tracked, Is, Done
  <2>2. DoneInv' /\ OneAtATime'
    BY <1>8, SMTT(30) DEF DoneInv, OneAtATime, Is, Done
  <2> QED BY <2>1, <2>2
<1>5. Backed' /\ ArgsInOrder'
  <2>1. \A r \in mHistory : r \in Svc
    BY DEF TypeInv, TypeOK
  <2>2. Backed'
    BY <1>8, <1>1, <2>1 DEF Backed, Is, Done
  <2>3. ArgsInOrder'
    BY <1>8, <1>1 DEF ArgsInOrder, Is
  <2> QED BY <2>2, <2>3
<1>6. ViewInv'
  BY <1>8, <1>1 DEF ViewInv, BelievedOnlyIfLate, TypeInv, TypeOK, ConnectionDied
<1> QED BY <1>2, <1>3, <1>4, <1>5, <1>6, <1>7

\* The server serves a call of a main thread.
LEMMA UpcallStep ==
  ASSUME IInv, NEW p \in Proc, Upcall(p)
  PROVE  IInv'
<1> USE ServiceLifecycleAssumption
    DEF ServiceLifecycleAssumption, IInv, table, server, app, hist
<1> DEFINE r == upcall[p].svc
<1>1. /\ r \in Svc /\ upcall[p] # Null /\ sr[r].proc = p
      /\ \A s \in Svc : Done(p, s) => s = r
  BY DEF Upcall, TypeInv, TypeOK, FiledInv, Upcalls, Done
<1>2. /\ \A s \in Svc : /\ sr'[s] \in Fields
                       /\ sr'[s].proc = sr[s].proc /\ sr'[s].startId = sr[s].startId
                       /\ sr'[s].conns = sr[s].conns
      /\ sr' \in [Svc -> Fields]
  <2>1. sr' = sr \/ sr' = [sr EXCEPT ![r].binder = TRUE] \/ sr' = [sr EXCEPT ![r].doRebind = TRUE]
    BY DEF Upcall, PublishService, UnbindFinished, ServiceDoneExecuting
  <2>2. sr \in [Svc -> Fields]
    BY DEF TypeInv, TypeOK
  <2>3. CASE sr' = sr
    BY <2>2, <2>3
  <2>4. CASE sr' = [sr EXCEPT ![r].binder = TRUE]
    <3>1. sr[r] \in Fields /\ sr'[r] = [sr[r] EXCEPT !.binder = TRUE]
          /\ \A s \in Svc : s # r => sr'[s] = sr[s] /\ sr[s] \in Fields
      BY <2>2, <2>4, <1>1
    <3>2. sr'[r] \in Fields /\ sr'[r].proc = sr[r].proc /\ sr'[r].startId = sr[r].startId
          /\ sr'[r].conns = sr[r].conns
      BY <3>1 DEF Fields
    <3> QED BY <2>2, <2>4, <3>1, <3>2
  <2>5. CASE sr' = [sr EXCEPT ![r].doRebind = TRUE]
    <3>1. sr[r] \in Fields /\ sr'[r] = [sr[r] EXCEPT !.doRebind = TRUE]
          /\ \A s \in Svc : s # r => sr'[s] = sr[s] /\ sr[s] \in Fields
      BY <2>2, <2>5, <1>1
    <3>2. sr'[r] \in Fields /\ sr'[r].proc = sr[r].proc /\ sr'[r].startId = sr[r].startId
          /\ sr'[r].conns = sr[r].conns
      BY <3>1 DEF Fields
    <3> QED BY <2>2, <2>5, <3>1, <3>2
  <2> QED BY <2>1, <2>3, <2>4, <2>5
<1>3. /\ pc = "idle" /\ upcall' = [upcall EXCEPT ![p] = Null]
      /\ UNCHANGED <<table, server, queue, running, unbindStop, stopped>>
      /\ \/ mHistory' = mHistory /\ ~Done(p, r)
         \/ mHistory' = mHistory \ {r} /\ Done(p, r)
  BY <1>1 DEF Upcall, PublishService, UnbindFinished, ServiceDoneExecuting, Done
<1>4. \/ view' = view /\ late' = late
      \/ /\ view' = [c \in Conn |-> IF c \in sr[r].conns THEN r ELSE view[c]]
         /\ late' = late \cup ({r} \cap stopped)
  BY DEF Upcall, PublishService, UnbindFinished, ServiceDoneExecuting
<1> HIDE DEF r
<1>5. TypeInv'
  <2>1. view' \in [Conn -> Svc \cup {"down", Null}] /\ late' \subseteq Svc
    <3>1. view \in [Conn -> Svc \cup {"down", Null}] /\ late \subseteq Svc
      BY DEF TypeInv, TypeOK
    <3> QED BY <1>1, <1>4, <3>1
  <2>2. mHistory' \subseteq Svc /\ upcall' \in [Proc -> Upcalls \cup {Null}]
    BY <1>3 DEF TypeInv, TypeOK
  <2> QED BY <1>2, <1>3, <2>1, <2>2 DEF TypeInv, TypeOK
<1>6. BoundInv' /\ BornInv'
  BY <1>2, <1>3 DEF TypeInv, TypeOK, BoundInv, BornInv, Started
<1>7. FiledInv'
  <2>1. \A q \in Proc : \A i \in 1..Len(queue[q]) : queue[q][i].svc \in Svc
    <3>1. queue \in [Proc -> Seq(Message)] /\ \A m \in Message : m.svc \in Svc
      BY DEF TypeInv, Message
    <3> QED BY <3>1
  <2>2. \A q \in Proc : upcall[q] # Null => upcall[q].svc \in Svc
    BY DEF TypeInv, TypeOK, Upcalls
  <2>8. \A q \in Proc : upcall'[q] = Null \/ upcall'[q] = upcall[q]
    BY <1>3 DEF TypeInv, TypeOK
  <2>3. mHistory \cup stopped \subseteq Svc /\ \A q \in Proc : running[q] \subseteq Svc
    BY DEF TypeInv, TypeOK
  <2>4. /\ \A s \in mHistory' \cup stopped' : sr'[s].proc # Null
        /\ stopped' \cap mHistory' = {}
    BY <1>2, <1>3, <2>3 DEF FiledInv
  <2>5. \A q \in Proc : \A s \in running'[q] : sr'[s].proc = q
    BY <1>2, <1>3, <2>3 DEF FiledInv
  <2>7. \A q \in Proc : upcall'[q] # Null => sr'[upcall'[q].svc].proc = q
    <3> SUFFICES ASSUME NEW q \in Proc, upcall'[q] # Null
                 PROVE  sr'[upcall'[q].svc].proc = q
      OBVIOUS
    <3>1. upcall'[q] = upcall[q]
      BY <2>8
    <3>2. upcall[q] # Null
      BY <3>1
    <3>3. upcall[q].svc \in Svc /\ sr[upcall[q].svc].proc = q
      BY <2>2, <3>2 DEF FiledInv
    <3> QED BY <1>2, <3>1, <3>3
  <2>6. \A q \in Proc : \A i \in 1..Len(queue'[q]) :
          /\ sr'[queue'[q][i].svc].proc # Null
          /\ queue'[q][i].what # "args" => sr'[queue'[q][i].svc].proc = q
    BY <1>2, <1>3, <2>1 DEF FiledInv
  <2> QED BY <2>4, <2>5, <2>6, <2>7, ZenonT(30) DEF FiledInv
<1>8. \A q \in Proc, s \in Svc : Done(q, s)' <=> (Done(q, s) /\ q # p)
  BY <1>3 DEF Done, TypeInv, TypeOK
<1>9. CreateFirst' /\ DoneInv' /\ OneAtATime'
  BY <1>3, <1>8, SMTT(30) DEF CreateFirst, DoneInv, OneAtATime, Is
<1>10. Tracked'
  <2> SUFFICES ASSUME NEW q \in Proc, NEW s \in Svc,
                      s \in running[q] \/ (\E i \in Nat : Is(q, i, "create", s))
               PROVE  s \in mHistory' \/ \E j \in Nat : Is(q, j, "stop", s)
    BY <1>3 DEF Tracked, Is
  <2>1. sr[s].proc = q
    BY DEF Is, FiledInv
  <2>2. Done(p, r) => s # r
    BY <1>1, <2>1 DEF DoneInv, CreateFirst
  <2> QED BY <1>3, <2>2 DEF Tracked
<1>11. Backed'
  <2>1. \A s \in mHistory' : s \in mHistory /\ s \in Svc
    BY <1>3 DEF TypeInv, TypeOK
  <2>2. \A q \in Proc, s \in mHistory' : Done(q, s) => Done(q, s)'
    BY <1>1, <1>3, <1>8, <2>1
  <2> QED BY <1>2, <1>3, <1>8, <2>1, <2>2 DEF Backed, Is
<1>12. ArgsInOrder'
  BY <1>2, <1>3 DEF ArgsInOrder, Is
<1>13. ViewInv'
  <2>1. view \in [Conn -> Svc \cup {"down", Null}]
    BY DEF TypeInv, TypeOK
  <2>2. \A c \in Conn : view'[c] \in Svc => c \in sr'[view'[c]].conns
    BY <1>1, <1>2, <1>4, <2>1 DEF ViewInv
  <2>3. BelievedOnlyIfLate'
    BY <1>1, <1>3, <1>4, <2>1 DEF ViewInv, BelievedOnlyIfLate
  <2> QED BY <2>2, <2>3 DEF ViewInv
<1> QED BY <1>5, <1>6, <1>7, <1>9, <1>10, <1>11, <1>12, <1>13

\* A process dies with its messages and its services.
LEMMA DieStep ==
  ASSUME IInv, NEW p \in Proc, Die(p)
  PROVE  IInv'
<1> USE DEF IInv, server, hist
<1>1. /\ p \in alive /\ alive' = alive \ {p} /\ notice' = [notice EXCEPT ![p] = "due"]
      /\ queue' = [queue EXCEPT ![p] = <<>>] /\ running' = [running EXCEPT ![p] = {}]
      /\ UNCHANGED <<cur, buried, server, mHistory, sr, upcall, view, hist>>
  BY DEF Die
<1>2. TypeInv'
  BY <1>1 DEF TypeInv, TypeOK
<1>3. /\ queue'[p] = <<>> /\ running'[p] = {}
      /\ \A q \in Proc : q # p => queue'[q] = queue[q] /\ running'[q] = running[q]
  BY <1>1 DEF TypeInv, TypeOK
<1>4. BoundInv' /\ FiledInv'
  BY <1>1, <1>3 DEF BoundInv, FiledInv
<1>5. BornInv'
  BY <1>1, <1>3 DEF BornInv, Started, TypeInv, TypeOK
<1>6. CreateFirst' /\ DoneInv'
  BY <1>1, <1>3 DEF CreateFirst, DoneInv, Is, Done
<1>7. Tracked' /\ Backed'
  BY <1>1, <1>3 DEF Tracked, Backed, Is, Done
<1>8. \A q \in Proc, i \in Nat : \A w, r : Is(q, i, w, r)' <=> q # p /\ Is(q, i, w, r)
  BY <1>1, <1>3 DEF Is
<1>9. ArgsInOrder'
  BY <1>1, <1>3, <1>8 DEF ArgsInOrder
<1>10. OneAtATime'
  BY <1>1, <1>3, <1>8 DEF OneAtATime
<1>11. ViewInv'
  BY <1>1, <1>3 DEF ViewInv, BelievedOnlyIfLate
<1> QED BY <1>2, <1>4, <1>5, <1>6, <1>7, <1>9, <1>10, <1>11

-----------------------------------------------------------------------------
(* Steps that schedule messages                                            *)

\* What a queue holds after messages went to its end.
LEMMA ScheduledIs ==
  ASSUME TypeInv, NEW p \in Proc, NEW m \in Seq(Message), Schedule(p, m)
  PROVE  \A q \in Proc, i \in Nat : \A w, r :
            Is(q, i, w, r)' <=>
               \/ Is(q, i, w, r)
               \/ /\ q = p /\ p \in alive
                  /\ \E k \in 1..Len(m) :
                        i = Len(queue[p]) + k /\ m[k].what = w /\ m[k].svc = r
<1> USE Scheduled
<1>1. queue \in [Proc -> Seq(Message)] /\ queue' \in [Proc -> Seq(Message)]
  BY DEF TypeInv
<1> SUFFICES ASSUME NEW q \in Proc, NEW i \in Nat, NEW w, NEW r
             PROVE  Is(q, i, w, r)' <=>
                       \/ Is(q, i, w, r)
                       \/ /\ q = p /\ p \in alive
                          /\ \E k \in 1..Len(m) :
                                i = Len(queue[p]) + k /\ m[k].what = w /\ m[k].svc = r
  OBVIOUS
<1>2. CASE q # p \/ p \notin alive
  BY <1>1, <1>2 DEF Is
<1>3. CASE q = p /\ p \in alive
  <2>1. Len(queue[p]) \in Nat /\ Len(m) \in Nat /\ Len(queue'[p]) = Len(queue[p]) + Len(m)
    BY <1>1, <1>3
  <2>2. CASE i \in 1..Len(queue[p])
    BY <1>3, <2>1, <2>2 DEF Is
  <2>3. CASE i \notin 1..Len(queue'[p])
    BY <1>3, <2>1, <2>3 DEF Is
  <2>4. CASE i \in (Len(queue[p]) + 1)..Len(queue'[p])
    <3>1. PICK k \in 1..Len(m) : i = Len(queue[p]) + k
      <4>1. i - Len(queue[p]) \in 1..Len(m) /\ i = Len(queue[p]) + (i - Len(queue[p]))
        BY <2>1, <2>4
      <4> QED BY <4>1
    <3>2. queue'[p][i] = m[k]
      BY <1>3, <3>1
    <3>3. \A l \in 1..Len(m) : i = Len(queue[p]) + l => l = k
      BY <2>1, <3>1
    <3> QED BY <1>3, <2>1, <2>4, <3>1, <3>2, <3>3 DEF Is
  <2> QED BY <2>1, <2>2, <2>3, <2>4
<1> QED BY <1>2, <1>3

\* Messages go only to processes of their services, and leave FiledInv as it is.
LEMMA ScheduledFiled ==
  ASSUME TypeInv, FiledInv, NEW p \in Proc, NEW m \in Seq(Message), Schedule(p, m),
         \A s \in Svc : sr[s].proc # Null => sr'[s].proc = sr[s].proc,
         \A k \in 1..Len(m) : sr'[m[k].svc].proc # Null
                              /\ (m[k].what # "args" => sr'[m[k].svc].proc = p)
  PROVE  \A q \in Proc : \A i \in 1..Len(queue'[q]) :
            /\ sr'[queue'[q][i].svc].proc # Null
            /\ queue'[q][i].what # "args" => sr'[queue'[q][i].svc].proc = q
<1>1. queue \in [Proc -> Seq(Message)] /\ queue' \in [Proc -> Seq(Message)]
  BY Scheduled DEF TypeInv
<1> SUFFICES ASSUME NEW q \in Proc, NEW i \in 1..Len(queue'[q])
             PROVE  /\ sr'[queue'[q][i].svc].proc # Null
                    /\ queue'[q][i].what # "args" => sr'[queue'[q][i].svc].proc = q
  OBVIOUS
<1>2. CASE i \in 1..Len(queue[q]) /\ queue'[q][i] = queue[q][i]
  <2>1. queue[q][i].svc \in Svc
    <3>1. queue[q][i] \in Message
      BY <1>1, <1>2
    <3> QED BY <3>1 DEF Message
  <2> QED BY <1>2, <2>1, SMTT(30) DEF FiledInv
<1>3. CASE q = p /\ \E k \in 1..Len(m) : queue'[q][i] = m[k]
  BY <1>3
<1>4. \/ i \in 1..Len(queue[q]) /\ queue'[q][i] = queue[q][i]
      \/ q = p /\ \E k \in 1..Len(m) : queue'[q][i] = m[k]
  <2>1. CASE q # p \/ p \notin alive
    BY <2>1, Scheduled
  <2>2. CASE q = p /\ p \in alive
    <3>1. Len(queue[p]) \in Nat /\ Len(m) \in Nat /\ Len(queue'[p]) = Len(queue[p]) + Len(m)
      BY <1>1, <2>2, Scheduled
    <3>2. CASE i \in 1..Len(queue[p])
      BY <2>2, <3>2, Scheduled
    <3>3. CASE i \notin 1..Len(queue[p])
      <4>1. i - Len(queue[p]) \in 1..Len(m) /\ i = Len(queue[p]) + (i - Len(queue[p]))
        BY <2>2, <3>1, <3>3
      <4>2. PICK k \in 1..Len(m) : i = Len(queue[p]) + k
        BY <4>1
      <4>3. queue'[p][Len(queue[p]) + k] = m[k]
        BY <2>2, Scheduled
      <4> QED BY <2>2, <4>2, <4>3
    <3> QED BY <3>2, <3>3
  <2> QED BY <2>1, <2>2
<1> QED BY <1>2, <1>3, <1>4

\* Messages of a bind, an unbind or a rebind disturb no create, stop or args.
LEMMA Harmless ==
  ASSUME IInv, NEW p \in Proc, NEW m \in Seq(Message), Schedule(p, m),
         \A k \in 1..Len(m) : m[k].what \notin {"create", "args", "stop"},
         UNCHANGED <<mHistory, alive, running, upcall>>,
         \A s \in Svc : sr'[s].proc = sr[s].proc, unbindStop' = unbindStop
  PROVE  CreateFirst' /\ Tracked' /\ Backed' /\ DoneInv' /\ ArgsInOrder' /\ OneAtATime'
<1>0. \A q \in Proc, i \in Nat : \A w, s :
         Is(q, i, w, s)' <=>
            \/ Is(q, i, w, s)
            \/ /\ q = p /\ p \in alive
               /\ \E k \in 1..Len(m) :
                     i = Len(queue[p]) + k /\ m[k].what = w /\ m[k].svc = s
  BY ScheduledIs DEF IInv
<1>1. \A q \in Proc, i \in Nat, w \in {"create", "args", "stop"}, r \in Svc :
         Is(q, i, w, r)' <=> Is(q, i, w, r)
  <2> SUFFICES ASSUME NEW q \in Proc, NEW i \in Nat, NEW w \in {"create", "args", "stop"},
                      NEW r \in Svc
               PROVE  Is(q, i, w, r)' <=> Is(q, i, w, r)
    OBVIOUS
  <2>1. \A k \in 1..Len(m) : m[k].what # w
    OBVIOUS
  <2>2. \/ Is(q, i, w, r)' <=> Is(q, i, w, r)
        \/ \E k \in 1..Len(m) : m[k].what = w
    BY <1>0
  <2> QED BY <2>1, <2>2
<1>2. \A q \in Proc, r \in Svc : Done(q, r)' <=> Done(q, r)
  BY DEF Done
<1>3. mHistory \subseteq Svc
  BY DEF IInv, TypeInv, TypeOK
<1>4. CreateFirst' /\ Tracked' /\ DoneInv'
  BY <1>1, <1>2 DEF IInv, CreateFirst, Tracked, DoneInv
<1>5. Backed' /\ ArgsInOrder'
  BY <1>1, <1>2, <1>3 DEF IInv, Backed, ArgsInOrder
<1>6. OneAtATime'
  BY <1>1 DEF IInv, OneAtATime
<1> QED BY <1>4, <1>5, <1>6

\* Of what matters, only stops are added, and behind all the rest.
LEMMA StopIs ==
  ASSUME IInv, NEW r \in Svc, NEW m \in Seq(Message), NEW p \in Proc, p = sr[r].proc,
         Schedule(p, m),
         \A k \in 1..Len(m) : m[k].svc = r /\ m[k].what \in {"unbind", "stop"}
  PROVE  /\ \A q \in Proc, i \in Nat, w \in {"create", "args"}, s \in Svc :
               Is(q, i, w, s)' <=> Is(q, i, w, s)
         /\ \A q \in Proc, i \in Nat, s \in Svc :
               /\ Is(q, i, "stop", s) => Is(q, i, "stop", s)'
               /\ Is(q, i, "stop", s)' =>
                     Is(q, i, "stop", s) \/ (s = r /\ i > Len(queue[q]))
         /\ \A q \in Proc, i \in Nat, w \in {"create", "args", "stop"}, s \in Svc :
            Is(q, i, w, s) => i <= Len(queue[q])
         /\ \A q \in Proc : Len(queue[q]) \in Nat
<1>0. \A q \in Proc, i \in Nat : \A w, s :
         Is(q, i, w, s)' <=>
            \/ Is(q, i, w, s)
            \/ /\ q = p /\ p \in alive
               /\ \E k \in 1..Len(m) :
                     i = Len(queue[p]) + k /\ m[k].what = w /\ m[k].svc = s
  BY ScheduledIs DEF IInv
<1>1. ASSUME NEW q \in Proc, NEW i \in Nat, NEW w \in {"create", "args"}, NEW s \in Svc
      PROVE  Is(q, i, w, s)' <=> Is(q, i, w, s)
  <2>1. \A k \in 1..Len(m) : m[k].what # w
    OBVIOUS
  <2>2. \/ Is(q, i, w, s)' <=> Is(q, i, w, s)
        \/ \E k \in 1..Len(m) : m[k].what = w
    BY <1>0
  <2> QED BY <2>1, <2>2
<1>2. \A q \in Proc : Len(queue[q]) \in Nat
  BY DEF IInv, TypeInv
<1>3. ASSUME NEW q \in Proc, NEW i \in Nat, NEW s \in Svc
      PROVE  /\ Is(q, i, "stop", s) => Is(q, i, "stop", s)'
             /\ Is(q, i, "stop", s)' => Is(q, i, "stop", s) \/ (s = r /\ i > Len(queue[q]))
  <2>1. \/ Is(q, i, "stop", s)' <=> Is(q, i, "stop", s)
        \/ \E k \in 1..Len(m) : q = p /\ i = Len(queue[p]) + k /\ m[k].svc = s
    BY <1>0, SMTT(30)
  <2>2. (\E k \in 1..Len(m) : q = p /\ i = Len(queue[p]) + k /\ m[k].svc = s)
           => s = r /\ i > Len(queue[q])
    BY <1>2
  <2>3. Is(q, i, "stop", s) => Is(q, i, "stop", s)'
    BY <1>0
  <2> QED BY <2>1, <2>2, <2>3
<1>4. \A q \in Proc, i \in Nat, w \in {"create", "args", "stop"}, s \in Svc :
            Is(q, i, w, s) => i <= Len(queue[q])
  BY DEF Is, IInv, TypeInv
<1> QED BY <1>1, <1>2, <1>3, <1>4

\* A stop goes behind whatever a record has waiting, and its record is given up
\* or known to be asked to stop.
LEMMA StopScheduled ==
  ASSUME IInv, NEW r \in Svc, NEW m \in Seq(Message), NEW p \in Proc, p = sr[r].proc,
         Schedule(p, m),
         \A k \in 1..Len(m) : m[k].svc = r /\ m[k].what \in {"unbind", "stop"},
         \E k \in 1..Len(m) : m[k].what = "stop",
         UNCHANGED <<alive, running, upcall>>,
         mHistory' \subseteq mHistory, mHistory \subseteq mHistory' \cup {r},
         \A s \in Svc : sr'[s].proc = sr[s].proc,
         unbindStop \subseteq unbindStop', r \in unbindStop' \/ r \notin mHistory'
  PROVE  CreateFirst' /\ Tracked' /\ Backed' /\ DoneInv'
<1>0. \A q \in Proc, i \in Nat : \A w, s :
         Is(q, i, w, s)' <=>
            \/ Is(q, i, w, s)
            \/ /\ q = p /\ p \in alive
               /\ \E k \in 1..Len(m) :
                     i = Len(queue[p]) + k /\ m[k].what = w /\ m[k].svc = s
  BY ScheduledIs DEF IInv
<1>1. /\ \A q \in Proc, i \in Nat, s \in Svc : Is(q, i, "create", s)' <=> Is(q, i, "create", s)
      /\ \A q \in Proc, i \in Nat, s \in Svc :
            /\ Is(q, i, "stop", s) => Is(q, i, "stop", s)'
            /\ Is(q, i, "stop", s)' =>
                  Is(q, i, "stop", s) \/ (s = r /\ i > Len(queue[q]))
      /\ \A q \in Proc, i \in Nat, w \in {"create", "args", "stop"}, s \in Svc :
            Is(q, i, w, s) => i <= Len(queue[q])
      /\ \A q \in Proc : Len(queue[q]) \in Nat
  BY StopIs
<1>4. p \in alive => \E i \in Nat : Is(p, i, "stop", r)'
  <2> SUFFICES ASSUME p \in alive PROVE \E i \in Nat : Is(p, i, "stop", r)'
    OBVIOUS
  <2>1. PICK k \in 1..Len(m) : m[k].what = "stop" /\ m[k].svc = r
    OBVIOUS
  <2>2. Len(queue[p]) + k \in Nat
    BY <2>1 DEF IInv, TypeInv
  <2>3. PICK l \in Nat : l = Len(queue[p]) + k
    BY <2>2
  <2>4. Is(p, l, "stop", r)' <=>
            \/ Is(p, l, "stop", r)
            \/ /\ p \in alive
               /\ \E h \in 1..Len(m) :
                     l = Len(queue[p]) + h /\ m[h].what = "stop" /\ m[h].svc = r
    BY <1>0, SMTT(30)
  <2>5. Is(p, l, "stop", r)'
    BY <2>1, <2>3, <2>4
  <2> QED BY <2>5
<1>5. \A q \in Proc, s \in Svc : Done(q, s)' <=> Done(q, s)
  BY DEF Done
<1>7. CreateFirst'
  BY <1>1, <1>5 DEF IInv, CreateFirst
<1>8. Tracked'
  <2> SUFFICES ASSUME NEW q \in Proc, NEW s \in Svc,
                      s \in running[q] \/ (\E i \in Nat : Is(q, i, "create", s))
               PROVE  s \in mHistory' \/ \E j \in Nat : Is(q, j, "stop", s)'
    BY <1>1 DEF Tracked
  <2>1. sr[s].proc = q /\ q \in alive
    BY DEF IInv, FiledInv, BornInv, Is
  <2>2. s \in mHistory \/ \E j \in Nat : Is(q, j, "stop", s)
    BY DEF IInv, Tracked
  <2> QED BY <1>1, <1>4, <2>1, <2>2
<1>9. Backed'
  <2>1. \A s \in mHistory' : s \in mHistory /\ s \in Svc
    BY DEF IInv, TypeInv, TypeOK
  <2> QED BY <1>1, <1>5, <2>1 DEF IInv, Backed
<1>10. DoneInv'
  BY <1>5 DEF IInv, DoneInv
<1> QED BY <1>7, <1>8, <1>9, <1>10

\* Nor does a stop overtake arguments, or a second instance it.
LEMMA StopInOrder ==
  ASSUME IInv, NEW r \in Svc, NEW m \in Seq(Message), NEW p \in Proc, p = sr[r].proc,
         Schedule(p, m),
         \A k \in 1..Len(m) : m[k].svc = r /\ m[k].what \in {"unbind", "stop"},
         UNCHANGED running, \A s \in Svc : sr'[s].proc = sr[s].proc,
         unbindStop \subseteq unbindStop'
  PROVE  ArgsInOrder' /\ OneAtATime'
<1>1. /\ \A q \in Proc, i \in Nat, w \in {"create", "args"}, s \in Svc :
            Is(q, i, w, s)' <=> Is(q, i, w, s)
      /\ \A q \in Proc, i \in Nat, s \in Svc :
            /\ Is(q, i, "stop", s) => Is(q, i, "stop", s)'
            /\ Is(q, i, "stop", s)' => Is(q, i, "stop", s) \/ i > Len(queue[q])
      /\ \A q \in Proc, i \in Nat, w \in {"create", "args", "stop"}, s \in Svc :
            Is(q, i, w, s) => i <= Len(queue[q])
      /\ \A q \in Proc : Len(queue[q]) \in Nat
  BY StopIs
<1>6. ArgsInOrder'
  BY <1>1 DEF IInv, ArgsInOrder
<1>7. OneAtATime'
  BY <1>1 DEF IInv, OneAtATime
<1> QED BY <1>6, <1>7

\* The lists of messages that are scheduled.
LEMMA OneMessage ==
  ASSUME NEW w \in {"create", "args", "bind", "rebind", "unbind", "stop"}, NEW r \in Svc,
         NEW n \in 0..MaxStart
  PROVE  /\ <<Msg(w, r, n)>> \in Seq(Message) /\ Len(<<Msg(w, r, n)>>) = 1
         /\ Msg(w, r, n).what = w /\ Msg(w, r, n).svc = r
         /\ \A k \in 1..Len(<<Msg(w, r, n)>>) : <<Msg(w, r, n)>>[k] = Msg(w, r, n)
<1>1. Msg(w, r, n) \in Message /\ Msg(w, r, n).what = w /\ Msg(w, r, n).svc = r
  BY DEF Msg, Message
<1> QED BY <1>1

LEMMA UnbindStop ==
  ASSUME NEW r \in Svc, NEW m, m = <<Msg("unbind", r, 0), Msg("stop", r, 0)>>
  PROVE  /\ m \in Seq(Message) /\ Len(m) = 2
         /\ m[1].what = "unbind" /\ m[1].svc = r /\ m[2].what = "stop" /\ m[2].svc = r
         /\ \A k \in 1..Len(m) : m[k].what \in {"unbind", "stop"} /\ m[k].svc = r
<1>1. 0 \in 0..MaxStart
  BY ServiceLifecycleAssumption DEF ServiceLifecycleAssumption
<1>2. Msg("unbind", r, 0) \in Message /\ Msg("unbind", r, 0).what = "unbind" /\ Msg("unbind", r, 0).svc = r
  BY <1>1 DEF Msg, Message
<1>3. Msg("stop", r, 0) \in Message /\ Msg("stop", r, 0).what = "stop" /\ Msg("stop", r, 0).svc = r
  BY <1>1 DEF Msg, Message
<1>4. m \in Seq(Message) /\ Len(m) = 2 /\ m[1] = Msg("unbind", r, 0) /\ m[2] = Msg("stop", r, 0)
  BY <1>2, <1>3
<1>5. \A k \in 1..Len(m) : k = 1 \/ k = 2
  BY <1>4
<1> QED BY <1>2, <1>3, <1>4, <1>5

LEMMA CreateArgs ==
  ASSUME NEW r \in Svc, NEW n \in 0..MaxStart, NEW m, m = <<Msg("create", r, 0)>> \o <<Msg("args", r, n)>>
  PROVE  /\ m \in Seq(Message) /\ Len(m) = 2
         /\ m[1].what = "create" /\ m[1].svc = r /\ m[2].what = "args" /\ m[2].svc = r
         /\ \A k \in 1..Len(m) : m[k].what \in {"create", "args"} /\ m[k].svc = r
<1>1. 0 \in 0..MaxStart
  BY ServiceLifecycleAssumption DEF ServiceLifecycleAssumption
<1>2. Msg("create", r, 0) \in Message /\ Msg("create", r, 0).what = "create" /\ Msg("create", r, 0).svc = r
  BY <1>1 DEF Msg, Message
<1>3. Msg("args", r, n) \in Message /\ Msg("args", r, n).what = "args" /\ Msg("args", r, n).svc = r
  BY <1>1 DEF Msg, Message
<1>4. m \in Seq(Message) /\ Len(m) = 2 /\ m[1] = Msg("create", r, 0) /\ m[2] = Msg("args", r, n)
  BY <1>2, <1>3
<1>5. \A k \in 1..Len(m) : k = 1 \/ k = 2
  BY <1>4
<1> QED BY <1>2, <1>3, <1>4, <1>5

\* A bind is filed, and the service is asked for its binder or told again.
LEMMA BindRecordStep ==
  ASSUME IInv, BindRecord
  PROVE  IInv'
<1> USE ServiceLifecycleAssumption DEF ServiceLifecycleAssumption, table, hist
<1>1. /\ pc = "bind" /\ pc' = "idle" /\ job' = NoJob /\ job.conn \in Conn
      /\ UNCHANGED <<table, mHistory, running, upcall, hist>>
  BY DEF BindRecord, IInv, TypeInv
<1>2. NoJob \in Jobs
  BY DEF NoJob, Jobs
<1>3. CASE UNCHANGED <<sr, queue, view>>
  <2>1. TypeInv' /\ BoundInv' /\ BornInv' /\ FiledInv'
    BY <1>1, <1>2, <1>3 DEF IInv, TypeInv, TypeOK, BoundInv, BornInv, FiledInv, Started
  <2>2. CreateFirst' /\ Tracked' /\ DoneInv' /\ ArgsInOrder' /\ OneAtATime' /\ ViewInv'
    BY <1>1, <1>3, Elsewhere DEF app
  <2>3. Backed'
    BY <1>1, <1>3 DEF IInv, Backed, Is, Done
  <2> QED BY <2>1, <2>2, <2>3 DEF IInv
<1>4. CASE ~UNCHANGED <<sr, queue, view>>
  <2>1. PICK r \in mHistory :
          /\ sr' = [sr EXCEPT ![r].bound = TRUE, ![r].conns = @ \cup {job.conn}]
          /\ IF sr[r].binder
             THEN /\ view' = [view EXCEPT ![job.conn] = r]
                  /\ IF sr[r].doRebind
                     THEN Schedule(sr[r].proc, <<Msg("rebind", r, 0)>>)
                     ELSE UNCHANGED queue
             ELSE /\ Schedule(sr[r].proc, <<Msg("bind", r, 0)>>)
                  /\ UNCHANGED view
    BY <1>4 DEF BindRecord
  <2>2. r \in Svc /\ sr \in [Svc -> Fields] /\ sr[r] \in Fields /\ sr[r].proc \in Proc
    BY DEF IInv, TypeInv, TypeOK, FiledInv, Fields
  <2>3. PICK p \in Proc : p = sr[r].proc
    BY <2>2
  <2>4. /\ sr' \in [Svc -> Fields]
        /\ \A s \in Svc : /\ sr'[s].proc = sr[s].proc /\ sr'[s].startId = sr[s].startId
                         /\ sr[s].conns \subseteq sr'[s].conns
        /\ job.conn \in sr'[r].conns
    <3>1. /\ sr'[r] = [sr[r] EXCEPT !.bound = TRUE, !.conns = @ \cup {job.conn}]
          /\ \A s \in Svc : s # r => sr'[s] = sr[s]
      BY <2>1, <2>2
    <3>2. /\ sr'[r] \in Fields /\ sr'[r].proc = sr[r].proc /\ sr'[r].startId = sr[r].startId
          /\ sr'[r].conns = sr[r].conns \cup {job.conn}
      <4> DEFINE C == sr[r].conns \cup {job.conn}
      <4>1. C \in SUBSET Conn
        BY <1>1, <2>2 DEF Fields
      <4>2. sr'[r] = [sr[r] EXCEPT !.bound = TRUE, !.conns = C]
        BY <3>1
      <4> HIDE DEF C
      <4>3. /\ sr'[r] \in Fields /\ sr'[r].proc = sr[r].proc
            /\ sr'[r].startId = sr[r].startId /\ sr'[r].conns = C
        BY <2>2, <4>1, <4>2 DEF Fields
      <4> QED BY <4>3 DEF C
    <3>3. sr' \in [Svc -> Fields]
      BY <2>1, <2>2, <3>1, <3>2
    <3> QED BY <3>1, <3>2, <3>3
  <2>5. PICK m \in Seq(Message) :
          /\ Schedule(p, m)
          /\ \A k \in 1..Len(m) : m[k].what \in {"bind", "rebind"} /\ m[k].svc = r
    <3>1. 0 \in 0..MaxStart
      OBVIOUS
    <3>3. UNCHANGED queue => Schedule(p, <<>>)
      BY DEF Schedule, IInv, TypeInv
    <3>4. Schedule(p, <<Msg("rebind", r, 0)>>) \/ Schedule(p, <<Msg("bind", r, 0)>>)
          \/ Schedule(p, <<>>)
      BY <2>1, <2>3, <3>3
    <3>5. CASE Schedule(p, <<>>)
      <4> DEFINE m == <<>>
      <4>1. m \in Seq(Message) /\ \A k \in 1..Len(m) : FALSE
        OBVIOUS
      <4>2. Schedule(p, m)
        BY <3>5
      <4> HIDE DEF m
      <4> QED BY <4>1, <4>2
    <3>6. ASSUME NEW w \in {"bind", "rebind"}, Schedule(p, <<Msg(w, r, 0)>>)
          PROVE  \E m \in Seq(Message) :
                   /\ Schedule(p, m)
                   /\ \A k \in 1..Len(m) : m[k].what \in {"bind", "rebind"} /\ m[k].svc = r
      <4> DEFINE m == <<Msg(w, r, 0)>>
      <4>1. /\ m \in Seq(Message) /\ Schedule(p, m)
            /\ \A k \in 1..Len(m) : m[k].what = w /\ m[k].svc = r
        BY <2>2, <3>1, <3>6, OneMessage
      <4> HIDE DEF m
      <4> QED BY <4>1
    <3> QED BY <3>4, <3>5, <3>6
  <2>6. queue' \in [Proc -> Seq(Message)]
    BY <2>5, Scheduled DEF IInv
  <2>7. view' = view \/ view' = [view EXCEPT ![job.conn] = r]
    BY <2>1
  <2>8. TypeInv'
    <3>1. view' \in [Conn -> Svc \cup {"down", Null}]
      BY <2>2, <2>7 DEF IInv, TypeInv, TypeOK
    <3>2. \A q \in Proc : \A i \in DOMAIN queue'[q] : queue'[q][i] \in Message
      BY <2>6
    <3> QED BY <1>1, <1>2, <2>4, <2>6, <3>1, <3>2 DEF IInv, TypeInv, TypeOK
  <2>9. BoundInv' /\ BornInv'
    <3>1. \A q \in Proc \ alive : queue'[q] = <<>>
      BY <2>5, Scheduled DEF IInv, BornInv
    <3> QED BY <1>1, <2>4, <3>1 DEF IInv, TypeInv, TypeOK, BoundInv, BornInv, Started
  <2>10. FiledInv'
    <3>1. \A q \in Proc : \A i \in 1..Len(queue'[q]) :
            /\ sr'[queue'[q][i].svc].proc # Null
            /\ queue'[q][i].what # "args" => sr'[queue'[q][i].svc].proc = q
      <4>1. \A s \in Svc : sr[s].proc # Null => sr'[s].proc = sr[s].proc
        BY <2>4
      <4>2. \A k \in 1..Len(m) : sr'[m[k].svc].proc # Null
                              /\ (m[k].what # "args" => sr'[m[k].svc].proc = p)
        BY <2>2, <2>3, <2>4, <2>5
      <4> QED BY <2>5, <4>1, <4>2, ScheduledFiled DEF IInv
    <3>2. \A q \in Proc : upcall[q] # Null => sr'[upcall[q].svc].proc = q
      <4>1. \A q \in Proc : upcall[q] # Null => upcall[q].svc \in Svc
        BY DEF IInv, TypeInv, TypeOK, Upcalls
      <4>2. \A q \in Proc : upcall[q] # Null => sr[upcall[q].svc].proc = q
        BY DEF IInv, FiledInv
      <4> QED BY <2>4, <4>1, <4>2
    <3>3. /\ \A s \in mHistory \cup stopped : sr'[s].proc # Null
          /\ \A q \in Proc : \A s \in running[q] : sr'[s].proc = q
      BY <2>4 DEF IInv, TypeInv, TypeOK, FiledInv
    <3> QED BY <1>1, <3>1, <3>2, <3>3 DEF IInv, FiledInv
  <2>11. CreateFirst' /\ Tracked' /\ Backed' /\ DoneInv' /\ ArgsInOrder' /\ OneAtATime'
    <3>1. \A k \in 1..Len(m) : m[k].what \notin {"create", "args", "stop"}
      BY <2>5
    <3> QED BY <1>1, <2>4, <2>5, <3>1, Harmless
  <2>12. ViewInv'
    <3>1. r \notin stopped
      BY <2>2 DEF IInv, FiledInv
    <3>2. view \in [Conn -> Svc \cup {"down", Null}]
      BY DEF IInv, TypeInv, TypeOK
    <3>3. \A c \in Conn : view'[c] \in Svc => c \in sr'[view'[c]].conns
      BY <1>1, <2>2, <2>4, <2>7, <3>2 DEF IInv, ViewInv
    <3>4. BelievedOnlyIfLate'
      BY <1>1, <2>7, <3>1, <3>2 DEF IInv, ViewInv, BelievedOnlyIfLate
    <3> QED BY <3>3, <3>4 DEF ViewInv
  <2> QED BY <2>8, <2>9, <2>10, <2>11, <2>12 DEF IInv
<1> QED BY <1>3, <1>4

\* A record is told off and given up.
LEMMA StopServiceCommonStep ==
  ASSUME IInv, NEW r \in Svc, sr[r].proc # Null, pc = "idle", StopServiceCommon(r)
  PROVE  IInv'
<1> USE ServiceLifecycleAssumption DEF ServiceLifecycleAssumption
<1>1. /\ mHistory' = mHistory \ {r} /\ stopped' = stopped \cup {r}
      /\ view' = [c \in Conn |-> IF c \in sr[r].conns THEN "down" ELSE view[c]]
      /\ UNCHANGED <<table, server, sr, running, upcall, unbindStop, late>>
  BY DEF StopServiceCommon
<1>2. PICK p \in Proc : p = sr[r].proc
  BY DEF IInv, TypeInv, TypeOK, Fields
<1>3. 0 \in 0..MaxStart
  OBVIOUS
<1>4. PICK m \in Seq(Message) :
        /\ Schedule(p, m)
        /\ \A k \in 1..Len(m) : m[k].svc = r /\ m[k].what \in {"unbind", "stop"}
        /\ \E k \in 1..Len(m) : m[k].what = "stop"
  <2>1. CASE sr[r].bound
    <3> DEFINE m == <<Msg("unbind", r, 0), Msg("stop", r, 0)>>
    <3>4. m = <<Msg("unbind", r, 0), Msg("stop", r, 0)>>
      OBVIOUS
    <3> HIDE DEF m
    <3>1. /\ m \in Seq(Message) /\ Len(m) = 2 /\ m[2].what = "stop"
          /\ \A k \in 1..Len(m) : m[k].what \in {"unbind", "stop"} /\ m[k].svc = r
      BY <1>3, <3>4, UnbindStop
    <3>2. Schedule(p, m)
      BY <1>2, <2>1, <3>4 DEF StopServiceCommon
    <3>3. 2 \in 1..Len(m)
      BY <3>1
    <3> QED BY <3>1, <3>2, <3>3
  <2>2. CASE ~sr[r].bound
    <3> DEFINE m == <<Msg("stop", r, 0)>>
    <3>1. /\ m \in Seq(Message) /\ Len(m) = 1
          /\ \A k \in 1..Len(m) : m[k].what = "stop" /\ m[k].svc = r
      BY <1>3, OneMessage
    <3>2. Schedule(p, m)
      BY <1>2, <2>2 DEF StopServiceCommon
    <3> HIDE DEF m
    <3>3. 1 \in 1..Len(m)
      BY <3>1
    <3> QED BY <3>1, <3>2, <3>3
  <2> QED BY <2>1, <2>2
<1>5. queue' \in [Proc -> Seq(Message)] /\ \A q \in Proc \ alive : queue'[q] = <<>>
  BY <1>4, Scheduled DEF IInv, BornInv
<1>6. view \in [Conn -> Svc \cup {"down", Null}]
  BY DEF IInv, TypeInv, TypeOK
<1>7. TypeInv'
  <2>1. view' \in [Conn -> Svc \cup {"down", Null}]
    BY <1>1, <1>6
  <2>2. \A q \in Proc : \A i \in DOMAIN queue'[q] : queue'[q][i] \in Message
    BY <1>5
  <2> QED BY <1>1, <1>5, <2>1, <2>2 DEF IInv, TypeInv, TypeOK, table, server
<1>8. BoundInv' /\ BornInv'
  BY <1>1, <1>5 DEF IInv, BoundInv, BornInv, Started, table, server
<1>9. FiledInv'
  <2>1. \A q \in Proc : \A i \in 1..Len(queue'[q]) :
          /\ sr'[queue'[q][i].svc].proc # Null
          /\ queue'[q][i].what # "args" => sr'[queue'[q][i].svc].proc = q
    <3>1. \A k \in 1..Len(m) : sr'[m[k].svc].proc # Null
                              /\ (m[k].what # "args" => sr'[m[k].svc].proc = p)
      BY <1>1, <1>2, <1>4
    <3> QED BY <1>1, <1>4, <3>1, ScheduledFiled DEF IInv
  <2> QED BY <1>1, <2>1 DEF IInv, FiledInv
<1>10. CreateFirst' /\ Tracked' /\ Backed' /\ DoneInv'
  BY <1>1, <1>2, <1>4, StopScheduled DEF table
<1>11. ArgsInOrder' /\ OneAtATime'
  BY <1>1, <1>2, <1>4, StopInOrder
<1>12. ViewInv'
  <2>1. \A c \in Conn : view'[c] \in Svc => view'[c] = view[c] /\ c \notin sr[r].conns
    BY <1>1, <1>6
  <2>2. \A c \in Conn : view'[c] \in Svc => c \in sr[view[c]].conns /\ view'[c] # r
    BY <2>1 DEF IInv, ViewInv
  <2>3. \A c \in Conn : view'[c] \in stopped' => view'[c] \in Svc
    BY <1>1 DEF IInv, TypeInv, TypeOK
  <2>4. BelievedOnlyIfLate'
    BY <1>1, <2>1, <2>2, <2>3 DEF IInv, ViewInv, BelievedOnlyIfLate, table
  <2> QED BY <1>1, <2>1, <2>2, <2>4 DEF ViewInv
<1> QED BY <1>7, <1>8, <1>9, <1>10, <1>11, <1>12 DEF IInv

\* A client stops the service.
LEMMA StopServiceStep ==
  ASSUME IInv, StopService
  PROVE  IInv'
<1>1. PICK r \in mHistory : StopServiceCommon(r)
  BY DEF StopService
<1>2. r \in Svc /\ sr[r].proc # Null
  BY DEF IInv, TypeInv, TypeOK, FiledInv
<1> QED BY <1>1, <1>2, StopServiceCommonStep DEF StopService

\* The service stops itself.
LEMMA StopServiceTokenStep ==
  ASSUME IInv, NEW p \in Proc, NEW id \in 1..MaxStart, StopServiceToken(p, id)
  PROVE  IInv'
<1>1. PICK r \in running[p] : StopServiceCommon(r)
  BY DEF StopServiceToken
<1>2. r \in Svc /\ sr[r].proc # Null
  BY ServiceLifecycleAssumption
  DEF IInv, TypeInv, TypeOK, FiledInv, ServiceLifecycleAssumption
<1> QED BY <1>1, <1>2, StopServiceCommonStep DEF StopServiceToken

\* A connection goes, and the last one takes the service with it.
LEMMA UnbindServiceStep ==
  ASSUME IInv, NEW c \in Conn, UnbindService(c)
  PROVE  IInv'
<1> USE ServiceLifecycleAssumption DEF ServiceLifecycleAssumption
<1>1. /\ pc = "idle" /\ view' = [view EXCEPT ![c] = Null]
      /\ UNCHANGED <<table, server, mHistory, running, upcall, stopped, late>>
  BY DEF UnbindService
<1>2. PICK r \in mHistory :
        LET last == sr[r].startId = 0 /\ sr[r].conns = {c} IN
        /\ sr' = [sr EXCEPT ![r].conns = @ \ {c}]
        /\ Schedule(sr[r].proc, IF last THEN <<Msg("unbind", r, 0), Msg("stop", r, 0)>>
                                        ELSE <<Msg("unbind", r, 0)>>)
        /\ unbindStop' = IF last THEN unbindStop \cup {r} ELSE unbindStop
  BY DEF UnbindService
<1>3. r \in Svc /\ sr \in [Svc -> Fields] /\ sr[r] \in Fields /\ sr[r].proc \in Proc
  BY DEF IInv, TypeInv, TypeOK, FiledInv, Fields
<1>4. PICK p \in Proc : p = sr[r].proc
  BY <1>3
<1>5. /\ sr' \in [Svc -> Fields]
      /\ \A s \in Svc : /\ sr'[s].proc = sr[s].proc /\ sr'[s].startId = sr[s].startId
                       /\ \A d \in sr[s].conns : d = c \/ d \in sr'[s].conns
  <2>1. /\ sr'[r] = [sr[r] EXCEPT !.conns = @ \ {c}]
        /\ \A s \in Svc : s # r => sr'[s] = sr[s]
    BY <1>2, <1>3
  <2>2. /\ sr'[r] \in Fields /\ sr'[r].proc = sr[r].proc /\ sr'[r].startId = sr[r].startId
        /\ sr'[r].conns = sr[r].conns \ {c}
    BY <1>3, <2>1 DEF Fields
  <2>3. sr' \in [Svc -> Fields]
    BY <1>2, <1>3, <2>1, <2>2
  <2> QED BY <2>1, <2>2, <2>3
<1>6. 0 \in 0..MaxStart
  OBVIOUS
<1>7. PICK m \in Seq(Message) :
        /\ Schedule(p, m)
        /\ \A k \in 1..Len(m) : m[k].svc = r /\ m[k].what \in {"unbind", "stop"}
        /\ \/ /\ \A k \in 1..Len(m) : m[k].what = "unbind"
              /\ unbindStop' = unbindStop
           \/ /\ \E k \in 1..Len(m) : m[k].what = "stop"
              /\ unbindStop' = unbindStop \cup {r}
  <2>1. CASE sr[r].startId = 0 /\ sr[r].conns = {c}
    <3> DEFINE m == <<Msg("unbind", r, 0), Msg("stop", r, 0)>>
    <3>1. m = <<Msg("unbind", r, 0), Msg("stop", r, 0)>>
      OBVIOUS
    <3> HIDE DEF m
    <3>2. /\ m \in Seq(Message) /\ Len(m) = 2 /\ m[2].what = "stop"
          /\ \A k \in 1..Len(m) : m[k].what \in {"unbind", "stop"} /\ m[k].svc = r
      BY <1>3, <3>1, UnbindStop
    <3>3. Schedule(p, m) /\ unbindStop' = unbindStop \cup {r}
      BY <1>2, <1>4, <2>1, <3>1
    <3>4. 2 \in 1..Len(m)
      BY <3>2
    <3> QED BY <3>2, <3>3, <3>4
  <2>2. CASE ~(sr[r].startId = 0 /\ sr[r].conns = {c})
    <3> DEFINE m == <<Msg("unbind", r, 0)>>
    <3>1. /\ m \in Seq(Message)
          /\ \A k \in 1..Len(m) : m[k].what = "unbind" /\ m[k].svc = r
      BY <1>3, <1>6, OneMessage
    <3>2. Schedule(p, m) /\ unbindStop' = unbindStop
      BY <1>2, <1>4, <2>2
    <3> HIDE DEF m
    <3> QED BY <3>1, <3>2
  <2> QED BY <2>1, <2>2
<1>8. queue' \in [Proc -> Seq(Message)] /\ \A q \in Proc \ alive : queue'[q] = <<>>
  BY <1>7, Scheduled DEF IInv, BornInv
<1>9. view \in [Conn -> Svc \cup {"down", Null}]
  BY DEF IInv, TypeInv, TypeOK
<1>10. TypeInv'
  <2>1. view' \in [Conn -> Svc \cup {"down", Null}]
    BY <1>1, <1>9
  <2>2. \A q \in Proc : \A i \in DOMAIN queue'[q] : queue'[q][i] \in Message
    BY <1>8
  <2>3. unbindStop' \subseteq Svc
    BY <1>3, <1>7 DEF IInv, TypeInv, TypeOK
  <2> QED BY <1>1, <1>5, <1>8, <2>1, <2>2, <2>3 DEF IInv, TypeInv, TypeOK, table, server
<1>11. BoundInv' /\ BornInv'
  BY <1>1, <1>5, <1>8
  DEF IInv, TypeInv, TypeOK, BoundInv, BornInv, Started, table, server
<1>12. FiledInv'
  <2>1. \A q \in Proc : \A i \in 1..Len(queue'[q]) :
          /\ sr'[queue'[q][i].svc].proc # Null
          /\ queue'[q][i].what # "args" => sr'[queue'[q][i].svc].proc = q
    <3>1. \A s \in Svc : sr[s].proc # Null => sr'[s].proc = sr[s].proc
      BY <1>5
    <3>2. \A k \in 1..Len(m) : sr'[m[k].svc].proc # Null
                              /\ (m[k].what # "args" => sr'[m[k].svc].proc = p)
      BY <1>3, <1>4, <1>5, <1>7
    <3> QED BY <1>7, <3>1, <3>2, ScheduledFiled DEF IInv
  <2>2. \A q \in Proc : upcall[q] # Null => sr'[upcall[q].svc].proc = q
    <3>1. \A q \in Proc : upcall[q] # Null => upcall[q].svc \in Svc
      BY DEF IInv, TypeInv, TypeOK, Upcalls
    <3>2. \A q \in Proc : upcall[q] # Null => sr[upcall[q].svc].proc = q
      BY DEF IInv, FiledInv
    <3> QED BY <1>5, <3>1, <3>2
  <2>3. /\ \A s \in mHistory \cup stopped : sr'[s].proc # Null
        /\ \A q \in Proc : \A s \in running[q] : sr'[s].proc = q
    BY <1>5 DEF IInv, TypeInv, TypeOK, FiledInv
  <2> QED BY <1>1, <2>1, <2>2, <2>3 DEF IInv, FiledInv
<1>13. CreateFirst' /\ Tracked' /\ Backed' /\ DoneInv' /\ ArgsInOrder' /\ OneAtATime'
  <2>1. CASE unbindStop' = unbindStop /\ \A k \in 1..Len(m) : m[k].what = "unbind"
    <3>1. \A k \in 1..Len(m) : m[k].what \notin {"create", "args", "stop"}
      BY <2>1
    <3> QED BY <1>1, <1>5, <1>7, <2>1, <3>1, Harmless DEF table
  <2>2. CASE unbindStop' = unbindStop \cup {r} /\ \E k \in 1..Len(m) : m[k].what = "stop"
    <3>1. CreateFirst' /\ Tracked' /\ Backed' /\ DoneInv'
      BY <1>1, <1>3, <1>4, <1>5, <1>7, <2>2, StopScheduled DEF table
    <3>2. ArgsInOrder' /\ OneAtATime'
      BY <1>1, <1>3, <1>4, <1>5, <1>7, <2>2, StopInOrder
    <3> QED BY <3>1, <3>2
  <2> QED BY <1>7, <2>1, <2>2
<1>14. ViewInv'
  <2>1. \A d \in Conn : view'[d] \in Svc => view'[d] = view[d] /\ d # c
    BY <1>1, <1>9
  <2>2. \A d \in Conn : view'[d] \in Svc => d \in sr'[view'[d]].conns
    BY <1>5, <2>1 DEF IInv, ViewInv
  <2>3. BelievedOnlyIfLate'
    <3>1. stopped \subseteq Svc
      BY DEF IInv, TypeInv, TypeOK
    <3> QED BY <1>1, <2>1, <3>1 DEF IInv, ViewInv, BelievedOnlyIfLate
  <2> QED BY <2>2, <2>3 DEF ViewInv
<1> QED BY <1>10, <1>11, <1>12, <1>13, <1>14 DEF IInv

\* The record of a new instance: its create goes behind all that is waiting, and
\* whatever runs or is to be created in the process has its stop before.
LEMMA CreateNewStep ==
  ASSUME IInv, NEW r \in Svc, r \notin mHistory, CreateRecord(r)
  PROVE  IInv'
<1> USE ServiceLifecycleAssumption DEF ServiceLifecycleAssumption
<1>1. /\ pc = "create" /\ mHistory = {} /\ mHistory' = {r} /\ sr[r].proc = Null
      /\ UNCHANGED <<table, running, upcall, view, hist>>
      /\ \/ pc' = "idle" /\ job' = NoJob
         \/ pc' = "bind" /\ job' = job /\ job.op # "start"
  BY DEF CreateRecord
<1>2. job.app \in Proc /\ job.op \in {"start", "bind"} /\ Started(job.app)
  BY <1>1 DEF IInv, TypeInv, BornInv
<1>3. PICK p \in Proc : p = job.app
  BY <1>2
<1>4. PICK id \in 0..MaxStart :
        /\ sr' = [sr EXCEPT ![r].proc = p, ![r].startId = id]
        /\ Schedule(p, <<Msg("create", r, 0)>> \o
                          (IF job.op = "start" THEN <<Msg("args", r, id)>> ELSE <<>>))
  <2>1. sr[r].startId = 0 /\ 0 \in 0..MaxStart /\ 1 \in 0..MaxStart
    BY <1>1 DEF IInv, BoundInv
  <2>2. CASE job.op = "start"
    <3>1. sr[r].startId + 1 = 1
      BY <2>1
    <3>2. /\ sr' = [sr EXCEPT ![r].proc = p, ![r].startId = sr[r].startId + 1]
          /\ Schedule(p, <<Msg("create", r, 0)>> \o <<Msg("args", r, sr[r].startId + 1)>>)
      BY <1>3, <2>2 DEF CreateRecord
    <3> QED BY <2>1, <2>2, <3>1, <3>2
  <2>3. CASE job.op # "start"
    BY <1>3, <2>1, <2>3 DEF CreateRecord
  <2> QED BY <2>2, <2>3
<1>5. PICK m \in Seq(Message) :
        /\ Schedule(p, m) /\ Len(m) \in {1, 2}
        /\ m[1].what = "create" /\ m[1].svc = r
        /\ \A k \in 1..Len(m) : m[k].svc = r /\ (k = 1 \/ m[k].what = "args")
  <2>1. CASE job.op = "start"
    <3> DEFINE m == <<Msg("create", r, 0)>> \o <<Msg("args", r, id)>>
    <3>1. m = <<Msg("create", r, 0)>> \o <<Msg("args", r, id)>>
      OBVIOUS
    <3> HIDE DEF m
    <3>3. /\ m \in Seq(Message) /\ Len(m) = 2 /\ m[1].what = "create" /\ m[1].svc = r
          /\ m[2].what = "args" /\ m[2].svc = r
      BY <3>1, CreateArgs
    <3>4. Schedule(p, m)
      BY <1>4, <2>1, <3>1
    <3>5. \A k \in 1..Len(m) : k = 1 \/ k = 2
      BY <3>3
    <3> QED BY <3>3, <3>4, <3>5
  <2>2. CASE job.op # "start"
    <3> DEFINE m == <<Msg("create", r, 0)>>
    <3>6. 0 \in 0..MaxStart
      OBVIOUS
    <3>5. m \in Seq(Message) /\ Len(m) = 1 /\ m[1] = Msg("create", r, 0)
      BY <3>6, OneMessage
    <3>1. m \in Seq(Message) /\ Len(m) = 1 /\ m[1] = Msg("create", r, 0) /\ m \o <<>> = m
      BY <3>5
    <3>2. Msg("create", r, 0).what = "create" /\ Msg("create", r, 0).svc = r
      BY DEF Msg
    <3>3. Schedule(p, m)
      BY <1>4, <2>2, <3>1
    <3> HIDE DEF m
    <3>4. \A k \in 1..Len(m) : k = 1
      BY <3>1
    <3> QED BY <3>1, <3>2, <3>3, <3>4
  <2> QED BY <2>1, <2>2
<1>6. /\ sr' \in [Svc -> Fields] /\ sr'[r].proc = p /\ sr'[r].conns = sr[r].conns
      /\ \A s \in Svc : s # r => sr'[s] = sr[s]
  <2>1. sr \in [Svc -> Fields] /\ sr[r] \in Fields
    BY DEF IInv, TypeInv, TypeOK
  <2>2. sr'[r] = [sr[r] EXCEPT !.proc = p, !.startId = id]
    BY <1>4, <2>1
  <2>3. sr'[r] \in Fields /\ sr'[r].proc = p /\ sr'[r].conns = sr[r].conns
    BY <2>1, <2>2 DEF Fields
  <2> QED BY <1>4, <2>1, <2>3
<1>7. queue' \in [Proc -> Seq(Message)] /\ \A q \in Proc \ alive : queue'[q] = <<>>
  BY <1>5, Scheduled, SMTT(30) DEF IInv, BornInv
<1>8. /\ r \notin stopped
      /\ \A q \in Proc : /\ r \notin running[q] /\ ~Done(q, r)
                       /\ \A i \in Nat : \A w : ~Is(q, i, w, r)
  BY <1>1 DEF IInv, FiledInv, Is, Done
<1> DEFINE L == Len(queue[p])
<1>9. L \in Nat /\ \A q \in Proc, i \in Nat : \A w, s : q = p /\ Is(q, i, w, s) => i <= L
  BY DEF IInv, TypeInv, Is
<1> HIDE DEF L
<1>10. \A q \in Proc, i \in Nat : \A w, s :
         Is(q, i, w, s)' <=>
            \/ Is(q, i, w, s)
            \/ /\ q = p /\ p \in alive
               /\ \E k \in 1..Len(m) :
                     i = L + k /\ m[k].what = w /\ m[k].svc = s
  BY <1>5, ScheduledIs DEF IInv, L
<1>11. /\ \A q \in Proc, i \in Nat, s \in Svc : s # r =>
             /\ Is(q, i, "create", s)' <=> Is(q, i, "create", s)
             /\ Is(q, i, "args", s)' <=> Is(q, i, "args", s)
             /\ Is(q, i, "stop", s)' <=> Is(q, i, "stop", s)
       /\ \A q \in Proc, i \in Nat :
             /\ Is(q, i, "create", r)' <=> (q = p /\ p \in alive /\ i = L + 1)
             /\ Is(q, i, "args", r)' => q = p /\ p \in alive /\ i > L + 1
             /\ ~Is(q, i, "stop", r)'
  <2>1. ASSUME NEW q \in Proc, NEW i \in Nat, NEW s \in Svc, s # r
        PROVE  /\ Is(q, i, "create", s)' <=> Is(q, i, "create", s)
               /\ Is(q, i, "args", s)' <=> Is(q, i, "args", s)
               /\ Is(q, i, "stop", s)' <=> Is(q, i, "stop", s)
    <3>1. \A k \in 1..Len(m) : m[k].svc # s
      BY <1>5, <2>1
    <3>2. \A w : Is(q, i, w, s)' <=> Is(q, i, w, s)
      BY <1>10, <3>1
    <3> QED BY <3>2
  <2>2. ASSUME NEW q \in Proc, NEW i \in Nat
        PROVE  Is(q, i, "create", r)' <=> (q = p /\ p \in alive /\ i = L + 1)
    <3>1. 1 \in 1..Len(m) /\ \A k \in 1..Len(m) : m[k].what = "create" <=> k = 1
      BY <1>5
    <3>2. Is(q, i, "create", r)' <=>
            (q = p /\ p \in alive
               /\ \E k \in 1..Len(m) : i = L + k /\ m[k].what = "create" /\ m[k].svc = r)
      BY <1>8, <1>10
    <3> QED BY <1>5, <3>1, <3>2
  <2>3. ASSUME NEW q \in Proc, NEW i \in Nat
        PROVE  Is(q, i, "args", r)' => q = p /\ p \in alive /\ i > L + 1
    <3>1. \A k \in 1..Len(m) : m[k].what = "args" => k > 1
      BY <1>5
    <3>2. Is(q, i, "args", r)' =>
            (q = p /\ p \in alive
               /\ \E k \in 1..Len(m) : i = L + k /\ m[k].what = "args")
      BY <1>8, <1>10
    <3> QED BY <1>9, <3>1, <3>2
  <2>4. ASSUME NEW q \in Proc, NEW i \in Nat
        PROVE  ~Is(q, i, "stop", r)'
    <3>1. \A k \in 1..Len(m) : m[k].what # "stop"
      BY <1>5
    <3>2. Is(q, i, "stop", r)' => \E k \in 1..Len(m) : m[k].what = "stop"
      BY <1>8, <1>10
    <3> QED BY <3>1, <3>2
  <2> QED BY <2>1, <2>2, <2>3, <2>4
<1>12. \A q \in Proc, s \in Svc : Done(q, s)' <=> Done(q, s)
  BY <1>1 DEF Done
<1>13. TypeInv'
  <2>1. job' \in Jobs /\ pc' \in {"idle", "bind"} /\ (pc' = "bind" => job'.op = "bind")
    BY <1>1, <1>2 DEF IInv, TypeInv, TypeOK, Jobs, NoJob
  <2>2. pc' # "idle" /\ job'.op # "start" => job'.conn \in Conn
    BY <1>1 DEF IInv, TypeInv
  <2>3. \A q \in Proc : \A i \in DOMAIN queue'[q] : queue'[q][i] \in Message
    BY <1>7
  <2> QED BY <1>1, <1>6, <1>7, <2>1, <2>2, <2>3 DEF IInv, TypeInv, TypeOK, table, hist
<1>14. BoundInv' /\ BornInv'
  <2>1. BoundInv'
    BY <1>1, <1>6 DEF IInv, BoundInv
  <2>2. \A s \in Svc : sr'[s].proc # Null => Started(sr'[s].proc)
    BY <1>2, <1>3, <1>6 DEF IInv, BornInv
  <2> QED BY <1>1, <1>7, <2>1, <2>2 DEF IInv, BornInv, Started, table
<1>15. FiledInv'
  <2>1. \A s \in Svc : sr[s].proc # Null => sr'[s].proc = sr[s].proc
    BY <1>1, <1>6
  <2>2. \A q \in Proc : \A i \in 1..Len(queue'[q]) :
          /\ sr'[queue'[q][i].svc].proc # Null
          /\ queue'[q][i].what # "args" => sr'[queue'[q][i].svc].proc = q
    <3>1. \A k \in 1..Len(m) : sr'[m[k].svc].proc # Null
                              /\ (m[k].what # "args" => sr'[m[k].svc].proc = p)
      BY <1>5, <1>6
    <3> QED BY <1>5, <2>1, <3>1, ScheduledFiled DEF IInv
  <2>3. \A q \in Proc : upcall[q] # Null => sr'[upcall[q].svc].proc = q
    <3>1. \A q \in Proc : upcall[q] # Null => upcall[q].svc \in Svc
      BY DEF IInv, TypeInv, TypeOK, Upcalls
    <3>2. \A q \in Proc : upcall[q] # Null => sr[upcall[q].svc].proc = q
      BY DEF IInv, FiledInv
    <3> QED BY <2>1, <3>1, <3>2
  <2>4. /\ \A s \in mHistory' \cup stopped : sr'[s].proc # Null
        /\ \A q \in Proc : \A s \in running[q] : sr'[s].proc = q
    <3>1. stopped \subseteq Svc /\ \A q \in Proc : running[q] \subseteq Svc
      BY DEF IInv, TypeInv, TypeOK
    <3>2. \A s \in stopped : sr'[s].proc # Null
      BY <2>1, <3>1 DEF IInv, FiledInv
    <3>3. \A q \in Proc : \A s \in running[q] : sr[s].proc = q
      BY DEF IInv, FiledInv
    <3>4. \A q \in Proc : \A s \in running[q] : sr'[s].proc = q
      BY <2>1, <3>1, <3>3
    <3> QED BY <1>1, <1>6, <3>2, <3>4
  <2> QED BY <1>1, <1>8, <2>2, <2>3, <2>4 DEF FiledInv, hist
<1>16. CreateFirst'
  BY <1>1, <1>8, <1>11, <1>12 DEF IInv, CreateFirst
<1>17. Tracked'
  BY <1>1, <1>8, <1>11 DEF IInv, Tracked
<1>18. Backed'
  <2>1. ASSUME NEW q \in Proc, q = sr'[r].proc, q \in alive'
        PROVE  \E i \in Nat : Is(q, i, "create", r)'
    <3>1. L + 1 \in Nat /\ q = p /\ p \in alive
      BY <1>1, <1>6, <1>9, <2>1 DEF table
    <3> QED BY <1>11, <3>1
  <2>2. \A q \in Proc : ~Done(q, r)' /\ \A j \in Nat : ~Is(q, j, "stop", r)'
    BY <1>8, <1>11, <1>12
  <2> QED BY <1>1, <2>1, <2>2 DEF Backed
<1>19. DoneInv'
  BY <1>1, <1>12 DEF IInv, DoneInv
<1>20. ArgsInOrder'
  <2> SUFFICES ASSUME NEW q \in Proc, NEW s \in Svc, NEW i \in Nat, Is(q, i, "args", s)',
                      sr'[s].proc = q, s \notin unbindStop
               PROVE  /\ s \in running[q] \/ \E j \in Nat : j < i /\ Is(q, j, "create", s)'
                      /\ \A j \in Nat : Is(q, j, "stop", s)' => i < j
    BY <1>1 DEF ArgsInOrder, hist
  <2>1. CASE s = r
    BY <1>9, <1>11, <2>1
  <2>2. CASE s # r
    BY <1>6, <1>11, <2>2 DEF IInv, ArgsInOrder
  <2> QED BY <2>1, <2>2
<1>21. OneAtATime'
  <2>1. \A q \in Proc, s \in Svc :
           s \in running[q] \/ (\E i \in Nat : Is(q, i, "create", s)) =>
               \E j \in Nat : Is(q, j, "stop", s)
    BY <1>1 DEF IInv, Tracked
  <2>2. ASSUME NEW q \in Proc, NEW s \in Svc, NEW t \in Svc
        PROVE  /\ s \in running[q] /\ t \in running[q] => s = t
               /\ \A k \in Nat : s \in running[q] /\ Is(q, k, "create", t)' =>
                     \E j \in Nat : j < k /\ Is(q, j, "stop", s)'
    <3>1. CASE t # r
      BY <1>8, <1>11, <3>1 DEF IInv, OneAtATime
    <3>2. CASE t = r
      BY <1>8, <1>9, <1>11, <2>1, <3>2 DEF IInv, OneAtATime
    <3> QED BY <3>1, <3>2
  <2>3. ASSUME NEW q \in Proc, NEW s \in Svc, NEW t \in Svc, NEW i \in Nat, NEW k \in Nat,
               Is(q, i, "create", s)', Is(q, k, "create", t)', i < k
        PROVE  \E j \in Nat : i < j /\ j < k /\ Is(q, j, "stop", s)'
    <3>1. CASE t # r /\ s # r
      BY <1>11, <2>3, <3>1 DEF IInv, OneAtATime
    <3>2. CASE s = r
      <4>1. q = p /\ i = L + 1
        BY <1>11, <2>3, <3>2
      <4>2. CASE t = r
        BY <1>9, <1>11, <2>3, <4>1, <4>2
      <4>3. CASE t # r
        BY <1>9, <1>11, <2>3, <4>1, <4>3
      <4> QED BY <4>2, <4>3
    <3>3. CASE t = r /\ s # r
      <4>1. Is(q, i, "create", s) /\ q = p /\ k = L + 1
        BY <1>11, <2>3, <3>3
      <4>2. PICK j \in Nat : Is(q, j, "stop", s)
        BY <2>1, <4>1
      <4>3. i < j /\ j <= L
        BY <1>9, <4>1, <4>2 DEF IInv, CreateFirst
      <4> QED BY <1>9, <1>11, <3>3, <4>1, <4>2, <4>3
    <3> QED BY <3>1, <3>2, <3>3
  <2> QED BY <1>1, <2>2, <2>3 DEF OneAtATime
<1>22. ViewInv'
  <2>1. \A s \in Svc : sr'[s].conns = sr[s].conns
    BY <1>6
  <2> QED BY <1>1, <2>1 DEF IInv, ViewInv, BelievedOnlyIfLate, hist
<1> QED BY <1>13, <1>14, <1>15, <1>16, <1>17, <1>18, <1>19, <1>20, <1>21, <1>22 DEF IInv

\* A known record: the arguments, if any, go behind its create and before a stop.
LEMMA CreateKnownStep ==
  ASSUME IInv, NEW r \in Svc, r \in mHistory, CreateRecord(r)
  PROVE  IInv'
<1> USE ServiceLifecycleAssumption DEF ServiceLifecycleAssumption
<1>1. /\ pc = "create" /\ mHistory' = mHistory /\ sr[r].proc \in Proc
      /\ sr[r].startId < MaxStart
      /\ UNCHANGED <<table, running, upcall, view, hist>>
      /\ \/ pc' = "idle" /\ job' = NoJob
         \/ pc' = "bind" /\ job' = job /\ job.op # "start"
  BY DEF CreateRecord, IInv, TypeInv, TypeOK, BoundInv, FiledInv, Fields
<1>2. job.app \in Proc /\ job.op \in {"start", "bind"}
  BY <1>1 DEF IInv, TypeInv
<1>3. PICK p \in Proc : p = job.app
  BY <1>2
<1>4. PICK id \in 0..MaxStart :
        /\ sr' = [sr EXCEPT ![r].proc = @, ![r].startId = id]
        /\ Schedule(p, IF job.op = "start" THEN <<Msg("args", r, id)>> ELSE <<>>)
  <2>1. sr[r].startId \in 0..MaxStart /\ sr[r].startId + 1 \in 0..MaxStart
    BY <1>1 DEF IInv, TypeInv, TypeOK, Fields
  <2>2. CASE job.op = "start"
    <3> DEFINE a == <<Msg("args", r, sr[r].startId + 1)>>
    <3>4. a \in Seq(Message)
      BY <2>1, OneMessage
    <3>1. a \in Seq(Message) /\ <<>> \o a = a
      BY <3>4
    <3>2. /\ sr' = [sr EXCEPT ![r].proc = @, ![r].startId = sr[r].startId + 1]
          /\ Schedule(p, <<>> \o a)
      BY <1>3, <2>2 DEF CreateRecord
    <3> QED BY <2>1, <2>2, <3>1, <3>2
  <2>3. CASE job.op # "start"
    <3>1. /\ sr' = [sr EXCEPT ![r].proc = @, ![r].startId = sr[r].startId]
          /\ Schedule(p, <<>> \o <<>>)
      BY <1>3, <2>3 DEF CreateRecord
    <3>2. <<>> \o <<>> = <<>>
      OBVIOUS
    <3> QED BY <2>1, <2>3, <3>1, <3>2
  <2> QED BY <2>2, <2>3
<1>5. PICK m \in Seq(Message) :
        /\ Schedule(p, m)
        /\ \A k \in 1..Len(m) : m[k].svc = r /\ m[k].what = "args"
  <2>1. CASE job.op = "start"
    <3> DEFINE m == <<Msg("args", r, id)>>
    <3>1. /\ m \in Seq(Message)
          /\ \A k \in 1..Len(m) : m[k].what = "args" /\ m[k].svc = r
      BY OneMessage
    <3>2. Schedule(p, m)
      BY <1>4, <2>1
    <3> HIDE DEF m
    <3> QED BY <3>1, <3>2
  <2>2. CASE job.op # "start"
    <3> DEFINE m == <<>>
    <3>1. m \in Seq(Message) /\ \A k \in 1..Len(m) : FALSE
      OBVIOUS
    <3>2. Schedule(p, m)
      BY <1>4, <2>2
    <3> HIDE DEF m
    <3> QED BY <3>1, <3>2
  <2> QED BY <2>1, <2>2
<1>6. /\ sr' \in [Svc -> Fields]
      /\ \A s \in Svc : sr'[s].proc = sr[s].proc /\ sr'[s].conns = sr[s].conns
  <2>1. sr \in [Svc -> Fields] /\ sr[r] \in Fields
    BY DEF IInv, TypeInv, TypeOK
  <2>2. sr'[r] = [sr[r] EXCEPT !.proc = @, !.startId = id] /\ \A s \in Svc : s # r => sr'[s] = sr[s]
    BY <1>4, <2>1
  <2>3. sr'[r] \in Fields /\ sr'[r].proc = sr[r].proc /\ sr'[r].conns = sr[r].conns
    BY <2>1, <2>2 DEF Fields
  <2> QED BY <1>4, <2>1, <2>2, <2>3
<1>7. queue' \in [Proc -> Seq(Message)] /\ \A q \in Proc \ alive : queue'[q] = <<>>
  BY <1>5, Scheduled DEF IInv, BornInv
<1> HIDE ServiceLifecycleAssumption
<1>8. /\ \A q \in Proc, i \in Nat : \A w, s : Is(q, i, w, s) => i <= Len(queue[q])
      /\ \A q \in Proc : Len(queue[q]) \in Nat
  BY DEF IInv, TypeInv, Is
<1>9. \A q \in Proc, i \in Nat : \A w, s :
         Is(q, i, w, s)' <=>
            \/ Is(q, i, w, s)
            \/ /\ q = p /\ p \in alive
               /\ \E k \in 1..Len(m) :
                     i = Len(queue[p]) + k /\ m[k].what = w /\ m[k].svc = s
  BY <1>5, ScheduledIs DEF IInv
<1>10. /\ \A q \in Proc, i \in Nat, s \in Svc :
             /\ Is(q, i, "create", s)' <=> Is(q, i, "create", s)
             /\ Is(q, i, "stop", s)' <=> Is(q, i, "stop", s)
             /\ Is(q, i, "args", s)' => Is(q, i, "args", s)
                   \/ (q = p /\ s = r /\ p \in alive /\ i > Len(queue[p]))
  <2>1. ASSUME NEW q \in Proc, NEW i \in Nat, NEW s \in Svc
        PROVE  /\ Is(q, i, "create", s)' <=> Is(q, i, "create", s)
               /\ Is(q, i, "stop", s)' <=> Is(q, i, "stop", s)
    <3>1. \A k \in 1..Len(m) : m[k].what # "create" /\ m[k].what # "stop"
      BY <1>5
    <3>2. \A w : w = "create" \/ w = "stop" => (Is(q, i, w, s)' <=> Is(q, i, w, s))
      BY <1>9, <3>1
    <3> QED BY <3>2
  <2>2. ASSUME NEW q \in Proc, NEW i \in Nat, NEW s \in Svc, Is(q, i, "args", s)'
        PROVE  Is(q, i, "args", s) \/ (q = p /\ s = r /\ p \in alive /\ i > Len(queue[p]))
    <3>1. \/ Is(q, i, "args", s)
          \/ q = p /\ p \in alive /\ \E k \in 1..Len(m) : i = Len(queue[p]) + k /\ m[k].svc = s
      BY <1>9, <2>2
    <3> QED BY <1>5, <1>8, <3>1
  <2> QED BY <2>1, <2>2
<1>11. \A q \in Proc, s \in Svc : Done(q, s)' <=> Done(q, s)
  BY <1>1 DEF Done
<1>12. TypeInv'
  <2>1. job' \in Jobs /\ pc' \in {"idle", "bind"} /\ (pc' = "bind" => job'.op = "bind")
    BY <1>1, <1>2 DEF IInv, TypeInv, TypeOK, Jobs, NoJob
  <2>2. pc' # "idle" /\ job'.op # "start" => job'.conn \in Conn
    BY <1>1 DEF IInv, TypeInv
  <2>3. \A q \in Proc : \A i \in DOMAIN queue'[q] : queue'[q][i] \in Message
    BY <1>7
  <2> QED BY <1>1, <1>6, <1>7, <2>1, <2>2, <2>3 DEF IInv, TypeInv, TypeOK, table, hist
<1>13. BoundInv' /\ BornInv'
  <2>1. BoundInv'
    <3>1. \A s \in Svc : sr'[s].proc = Null => sr'[s] = sr[s]
      BY <1>1, <1>4, <1>6, ServiceLifecycleAssumption DEF IInv, TypeInv, TypeOK
    <3> QED BY <1>1, <1>6, <3>1 DEF IInv, BoundInv
  <2> QED BY <1>1, <1>6, <1>7, <2>1 DEF IInv, BornInv, Started, table
<1>14. FiledInv'
  <2>1. \A s \in Svc : sr[s].proc # Null => sr'[s].proc = sr[s].proc
    BY <1>6
  <2>2. \A q \in Proc : \A i \in 1..Len(queue'[q]) :
          /\ sr'[queue'[q][i].svc].proc # Null
          /\ queue'[q][i].what # "args" => sr'[queue'[q][i].svc].proc = q
    <3>1. \A k \in 1..Len(m) : sr'[m[k].svc].proc # Null
                              /\ (m[k].what # "args" => sr'[m[k].svc].proc = p)
      BY <1>1, <1>5, <1>6, ServiceLifecycleAssumption
    <3> QED BY <1>5, <2>1, <3>1, ScheduledFiled DEF IInv
  <2>3. \A q \in Proc : upcall[q] # Null => sr'[upcall[q].svc].proc = q
    <3>1. \A q \in Proc : upcall[q] # Null => upcall[q].svc \in Svc
      BY DEF IInv, TypeInv, TypeOK, Upcalls
    <3>2. \A q \in Proc : upcall[q] # Null => sr[upcall[q].svc].proc = q
      BY DEF IInv, FiledInv
    <3> QED BY <1>6, <3>1, <3>2
  <2>4. /\ \A s \in mHistory \cup stopped : sr'[s].proc # Null
        /\ \A q \in Proc : \A s \in running[q] : sr'[s].proc = q
    BY <1>6 DEF IInv, TypeInv, TypeOK, FiledInv
  <2> QED BY <1>1, <2>2, <2>3, <2>4 DEF IInv, FiledInv, hist
<1>15. CreateFirst' /\ Tracked' /\ DoneInv'
  BY <1>1, <1>10, <1>11 DEF IInv, CreateFirst, Tracked, DoneInv
<1>16. Backed'
  <2>1. mHistory \subseteq Svc
    BY DEF IInv, TypeInv, TypeOK
  <2> QED BY <1>1, <1>6, <1>10, <1>11, <2>1 DEF IInv, Backed, table, hist
<1>17. ArgsInOrder'
  <2> SUFFICES ASSUME NEW q \in Proc, NEW s \in Svc, NEW i \in Nat, Is(q, i, "args", s)',
                      sr[s].proc = q, s \notin unbindStop
               PROVE  /\ s \in running[q] \/ \E j \in Nat : j < i /\ Is(q, j, "create", s)
                      /\ \A j \in Nat : Is(q, j, "stop", s) => i < j
    BY <1>1, <1>6, <1>10 DEF ArgsInOrder, hist
  <2>1. CASE Is(q, i, "args", s)
    BY <2>1 DEF IInv, ArgsInOrder
  <2>2. CASE q = p /\ s = r /\ p \in alive /\ i > Len(queue[p])
    <3>1. ~Done(q, r) /\ \A j \in Nat : ~Is(q, j, "stop", r)
      BY <1>1, <2>2 DEF IInv, Backed
    <3>2. r \in running[q] \/ \E j \in Nat : Is(q, j, "create", r)
      BY <1>1, <2>2, <3>1 DEF IInv, Backed
    <3>3. \A j \in Nat : Is(q, j, "create", r) => j < i
      BY <1>8, <2>2
    <3> QED BY <2>2, <3>1, <3>2, <3>3
  <2> QED BY <1>10, <2>1, <2>2
<1>18. OneAtATime'
  <2>1. \A q \in Proc, i \in Nat, s \in Svc :
           /\ Is(q, i, "create", s)' <=> Is(q, i, "create", s)
           /\ Is(q, i, "stop", s)' <=> Is(q, i, "stop", s)
    BY <1>10
  <2>2. running' = running /\ OneAtATime
    BY <1>1 DEF IInv
  <2> HIDE DEF Is
  <2>3. ASSUME NEW q \in Proc, NEW s \in Svc, NEW t \in Svc
        PROVE  /\ s \in running[q] /\ t \in running[q] => s = t
               /\ \A k \in Nat : s \in running[q] /\ Is(q, k, "create", t)' =>
                     \E j \in Nat : j < k /\ Is(q, j, "stop", s)'
               /\ \A i, k \in Nat : Is(q, i, "create", s)' /\ Is(q, k, "create", t)' /\ i < k =>
                     \E j \in Nat : i < j /\ j < k /\ Is(q, j, "stop", s)'
    BY <2>1, <2>2 DEF OneAtATime
  <2> QED BY <2>2, <2>3 DEF OneAtATime
<1>19. ViewInv'
  BY <1>1, <1>6 DEF IInv, ViewInv, BelievedOnlyIfLate, hist
<1> QED BY <1>12, <1>13, <1>14, <1>15, <1>16, <1>17, <1>18, <1>19 DEF IInv

-----------------------------------------------------------------------------
(* The main thread takes a message                                         *)

\* What is left moves up by one place.
LEMMA Taken ==
  ASSUME TypeInv, NEW p \in Proc, queue[p] # <<>>, queue' = [queue EXCEPT ![p] = Tail(@)]
  PROVE  /\ queue' \in [Proc -> Seq(Message)]
         /\ \A q \in Proc : q # p => queue'[q] = queue[q]
         /\ Head(queue[p]) = queue[p][1] /\ Head(queue[p]) \in Message
         /\ Len(queue[p]) \in Nat /\ Len(queue[p]) > 0
         /\ Len(queue'[p]) = Len(queue[p]) - 1
         /\ \A i \in 1..Len(queue'[p]) : queue'[p][i] = queue[p][i + 1]
<1>1. queue \in [Proc -> Seq(Message)] /\ queue[p] \in Seq(Message)
  BY DEF TypeInv
<1>2. queue'[p] = Tail(queue[p]) /\ \A q \in Proc : q # p => queue'[q] = queue[q]
  BY <1>1
<1>3. /\ Head(queue[p]) = queue[p][1] /\ Head(queue[p]) \in Message
      /\ Len(queue[p]) \in Nat /\ Len(queue[p]) > 0
      /\ Tail(queue[p]) \in Seq(Message) /\ Len(Tail(queue[p])) = Len(queue[p]) - 1
      /\ \A i \in 1..Len(Tail(queue[p])) : Tail(queue[p])[i] = queue[p][i + 1]
  BY <1>1
<1> QED BY <1>1, <1>2, <1>3

LEMMA TakenIs ==
  ASSUME TypeInv, NEW p \in Proc, queue[p] # <<>>, queue' = [queue EXCEPT ![p] = Tail(@)]
  PROVE  /\ \A q \in Proc, i \in Nat : \A w, s : q # p => (Is(q, i, w, s)' <=> Is(q, i, w, s))
         /\ \A i \in Nat : \A w, s : Is(p, i, w, s)' => i > 0 /\ Is(p, i + 1, w, s)
         /\ \A i \in Nat : \A w, s : i > 0 /\ Is(p, i + 1, w, s) => Is(p, i, w, s)'
         /\ \A i \in Nat : \A w, s : Is(p, i, w, s) => i > 0
         /\ \A w, s : Is(p, 1, w, s) <=> w = Head(queue[p]).what /\ s = Head(queue[p]).svc
<1>1. /\ \A q \in Proc, i \in Nat : \A w, s : q # p => (Is(q, i, w, s)' <=> Is(q, i, w, s))
      /\ \A i \in Nat : \A w, s : Is(p, i, w, s) => i > 0
  BY Taken DEF Is, TypeInv
<1>2. \A w, s : Is(p, 1, w, s) <=> w = Head(queue[p]).what /\ s = Head(queue[p]).svc
  BY Taken DEF Is
<1>3. ASSUME NEW i \in Nat, NEW w, NEW s
      PROVE  Is(p, i, w, s)' <=> i > 0 /\ Is(p, i + 1, w, s)
  <2>1. i \in 1..Len(queue'[p]) <=> i > 0 /\ i + 1 \in 1..Len(queue[p])
    <3>1. Len(queue[p]) \in Nat /\ Len(queue'[p]) = Len(queue[p]) - 1
      BY Taken
    <3> QED BY <3>1
  <2> QED BY <2>1, Taken DEF Is
<1> QED BY <1>1, <1>2, <1>3

\* The queue of p without its first message, which is (w, r).
Moved(p, w, r) ==
    /\ \A q \in Proc, i \in Nat, s \in Svc : q # p =>
          /\ Is(q, i, "create", s)' <=> Is(q, i, "create", s)
          /\ Is(q, i, "args", s)' <=> Is(q, i, "args", s)
          /\ Is(q, i, "stop", s)' <=> Is(q, i, "stop", s)
    /\ \A i \in Nat, s \in Svc :
          /\ Is(p, i, "create", s)' => i > 0 /\ Is(p, i + 1, "create", s)
          /\ Is(p, i, "args", s)' => i > 0 /\ Is(p, i + 1, "args", s)
          /\ Is(p, i, "stop", s)' => i > 0 /\ Is(p, i + 1, "stop", s)
    /\ \A i \in Nat, s \in Svc :
          /\ i > 1 /\ Is(p, i, "create", s) => i - 1 \in Nat /\ Is(p, i - 1, "create", s)'
          /\ i > 1 /\ Is(p, i, "stop", s) => i - 1 \in Nat /\ Is(p, i - 1, "stop", s)'
    /\ \A i \in Nat, s \in Svc :
          /\ Is(p, i, "create", s) => i > 1 \/ (i = 1 /\ w = "create" /\ s = r)
          /\ Is(p, i, "stop", s) => i > 1 \/ (i = 1 /\ w = "stop" /\ s = r)
    /\ w = "create" => Is(p, 1, "create", r)
    /\ w = "stop" => Is(p, 1, "stop", r)

LEMMA TakenMoved ==
  ASSUME TypeInv, NEW p \in Proc, queue[p] # <<>>, queue' = [queue EXCEPT ![p] = Tail(@)],
         NEW w, NEW r, w = Head(queue[p]).what, r = Head(queue[p]).svc
  PROVE  Moved(p, w, r)
<1>1. /\ \A q \in Proc, i \in Nat : \A v, s : q # p => (Is(q, i, v, s)' <=> Is(q, i, v, s))
      /\ \A i \in Nat : \A v, s : Is(p, i, v, s)' => i > 0 /\ Is(p, i + 1, v, s)
      /\ \A i \in Nat : \A v, s : i > 0 /\ Is(p, i + 1, v, s) => Is(p, i, v, s)'
      /\ \A i \in Nat : \A v, s : Is(p, i, v, s) => i > 0
      /\ \A v, s : Is(p, 1, v, s) <=> v = w /\ s = r
  BY TakenIs
<1>2. ASSUME NEW q \in Proc, NEW i \in Nat, NEW s \in Svc, q # p
      PROVE  /\ Is(q, i, "create", s)' <=> Is(q, i, "create", s)
             /\ Is(q, i, "args", s)' <=> Is(q, i, "args", s)
             /\ Is(q, i, "stop", s)' <=> Is(q, i, "stop", s)
  BY <1>1, <1>2
<1>3. ASSUME NEW i \in Nat, NEW v, NEW s \in Svc
      PROVE  /\ i > 1 /\ Is(p, i, v, s) => i - 1 \in Nat /\ Is(p, i - 1, v, s)'
             /\ Is(p, i, v, s) => i > 1 \/ (i = 1 /\ w = v /\ s = r)
  <2>1. CASE i > 1
    <3>1. PICK j \in Nat : j = i - 1 /\ i = j + 1 /\ j > 0
      BY <2>1
    <3> QED BY <1>1, <2>1, <3>1
  <2>2. CASE i = 1
    BY <1>1, <2>2
  <2>3. CASE i = 0
    BY <1>1, <2>3
  <2> QED BY <2>1, <2>2, <2>3
<1>4. ASSUME NEW i \in Nat, NEW v, NEW s \in Svc
      PROVE  Is(p, i, v, s)' => i > 0 /\ Is(p, i + 1, v, s)
  BY <1>1
<1>5. (w = "create" => Is(p, 1, "create", r)) /\ (w = "stop" => Is(p, 1, "stop", r))
  BY <1>1
<1> QED BY <1>2, <1>3, <1>4, <1>5 DEF Moved

\* CREATE: nothing else runs, and the instance runs from now on.
LEMMA HandleCreate ==
  ASSUME IInv, NEW p \in Proc, p \in alive, NEW r \in Svc, Moved(p, "create", r),
         running' = [running EXCEPT ![p] = @ \cup {r}],
         UNCHANGED <<upcall, mHistory, alive, sr, unbindStop>>
  PROVE  CreateFirst' /\ Tracked' /\ Backed' /\ DoneInv' /\ ArgsInOrder' /\ OneAtATime'
<1>1. /\ running'[p] = running[p] \cup {r}
      /\ \A q \in Proc : q # p => running'[q] = running[q]
  BY DEF IInv, TypeInv, TypeOK
<1>2. Is(p, 1, "create", r)
  BY DEF Moved
<1>3. /\ r \notin running[p] /\ ~Done(p, r)
      /\ \A j \in Nat : Is(p, j, "create", r) => j = 1
      /\ \A s \in running[p] : \E j \in Nat : j < 1 /\ Is(p, j, "stop", s)
  <2>1. running[p] \subseteq Svc
    BY DEF IInv, TypeInv, TypeOK
  <2> QED BY <1>2, <2>1 DEF IInv, CreateFirst, OneAtATime
<1>4. running'[p] = {r}
  <2>1. \A s \in running[p] : FALSE
    <3>1. \A j \in Nat, s \in Svc : Is(p, j, "stop", s) => j > 1
      BY DEF Moved
    <3>2. running[p] \subseteq Svc
      BY DEF IInv, TypeInv, TypeOK
    <3> QED BY <1>3, <3>1, <3>2
  <2> QED BY <1>1, <2>1
<1>5. \A q \in Proc, s \in Svc : Done(q, s)' <=> Done(q, s)
  BY DEF Done
<1>6. CreateFirst'
  <2> SUFFICES ASSUME NEW q \in Proc, NEW s \in Svc, NEW i \in Nat, Is(q, i, "create", s)'
               PROVE  /\ s \notin running'[q] /\ ~Done(q, s)
                      /\ \A j \in Nat : Is(q, j, "create", s)' => i = j
                      /\ \A j \in Nat : Is(q, j, "stop", s)' => i < j
    BY <1>5 DEF CreateFirst
  <2>1. CASE q # p
    BY <1>1, <2>1 DEF IInv, CreateFirst, Moved
  <2>2. CASE q = p
    <3>1. i > 0 /\ i + 1 \in Nat /\ Is(p, i + 1, "create", s)
      BY <2>2 DEF Moved
    <3>2. s # r
      BY <1>3, <3>1
    <3>3. /\ \A j \in Nat : Is(p, j, "create", s) => i + 1 = j
          /\ \A j \in Nat : Is(p, j, "stop", s) => i + 1 < j
          /\ ~Done(p, s)
      BY <3>1 DEF IInv, CreateFirst
    <3>4. \A j \in Nat : Is(p, j, "create", s)' => i + 1 = j + 1
      BY <3>3 DEF Moved
    <3>5. \A j \in Nat : Is(p, j, "stop", s)' => i + 1 < j + 1
      BY <3>3 DEF Moved
    <3> QED BY <1>4, <2>2, <3>2, <3>3, <3>4, <3>5
  <2> QED BY <2>1, <2>2
<1>7. Tracked'
  <2> SUFFICES ASSUME NEW q \in Proc, NEW s \in Svc,
                      s \in running'[q] \/ (\E i \in Nat : Is(q, i, "create", s)')
               PROVE  s \in mHistory \/ \E j \in Nat : Is(q, j, "stop", s)'
    BY DEF Tracked
  <2>1. CASE q # p
    BY <1>1, <2>1 DEF IInv, Tracked, Moved
  <2>2. CASE q = p
    <3>1. \E i \in Nat : Is(p, i, "create", s)
      BY <1>2, <1>4, <2>2 DEF Moved
    <3>2. s \in mHistory \/ \E j \in Nat : Is(p, j, "stop", s)
      BY <3>1 DEF IInv, Tracked
    <3> QED BY <2>2, <3>2 DEF Moved
  <2> QED BY <2>1, <2>2
<1>8. Backed'
  <2>1. mHistory \subseteq Svc
    BY DEF IInv, TypeInv, TypeOK
  <2>2. ASSUME NEW s \in mHistory, NEW q \in Proc, q = sr[s].proc, q \in alive
        PROVE  s \in running'[q] \/ Done(q, s)' \/ \E i \in Nat : Is(q, i, "create", s)'
    <3>1. s \in running[q] \/ Done(q, s) \/ \E i \in Nat : Is(q, i, "create", s)
      BY <2>2 DEF IInv, Backed
    <3>2. CASE q # p
      BY <1>1, <1>5, <2>1, <3>1, <3>2 DEF Moved
    <3>3. CASE q = p /\ s # r
      BY <1>1, <1>5, <2>1, <3>1, <3>3 DEF Moved
    <3> QED BY <1>4, <3>2, <3>3
  <2>3. ASSUME NEW s \in mHistory, NEW q \in Proc,
               Done(q, s)' \/ (\E j \in Nat : Is(q, j, "stop", s)')
        PROVE  s \in unbindStop
    <3>1. Done(q, s) \/ (\E j \in Nat : Is(q, j, "stop", s))
      BY <1>5, <2>1, <2>3 DEF Moved
    <3> QED BY <3>1 DEF IInv, Backed
  <2> QED BY <2>2, <2>3 DEF Backed
<1>9. DoneInv'
  BY <1>1, <1>3, <1>5 DEF IInv, DoneInv
<1>10. ArgsInOrder'
  <2> SUFFICES ASSUME NEW q \in Proc, NEW s \in Svc, NEW i \in Nat, Is(q, i, "args", s)',
                      sr[s].proc = q, s \notin unbindStop
               PROVE  /\ s \in running'[q] \/ \E j \in Nat : j < i /\ Is(q, j, "create", s)'
                      /\ \A j \in Nat : Is(q, j, "stop", s)' => i < j
    BY DEF ArgsInOrder
  <2>1. CASE q # p
    BY <1>1, <2>1 DEF IInv, ArgsInOrder, Moved
  <2>2. CASE q = p
    <3>1. i + 1 \in Nat /\ Is(p, i + 1, "args", s)
      BY <2>2 DEF Moved
    <3>2. /\ s \in running[p] \/ \E j \in Nat : j < i + 1 /\ Is(p, j, "create", s)
          /\ \A j \in Nat : Is(p, j, "stop", s) => i + 1 < j
      BY <2>2, <3>1 DEF IInv, ArgsInOrder
    <3>3. \A j \in Nat : Is(p, j, "stop", s)' => i + 1 < j + 1
      BY <3>2 DEF Moved
    <3>4. ASSUME NEW j \in Nat, j < i + 1, Is(p, j, "create", s), s # r
          PROVE  j - 1 \in Nat /\ j - 1 < i /\ Is(p, j - 1, "create", s)'
      BY <3>4 DEF Moved
    <3> QED BY <1>1, <1>4, <2>2, <3>2, <3>3, <3>4
  <2> QED BY <2>1, <2>2
<1>11. OneAtATime'
  <2>1. ASSUME NEW q \in Proc, NEW s \in Svc, NEW t \in Svc, q # p
        PROVE  /\ s \in running'[q] /\ t \in running'[q] => s = t
               /\ \A k \in Nat : s \in running'[q] /\ Is(q, k, "create", t)' =>
                     \E j \in Nat : j < k /\ Is(q, j, "stop", s)'
               /\ \A i, k \in Nat : Is(q, i, "create", s)' /\ Is(q, k, "create", t)' /\ i < k =>
                     \E j \in Nat : i < j /\ j < k /\ Is(q, j, "stop", s)'
    BY <1>1, <2>1 DEF IInv, OneAtATime, Moved
  <2>2. ASSUME NEW s \in Svc, NEW t \in Svc, NEW i \in Nat, NEW k \in Nat,
               Is(p, i, "create", s), Is(p, k + 1, "create", t), i < k + 1
        PROVE  \E j \in Nat : i < j + 1 /\ j < k /\ Is(p, j, "stop", s)'
    <3>1. PICK j \in Nat : i < j /\ j < k + 1 /\ Is(p, j, "stop", s)
      <4>1. k + 1 \in Nat
        OBVIOUS
      <4> QED BY <2>2, <4>1 DEF IInv, OneAtATime
    <3>2. j - 1 \in Nat /\ Is(p, j - 1, "stop", s)'
      BY <3>1 DEF Moved
    <3> QED BY <3>1, <3>2
  <2>3. ASSUME NEW s \in Svc, NEW t \in Svc
        PROVE  /\ s \in running'[p] /\ t \in running'[p] => s = t
               /\ \A k \in Nat : s \in running'[p] /\ Is(p, k, "create", t)' =>
                     \E j \in Nat : j < k /\ Is(p, j, "stop", s)'
    <3>1. ASSUME NEW k \in Nat, Is(p, k, "create", t)'
          PROVE  \E j \in Nat : j < k /\ Is(p, j, "stop", r)'
      <4>1. Is(p, k + 1, "create", t) /\ 1 < k + 1 /\ 1 \in Nat
        BY <3>1 DEF Moved
      <4> QED BY <1>2, <2>2, <4>1
    <3> QED BY <1>4, <3>1
  <2>4. ASSUME NEW s \in Svc, NEW t \in Svc, NEW i \in Nat, NEW k \in Nat,
               Is(p, i, "create", s)', Is(p, k, "create", t)', i < k
        PROVE  \E j \in Nat : i < j /\ j < k /\ Is(p, j, "stop", s)'
    <3>1. Is(p, i + 1, "create", s) /\ Is(p, k + 1, "create", t) /\ i + 1 \in Nat /\ i + 1 < k + 1
      BY <2>4 DEF Moved
    <3>2. \E j \in Nat : i + 1 < j + 1 /\ j < k /\ Is(p, j, "stop", s)'
      BY <2>2, <3>1
    <3> QED BY <3>2
  <2> QED BY <2>1, <2>3, <2>4 DEF OneAtATime
<1> QED BY <1>6, <1>7, <1>8, <1>9, <1>10, <1>11

\* STOP: the instance is gone, and its process has it to report.
LEMMA HandleStop ==
  ASSUME IInv, NEW p \in Proc, p \in alive, NEW r \in Svc, Moved(p, "stop", r),
         running' = [running EXCEPT ![p] = @ \ {r}],
         \A q \in Proc, s \in Svc : s # r \/ q # p => (Done(q, s)' <=> Done(q, s)),
         r \in running[p] => Done(p, r)',
         r \notin running[p] => ~Done(p, r)',
         UNCHANGED <<mHistory, alive, sr, unbindStop>>, ~Done(p, r)
  PROVE  CreateFirst' /\ Tracked' /\ Backed' /\ DoneInv' /\ ArgsInOrder' /\ OneAtATime'
<1>1. /\ running'[p] = running[p] \ {r}
      /\ \A q \in Proc : q # p => running'[q] = running[q]
  BY DEF IInv, TypeInv, TypeOK
<1>2. Is(p, 1, "stop", r)
  BY DEF Moved
<1>3. \A i \in Nat : ~Is(p, i, "create", r)
  <2>1. \A i \in Nat : Is(p, i, "create", r) => i < 1
    BY <1>2 DEF IInv, CreateFirst
  <2> QED BY <2>1 DEF Moved
<1>4. CreateFirst'
  <2> SUFFICES ASSUME NEW q \in Proc, NEW s \in Svc, NEW i \in Nat, Is(q, i, "create", s)'
               PROVE  /\ s \notin running'[q] /\ ~Done(q, s)'
                      /\ \A j \in Nat : Is(q, j, "create", s)' => i = j
                      /\ \A j \in Nat : Is(q, j, "stop", s)' => i < j
    BY DEF CreateFirst
  <2>1. CASE q # p
    BY <1>1, <2>1 DEF IInv, CreateFirst, Moved
  <2>2. CASE q = p
    <3>1. i > 0 /\ i + 1 \in Nat /\ Is(p, i + 1, "create", s)
      BY <2>2 DEF Moved
    <3>2. s # r
      BY <1>3, <3>1
    <3>3. /\ \A j \in Nat : Is(p, j, "create", s) => i + 1 = j
          /\ \A j \in Nat : Is(p, j, "stop", s) => i + 1 < j
          /\ ~Done(p, s) /\ s \notin running[p]
      BY <3>1 DEF IInv, CreateFirst
    <3>4. \A j \in Nat : Is(p, j, "create", s)' => i + 1 = j + 1
      BY <3>3 DEF Moved
    <3>5. \A j \in Nat : Is(p, j, "stop", s)' => i + 1 < j + 1
      BY <3>3 DEF Moved
    <3> QED BY <1>1, <2>2, <3>2, <3>3, <3>4, <3>5
  <2> QED BY <2>1, <2>2
<1>5. Tracked'
  <2> SUFFICES ASSUME NEW q \in Proc, NEW s \in Svc,
                      s \in running'[q] \/ (\E i \in Nat : Is(q, i, "create", s)')
               PROVE  s \in mHistory \/ \E j \in Nat : Is(q, j, "stop", s)'
    BY DEF Tracked
  <2>1. CASE q # p
    BY <1>1, <2>1 DEF IInv, Tracked, Moved
  <2>2. CASE q = p
    <3>1. s # r /\ (s \in running[p] \/ \E i \in Nat : Is(p, i, "create", s))
      BY <1>1, <1>3, <2>2 DEF Moved
    <3>2. s \in mHistory \/ \E j \in Nat : Is(p, j, "stop", s)
      BY <3>1 DEF IInv, Tracked
    <3> QED BY <2>2, <3>1, <3>2 DEF Moved
  <2> QED BY <2>1, <2>2
<1>6. Backed'
  <2>1. mHistory \subseteq Svc
    BY DEF IInv, TypeInv, TypeOK
  <2>2. ASSUME NEW s \in mHistory, NEW q \in Proc, q = sr[s].proc, q \in alive
        PROVE  s \in running'[q] \/ Done(q, s)' \/ \E i \in Nat : Is(q, i, "create", s)'
    <3>1. s \in running[q] \/ Done(q, s) \/ \E i \in Nat : Is(q, i, "create", s)
      BY <2>2 DEF IInv, Backed
    <3>2. CASE q # p
      BY <1>1, <2>1, <3>1, <3>2 DEF Moved
    <3>3. CASE q = p /\ s # r
      BY <1>1, <2>1, <3>1, <3>3 DEF Moved
    <3>4. CASE q = p /\ s = r
      BY <1>3, <3>1, <3>4
    <3> QED BY <3>2, <3>3, <3>4
  <2>3. ASSUME NEW s \in mHistory, NEW q \in Proc,
               Done(q, s)' \/ (\E j \in Nat : Is(q, j, "stop", s)')
        PROVE  s \in unbindStop
    <3>1. Done(q, s) \/ (\E j \in Nat : Is(q, j, "stop", s))
      BY <1>2, <2>1, <2>3 DEF Moved
    <3> QED BY <3>1 DEF IInv, Backed
  <2> QED BY <2>2, <2>3 DEF Backed
<1>7. DoneInv'
  BY <1>1 DEF IInv, DoneInv
<1>8. ArgsInOrder'
  <2> SUFFICES ASSUME NEW q \in Proc, NEW s \in Svc, NEW i \in Nat, Is(q, i, "args", s)',
                      sr[s].proc = q, s \notin unbindStop
               PROVE  /\ s \in running'[q] \/ \E j \in Nat : j < i /\ Is(q, j, "create", s)'
                      /\ \A j \in Nat : Is(q, j, "stop", s)' => i < j
    BY DEF ArgsInOrder
  <2>1. CASE q # p
    BY <1>1, <2>1 DEF IInv, ArgsInOrder, Moved
  <2>2. CASE q = p
    <3>1. i > 0 /\ i + 1 \in Nat /\ Is(p, i + 1, "args", s)
      BY <2>2 DEF Moved
    <3>2. /\ s \in running[p] \/ \E j \in Nat : j < i + 1 /\ Is(p, j, "create", s)
          /\ \A j \in Nat : Is(p, j, "stop", s) => i + 1 < j
      BY <2>2, <3>1 DEF IInv, ArgsInOrder
    <3>3. \A j \in Nat : Is(p, j, "stop", s)' => i + 1 < j + 1
      BY <3>2 DEF Moved
    <3>4. s # r
      BY <1>2, <3>1, <3>2
    <3>5. ASSUME NEW j \in Nat, j < i + 1, Is(p, j, "create", s)
          PROVE  j - 1 \in Nat /\ j - 1 < i /\ Is(p, j - 1, "create", s)'
      BY <3>5 DEF Moved
    <3> QED BY <1>1, <2>2, <3>2, <3>3, <3>4, <3>5
  <2> QED BY <2>1, <2>2
<1>9. OneAtATime'
  <2>1. ASSUME NEW q \in Proc, NEW s \in Svc, NEW t \in Svc, q # p
        PROVE  /\ s \in running'[q] /\ t \in running'[q] => s = t
               /\ \A k \in Nat : s \in running'[q] /\ Is(q, k, "create", t)' =>
                     \E j \in Nat : j < k /\ Is(q, j, "stop", s)'
               /\ \A i, k \in Nat : Is(q, i, "create", s)' /\ Is(q, k, "create", t)' /\ i < k =>
                     \E j \in Nat : i < j /\ j < k /\ Is(q, j, "stop", s)'
    BY <1>1, <2>1 DEF IInv, OneAtATime, Moved
  <2>2. ASSUME NEW s \in Svc, NEW t \in Svc
        PROVE  /\ s \in running'[p] /\ t \in running'[p] => s = t
               /\ \A k \in Nat : s \in running'[p] /\ Is(p, k, "create", t)' =>
                     \E j \in Nat : j < k /\ Is(p, j, "stop", s)'
    <3>1. ASSUME NEW k \in Nat, s \in running'[p], Is(p, k, "create", t)'
          PROVE  \E j \in Nat : j < k /\ Is(p, j, "stop", s)'
      <4>1. Is(p, k + 1, "create", t) /\ k + 1 \in Nat /\ s \in running[p] /\ s # r
        BY <1>1, <3>1 DEF Moved
      <4>2. PICK j \in Nat : j < k + 1 /\ Is(p, j, "stop", s)
        BY <4>1 DEF IInv, OneAtATime
      <4>3. j - 1 \in Nat /\ Is(p, j - 1, "stop", s)'
        BY <4>1, <4>2 DEF Moved
      <4> QED BY <4>2, <4>3
    <3> QED BY <1>1, <3>1 DEF IInv, OneAtATime
  <2>3. ASSUME NEW s \in Svc, NEW t \in Svc, NEW i \in Nat, NEW k \in Nat,
               Is(p, i, "create", s)', Is(p, k, "create", t)', i < k
        PROVE  \E j \in Nat : i < j /\ j < k /\ Is(p, j, "stop", s)'
    <3>1. Is(p, i + 1, "create", s) /\ Is(p, k + 1, "create", t)
          /\ i + 1 \in Nat /\ k + 1 \in Nat /\ i + 1 < k + 1
      BY <2>3 DEF Moved
    <3>2. PICK j \in Nat : i + 1 < j /\ j < k + 1 /\ Is(p, j, "stop", s)
      BY <3>1 DEF IInv, OneAtATime
    <3>3. j - 1 \in Nat /\ Is(p, j - 1, "stop", s)'
      BY <3>2 DEF Moved
    <3> QED BY <3>2, <3>3
  <2> QED BY <2>1, <2>2, <2>3 DEF OneAtATime
<1> QED BY <1>4, <1>5, <1>6, <1>7, <1>8, <1>9

\* Any other message leaves the instances of a process as they are.
LEMMA HandleOther ==
  ASSUME IInv, NEW p \in Proc, p \in alive, NEW r \in Svc, NEW w,
         w \notin {"create", "stop"}, Moved(p, w, r), running' = running,
         \A q \in Proc, s \in Svc : Done(q, s)' <=> Done(q, s),
         UNCHANGED <<mHistory, alive, sr, unbindStop>>
  PROVE  CreateFirst' /\ Tracked' /\ Backed' /\ DoneInv' /\ ArgsInOrder' /\ OneAtATime'
<1>1. /\ \A i \in Nat, s \in Svc :
            /\ Is(p, i, "create", s)' => i > 0 /\ Is(p, i + 1, "create", s)
            /\ Is(p, i, "args", s)' => i > 0 /\ Is(p, i + 1, "args", s)
            /\ Is(p, i, "stop", s)' => i > 0 /\ Is(p, i + 1, "stop", s)
      /\ \A i \in Nat, s \in Svc :
            /\ Is(p, i, "create", s) => i > 1 /\ i - 1 \in Nat /\ Is(p, i - 1, "create", s)'
            /\ Is(p, i, "stop", s) => i > 1 /\ i - 1 \in Nat /\ Is(p, i - 1, "stop", s)'
  BY DEF Moved
<1>2. \A q \in Proc, i \in Nat, s \in Svc : q # p =>
         /\ Is(q, i, "create", s)' <=> Is(q, i, "create", s)
         /\ Is(q, i, "args", s)' <=> Is(q, i, "args", s)
         /\ Is(q, i, "stop", s)' <=> Is(q, i, "stop", s)
  BY DEF Moved
<1>3. CreateFirst'
  <2> SUFFICES ASSUME NEW q \in Proc, NEW s \in Svc, NEW i \in Nat, Is(q, i, "create", s)'
               PROVE  /\ s \notin running[q] /\ ~Done(q, s)
                      /\ \A j \in Nat : Is(q, j, "create", s)' => i = j
                      /\ \A j \in Nat : Is(q, j, "stop", s)' => i < j
    BY DEF CreateFirst
  <2>1. CASE q # p
    BY <1>2, <2>1 DEF IInv, CreateFirst
  <2>2. CASE q = p
    <3>1. i > 0 /\ i + 1 \in Nat /\ Is(p, i + 1, "create", s)
      BY <1>1, <2>2
    <3>2. /\ \A j \in Nat : Is(p, j, "create", s) => i + 1 = j
          /\ \A j \in Nat : Is(p, j, "stop", s) => i + 1 < j
          /\ ~Done(p, s) /\ s \notin running[p]
      BY <3>1 DEF IInv, CreateFirst
    <3>3. \A j \in Nat : Is(p, j, "create", s)' => i + 1 = j + 1
      BY <1>1, <3>2
    <3>4. \A j \in Nat : Is(p, j, "stop", s)' => i + 1 < j + 1
      BY <1>1, <3>2
    <3> QED BY <2>2, <3>2, <3>3, <3>4
  <2> QED BY <2>1, <2>2
<1>4. \A q \in Proc, s \in Svc :
         /\ (\E i \in Nat : Is(q, i, "create", s)') <=> (\E i \in Nat : Is(q, i, "create", s))
         /\ (\E i \in Nat : Is(q, i, "stop", s)') <=> (\E i \in Nat : Is(q, i, "stop", s))
  <2>1. ASSUME NEW q \in Proc, NEW s \in Svc
        PROVE  /\ (\E i \in Nat : Is(q, i, "create", s)') <=> (\E i \in Nat : Is(q, i, "create", s))
               /\ (\E i \in Nat : Is(q, i, "stop", s)') <=> (\E i \in Nat : Is(q, i, "stop", s))
    <3>1. CASE q # p
      BY <1>2, <3>1
    <3>2. CASE q = p
      BY <1>1, <3>2
    <3> QED BY <3>1, <3>2
  <2> QED BY <2>1
<1>5. Tracked'
  BY <1>4 DEF IInv, Tracked
<1>6. Backed'
  <2>1. mHistory \subseteq Svc
    BY DEF IInv, TypeInv, TypeOK
  <2> QED BY <1>4, <2>1 DEF IInv, Backed
<1>7. DoneInv'
  BY DEF IInv, DoneInv
<1>8. ArgsInOrder'
  <2> SUFFICES ASSUME NEW q \in Proc, NEW s \in Svc, NEW i \in Nat, Is(q, i, "args", s)',
                      sr[s].proc = q, s \notin unbindStop
               PROVE  /\ s \in running[q] \/ \E j \in Nat : j < i /\ Is(q, j, "create", s)'
                      /\ \A j \in Nat : Is(q, j, "stop", s)' => i < j
    BY DEF ArgsInOrder
  <2>1. CASE q # p
    BY <1>2, <2>1 DEF IInv, ArgsInOrder
  <2>2. CASE q = p
    <3>1. i > 0 /\ i + 1 \in Nat /\ Is(p, i + 1, "args", s)
      BY <1>1, <2>2
    <3>2. /\ s \in running[p] \/ \E j \in Nat : j < i + 1 /\ Is(p, j, "create", s)
          /\ \A j \in Nat : Is(p, j, "stop", s) => i + 1 < j
      BY <2>2, <3>1 DEF IInv, ArgsInOrder
    <3>3. \A j \in Nat : Is(p, j, "stop", s)' => i + 1 < j + 1
      BY <1>1, <3>2
    <3>4. ASSUME NEW j \in Nat, j < i + 1, Is(p, j, "create", s)
          PROVE  j - 1 \in Nat /\ j - 1 < i /\ Is(p, j - 1, "create", s)'
      BY <1>1, <3>4
    <3> QED BY <2>2, <3>2, <3>3, <3>4
  <2> QED BY <2>1, <2>2
<1>9. OneAtATime'
  <2>1. ASSUME NEW q \in Proc, NEW s \in Svc, NEW t \in Svc, q # p
        PROVE  /\ s \in running'[q] /\ t \in running'[q] => s = t
               /\ \A k \in Nat : s \in running'[q] /\ Is(q, k, "create", t)' =>
                     \E j \in Nat : j < k /\ Is(q, j, "stop", s)'
               /\ \A i, k \in Nat : Is(q, i, "create", s)' /\ Is(q, k, "create", t)' /\ i < k =>
                     \E j \in Nat : i < j /\ j < k /\ Is(q, j, "stop", s)'
    BY <1>2, <2>1 DEF IInv, OneAtATime
  <2>2. ASSUME NEW s \in Svc, NEW t \in Svc, NEW k \in Nat, s \in running[p],
               Is(p, k, "create", t)'
        PROVE  \E j \in Nat : j < k /\ Is(p, j, "stop", s)'
    <3>1. Is(p, k + 1, "create", t) /\ k + 1 \in Nat
      BY <1>1, <2>2
    <3>2. PICK j \in Nat : j < k + 1 /\ Is(p, j, "stop", s)
      BY <2>2, <3>1 DEF IInv, OneAtATime
    <3>3. j - 1 \in Nat /\ Is(p, j - 1, "stop", s)'
      BY <1>1, <3>2
    <3> QED BY <3>2, <3>3
  <2>3. ASSUME NEW s \in Svc, NEW t \in Svc, NEW i \in Nat, NEW k \in Nat,
               Is(p, i, "create", s)', Is(p, k, "create", t)', i < k
        PROVE  \E j \in Nat : i < j /\ j < k /\ Is(p, j, "stop", s)'
    <3>1. Is(p, i + 1, "create", s) /\ Is(p, k + 1, "create", t)
          /\ i + 1 \in Nat /\ k + 1 \in Nat /\ i + 1 < k + 1
      BY <1>1, <2>3
    <3>2. PICK j \in Nat : i + 1 < j /\ j < k + 1 /\ Is(p, j, "stop", s)
      BY <3>1 DEF IInv, OneAtATime
    <3>3. j - 1 \in Nat /\ Is(p, j - 1, "stop", s)'
      BY <1>1, <3>2
    <3> QED BY <3>2, <3>3
  <2>4. \A s, t \in Svc : s \in running'[p] /\ t \in running'[p] => s = t
    BY DEF IInv, OneAtATime
  <2> QED BY <2>1, <2>2, <2>3, <2>4 DEF OneAtATime
<1> QED BY <1>3, <1>5, <1>6, <1>7, <1>8, <1>9

\* The main thread handles its first message.
LEMMA HandleMessageStep ==
  ASSUME IInv, NEW p \in Proc, HandleMessage(p)
  PROVE  IInv'
<1> USE ServiceLifecycleAssumption DEF ServiceLifecycleAssumption
<1> DEFINE m == Head(queue[p])
<1>1. /\ p \in alive /\ upcall[p] = Null /\ queue[p] # <<>>
      /\ queue' = [queue EXCEPT ![p] = Tail(@)]
      /\ UNCHANGED <<table, server, mHistory, sr, view, hist>>
  BY DEF HandleMessage
<1>2. TypeInv
  BY DEF IInv
<1>3. m \in Message /\ m = queue[p][1] /\ 1 \in 1..Len(queue[p])
      /\ queue' \in [Proc -> Seq(Message)]
  <2>1. /\ m \in Message /\ m = queue[p][1] /\ queue' \in [Proc -> Seq(Message)]
        /\ Len(queue[p]) \in Nat /\ Len(queue[p]) > 0
    BY <1>1, <1>2, Taken
  <2> QED BY <2>1
<1>4. PICK r \in Svc : r = m.svc
  BY <1>3 DEF Message
<1>5. PICK w \in {"create", "args", "bind", "rebind", "unbind", "stop"} : w = m.what
  BY <1>3 DEF Message
<1>6. Moved(p, w, r)
  BY <1>1, <1>2, <1>4, <1>5, TakenMoved
<1>7. sr[r].proc # Null /\ (w # "args" => sr[r].proc = p)
  BY <1>3, <1>4, <1>5 DEF IInv, FiledInv
<1>8. /\ w = "create" => running' = [running EXCEPT ![p] = @ \cup {r}]
      /\ w = "stop" => running' = [running EXCEPT ![p] = @ \ {r}]
      /\ w \notin {"create", "stop"} => running' = running
  <2>1. running \in [Proc -> SUBSET Svc]
    BY <1>2 DEF TypeInv, TypeOK
  <2>2. running' = [running EXCEPT ![p] = CASE w = "create" -> @ \cup {r}
                                            [] w = "stop"   -> @ \ {r}
                                            [] OTHER        -> @]
    BY <1>4, <1>5 DEF HandleMessage
  <2> QED BY <2>1, <2>2
<1>9. \/ r \in running[p] /\ w = "bind" /\ upcall' = [upcall EXCEPT ![p] = [op |-> "publish", svc |-> r]]
      \/ r \in running[p] /\ w = "unbind"
            /\ upcall' = [upcall EXCEPT ![p] = [op |-> "unbindFinished", svc |-> r]]
      \/ r \in running[p] /\ w = "stop"
            /\ upcall' = [upcall EXCEPT ![p] = [op |-> "doneStop", svc |-> r]]
      \/ (r \notin running[p] \/ w \notin {"bind", "stop"}) /\ upcall' = upcall
  BY <1>4, <1>5 DEF HandleMessage
<1>10. PICK u \in Upcalls \cup {Null} :
         /\ upcall' = [upcall EXCEPT ![p] = u]
         /\ u # Null => u.svc = r /\ r \in running[p] /\ w # "args" /\ w # "create"
         /\ u # Null /\ w = "stop" => u.op = "doneStop"
         /\ u # Null /\ w # "stop" => u.op # "doneStop"
         /\ u = Null /\ w = "stop" => r \notin running[p]
  <2> DEFINE U(op) == [op |-> op, svc |-> r]
  <2>1. ASSUME NEW op \in {"publish", "unbindFinished", "doneStop"}
        PROVE  U(op) \in Upcalls /\ U(op).op = op /\ U(op).svc = r
    BY DEF Upcalls
  <2>2. \A u \in Upcalls : u # Null \/ u = Null
    OBVIOUS
  <2>3. CASE r \in running[p] /\ w = "bind" /\ upcall' = [upcall EXCEPT ![p] = U("publish")]
    <3>1. U("publish") \in Upcalls /\ U("publish").op = "publish" /\ U("publish").svc = r
      BY <2>1
    <3> HIDE DEF U
    <3> QED BY <2>3, <3>1
  <2>4. CASE r \in running[p] /\ w = "unbind"
                /\ upcall' = [upcall EXCEPT ![p] = U("unbindFinished")]
    <3>1. U("unbindFinished") \in Upcalls /\ U("unbindFinished").op = "unbindFinished"
          /\ U("unbindFinished").svc = r
      BY <2>1
    <3> HIDE DEF U
    <3> QED BY <2>4, <3>1
  <2>5. CASE r \in running[p] /\ w = "stop" /\ upcall' = [upcall EXCEPT ![p] = U("doneStop")]
    <3>1. U("doneStop") \in Upcalls /\ U("doneStop").op = "doneStop" /\ U("doneStop").svc = r
      BY <2>1
    <3>2. U("doneStop") # Null
      BY <3>1
    <3> HIDE DEF U
    <3> QED BY <2>5, <3>1, <3>2
  <2>6. CASE (r \notin running[p] \/ w \notin {"bind", "stop"}) /\ upcall' = upcall
    <3>1. upcall' = [upcall EXCEPT ![p] = Null]
      BY <1>1, <1>2, <2>6 DEF TypeInv, TypeOK
    <3> QED BY <2>6, <3>1
  <2> QED BY <1>9, <2>3, <2>4, <2>5, <2>6
<1>12. TypeInv'
  <2>1. upcall' \in [Proc -> Upcalls \cup {Null}]
    BY <1>2, <1>10 DEF TypeInv, TypeOK
  <2>3. running' \in [Proc -> SUBSET Svc]
    <3>1. running \in [Proc -> SUBSET Svc]
      BY <1>2 DEF TypeInv, TypeOK
    <3> QED BY <1>8, <3>1
  <2>2. \A q \in Proc : \A i \in DOMAIN queue'[q] : queue'[q][i] \in Message
    BY <1>3
  <2> QED BY <1>1, <1>2, <1>3, <2>1, <2>2, <2>3 DEF TypeInv, TypeOK, table, server, hist
<1>13. BoundInv' /\ BornInv'
  <2>1. BoundInv'
    BY <1>1 DEF IInv, BoundInv, server
  <2>2. \A q \in Proc \ alive : queue'[q] = <<>> /\ running'[q] = {}
    BY <1>1, <1>2, <1>8 DEF IInv, BornInv, TypeInv, TypeOK
  <2> QED BY <1>1, <2>1, <2>2 DEF IInv, BornInv, Started, table, server
<1>14. \A q \in Proc : upcall'[q] = IF q = p THEN u ELSE upcall[q]
  BY <1>2, <1>10 DEF TypeInv, TypeOK
<1>15. FiledInv'
  <2>1. \A q \in Proc : \A s \in running'[q] : sr[s].proc = q
    <3>1. \A q \in Proc : running'[q] \subseteq running[q] \/ (q = p /\ running'[q] = running[q] \cup {r})
      BY <1>2, <1>8 DEF TypeInv, TypeOK
    <3>2. w = "create" => sr[r].proc = p
      BY <1>7
    <3>3. \A q \in Proc : \A s \in running[q] : sr[s].proc = q
      BY DEF IInv, FiledInv
    <3>4. CASE w = "create"
      BY <3>1, <3>2, <3>3, <3>4
    <3>5. CASE w # "create"
      <4>1. \A q \in Proc : running'[q] \subseteq running[q]
        BY <1>2, <1>8, <3>5, SMTT(30) DEF TypeInv, TypeOK
      <4> QED BY <3>3, <4>1
    <3> QED BY <3>4, <3>5
  <2>2. \A q \in Proc : upcall'[q] # Null => sr[upcall'[q].svc].proc = q
    <3> SUFFICES ASSUME NEW q \in Proc, upcall'[q] # Null
                 PROVE  sr[upcall'[q].svc].proc = q
      OBVIOUS
    <3>1. CASE q = p
      <4>1. upcall'[q] = u /\ u # Null /\ u.svc = r
        BY <1>10, <1>14, <3>1
      <4> QED BY <1>7, <1>10, <3>1, <4>1
    <3>2. CASE q # p
      <4>1. upcall'[q] = upcall[q]
        BY <1>14, <3>2
      <4>2. upcall[q] # Null
        BY <4>1
      <4>3. sr[upcall[q].svc].proc = q
        BY <4>2 DEF IInv, FiledInv
      <4> QED BY <4>1, <4>3
    <3> QED BY <3>1, <3>2
  <2>3. \A q \in Proc : \A i \in 1..Len(queue'[q]) :
          /\ sr[queue'[q][i].svc].proc # Null
          /\ queue'[q][i].what # "args" => sr[queue'[q][i].svc].proc = q
    <3> SUFFICES ASSUME NEW q \in Proc, NEW i \in 1..Len(queue'[q])
                 PROVE  /\ sr[queue'[q][i].svc].proc # Null
                        /\ queue'[q][i].what # "args" => sr[queue'[q][i].svc].proc = q
      OBVIOUS
    <3>1. CASE q # p
      <4>1. queue'[q] = queue[q]
        BY <1>1, <1>2, <3>1, Taken
      <4> QED BY <4>1 DEF IInv, FiledInv
    <3>2. CASE q = p
      <4>1. /\ Len(queue[p]) \in Nat /\ Len(queue'[p]) = Len(queue[p]) - 1
            /\ queue'[p][i] = queue[p][i + 1]
        BY <1>1, <1>2, <3>2, Taken
      <4>2. i + 1 \in 1..Len(queue[p])
        BY <3>2, <4>1
      <4> QED BY <3>2, <4>1, <4>2 DEF IInv, FiledInv
    <3> QED BY <3>1, <3>2
  <2> QED BY <1>1, <2>1, <2>2, <2>3 DEF IInv, FiledInv, hist
<1>16. /\ \A q \in Proc, s \in Svc : s # r \/ q # p => (Done(q, s)' <=> Done(q, s))
       /\ Done(p, r)' <=> u # Null /\ u.op = "doneStop" /\ u.svc = r
       /\ \A s \in Svc : ~Done(p, s)
  <2>1. \A q \in Proc, s \in Svc :
           Done(q, s)' <=> upcall'[q] # Null /\ upcall'[q].op = "doneStop" /\ upcall'[q].svc = s
    BY DEF Done
  <2>2. \A s \in Svc : ~Done(p, s)
    BY <1>1 DEF Done
  <2>3. upcall'[p] = u
    BY <1>14
  <2>4. ASSUME NEW q \in Proc, NEW s \in Svc, q # p
        PROVE  Done(q, s)' <=> Done(q, s)
    <3>1. upcall'[q] = upcall[q]
      BY <1>14, <2>4
    <3> QED BY <2>1, <3>1 DEF Done
  <2>5. ASSUME NEW s \in Svc, s # r
        PROVE  ~Done(p, s)'
    BY <1>10, <2>1, <2>3, <2>5
  <2>6. Done(p, r)' <=> u # Null /\ u.op = "doneStop" /\ u.svc = r
    BY <2>1, <2>3
  <2> QED BY <2>2, <2>4, <2>5, <2>6
<1>17. CreateFirst' /\ Tracked' /\ Backed' /\ DoneInv' /\ ArgsInOrder' /\ OneAtATime'
  <2>1. CASE w = "create"
    <3>1. UNCHANGED <<upcall, mHistory, alive, sr, unbindStop>>
      BY <1>1, <1>9, <2>1 DEF table, hist
    <3>2. Moved(p, "create", r) /\ running' = [running EXCEPT ![p] = @ \cup {r}]
      BY <1>6, <1>8, <2>1
    <3> QED BY <1>1, <3>1, <3>2, HandleCreate
  <2>2. CASE w = "stop"
    <3>1. UNCHANGED <<mHistory, alive, sr, unbindStop>>
      BY <1>1 DEF table, hist
    <3>2. Moved(p, "stop", r) /\ running' = [running EXCEPT ![p] = @ \ {r}]
      BY <1>6, <1>8, <2>2
    <3>3. (r \in running[p] => Done(p, r)') /\ (r \notin running[p] => ~Done(p, r)')
      BY <1>10, <1>16, <2>2
    <3> QED BY <1>1, <1>16, <3>1, <3>2, <3>3, HandleStop
  <2>3. CASE w \notin {"create", "stop"}
    <3>1. UNCHANGED <<mHistory, alive, sr, unbindStop>> /\ running' = running
      BY <1>1, <1>8, <2>3 DEF table, hist
    <3>2. \A q \in Proc, s \in Svc : Done(q, s)' <=> Done(q, s)
      BY <1>10, <1>16, <2>3
    <3> QED BY <1>1, <1>6, <2>3, <3>1, <3>2, HandleOther
  <2> QED BY <2>1, <2>2, <2>3
<1>18. ViewInv'
  BY <1>1 DEF IInv, ViewInv, BelievedOnlyIfLate, hist
<1> QED BY <1>12, <1>13, <1>15, <1>17, <1>18 DEF IInv

-----------------------------------------------------------------------------
(* The theorems                                                            *)

\* Every step keeps the invariant.
LEMMA NextIInv == IInv /\ [Next]_vars => IInv'
<1> SUFFICES ASSUME IInv, [Next]_vars PROVE IInv'
  OBVIOUS
<1>1. CASE Client
  BY <1>1, StartServiceStep, BindServiceStep, UnbindServiceStep, StopServiceStep,
     StopServiceTokenStep DEF Client
<1>2. CASE Serve
  <2>1. ASSUME NEW r \in Svc, CreateRecord(r) PROVE IInv'
    BY <2>1, CreateNewStep, CreateKnownStep
  <2> QED BY <1>2, <2>1, BindRecordStep DEF Serve
<1>3. ASSUME NEW p \in Proc, HandleMessage(p) \/ Upcall(p) \/ Die(p) \/ Notice(p)
      PROVE  IInv'
  BY <1>3, HandleMessageStep, UpcallStep, DieStep, BinderDiedStep, ProcessDeadStep DEF Notice
<1>4. ASSUME NEW c \in Conn, ConnectionDied(c)
      PROVE  IInv'
  BY <1>4, ConnectionDiedStep
<1>5. CASE UNCHANGED vars
  <2>1. UNCHANGED <<cur, alive, buried, notice, pc, job, mHistory, sr, queue, running, upcall, view>>
        /\ UNCHANGED <<unbindStop, stopped, late>>
    BY <1>5 DEF vars, table, server, app, hist
  <2>2. TypeInv' /\ BoundInv' /\ BornInv' /\ FiledInv' /\ DoneInv' /\ ViewInv'
    BY <2>1 DEF IInv, TypeInv, TypeOK, BoundInv, BornInv, Started, FiledInv, DoneInv, Done,
                ViewInv, BelievedOnlyIfLate
  <2>3. CreateFirst' /\ Tracked' /\ Backed'
    BY <2>1 DEF IInv, CreateFirst, Tracked, Backed, Is, Done
  <2>4. ArgsInOrder' /\ OneAtATime'
    BY <2>1 DEF IInv, ArgsInOrder, OneAtATime, Is
  <2> QED BY <2>2, <2>3, <2>4 DEF IInv
<1> QED BY <1>1, <1>2, <1>3, <1>4, <1>5 DEF Next

\* The invariant holds in every reachable state.
THEOREM Invariance == Spec => []IInv
<1> QED BY InitIInv, NextIInv, PTL DEF Spec

\* The variables keep their types.
THEOREM TypeCorrect == Spec => []TypeOK
<1>1. IInv => TypeOK
  BY DEF IInv, TypeInv
<1> QED BY <1>1, Invariance, PTL

\* The message asked for is in the queue.
LEMMA QueuedIs ==
  ASSUME TypeInv, NEW p \in Proc, NEW i \in Nat, NEW w, NEW r, Is(p, i, w, r)
  PROVE  Queued(p, w, r)
<1>1. queue[p] \in Seq(Message) /\ DOMAIN queue[p] = 1..Len(queue[p])
  BY DEF TypeInv
<1> QED BY <1>1 DEF Is, Queued

\* A running instance is known to the server or has its STOP on the way.
THEOREM RunningIsTrackedAlways == Spec => []RunningIsTracked
<1>1. IInv => RunningIsTracked
  <2> SUFFICES ASSUME IInv, NEW p \in Proc, NEW r \in running[p], r \notin mHistory
               PROVE  Queued(p, "stop", r)
    BY DEF RunningIsTracked
  <2>1. r \in Svc /\ TypeInv
    BY DEF IInv, TypeInv, TypeOK
  <2>2. PICK j \in Nat : Is(p, j, "stop", r)
    BY <2>1 DEF IInv, Tracked
  <2> QED BY <2>1, <2>2, QueuedIs
<1> QED BY <1>1, Invariance, PTL

\* No process ever runs two instances of the component.
THEOREM OneInstanceAlways == Spec => []OneInstance
<1>1. IInv => OneInstance
  <2> SUFFICES ASSUME IInv, NEW p \in Proc
               PROVE  Cardinality(running[p]) <= 1
    BY DEF OneInstance
  <2>1. running[p] \subseteq Svc /\ \A r, s \in Svc : r \in running[p] /\ s \in running[p] => r = s
    BY DEF IInv, TypeInv, TypeOK, OneAtATime
  <2>2. CASE running[p] = {}
    BY <2>2, FS_EmptySet
  <2>3. CASE running[p] # {}
    <3>1. PICK r \in Svc : running[p] = {r}
      BY <2>1, <2>3
    <3>2. Cardinality({r}) = 1
      BY FS_Singleton
    <3> QED BY <3>1, <3>2
  <2> QED BY <2>2, <2>3
<1> QED BY <1>1, Invariance, PTL

\* A known record whose process lives is backed by an instance, by a CREATE on
\* the way, or by the report of its stop.
THEOREM KnownIsBackedAlways == Spec => []KnownIsBacked
<1>1. IInv => KnownIsBacked
  <2> SUFFICES ASSUME IInv, NEW r \in mHistory, NEW p, p = sr[r].proc, p \in alive
               PROVE  \/ r \in running[p]
                      \/ Queued(p, "create", r)
                      \/ upcall[p] = [op |-> "doneStop", svc |-> r]
    BY DEF KnownIsBacked
  <2>1. p \in Proc /\ r \in Svc /\ TypeInv
    BY DEF IInv, TypeInv, TypeOK
  <2>2. r \in running[p] \/ Done(p, r) \/ \E i \in Nat : Is(p, i, "create", r)
    BY <2>1 DEF IInv, Backed
  <2>3. CASE Done(p, r)
    <3>1. upcall[p] \in Upcalls /\ upcall[p].op = "doneStop" /\ upcall[p].svc = r
      BY <2>1, <2>3 DEF Done, TypeInv, TypeOK
    <3> QED BY <3>1 DEF Upcalls
  <2>4. CASE \E i \in Nat : Is(p, i, "create", r)
    BY <2>1, <2>4, QueuedIs
  <2> QED BY <2>2, <2>3, <2>4
<1> QED BY <1>1, Invariance, PTL

\* Arguments reach a running instance, unless the record belongs to an earlier
\* process or its last unbind has asked it to stop.
THEOREM StartLostOnlyIfAlways == Spec => []StartLostOnlyIf
<1>1. IInv => StartLostOnlyIf
  <2> SUFFICES ASSUME IInv, NEW p \in Proc, queue[p] # <<>>, Head(queue[p]).what = "args",
                      NEW r, r = Head(queue[p]).svc, sr[r].proc = p, r \notin unbindStop
               PROVE  r \in running[p]
    BY DEF StartLostOnlyIf
  <2>1. queue[p] \in Seq(Message) /\ Head(queue[p]) = queue[p][1] /\ 1 \in 1..Len(queue[p])
        /\ Head(queue[p]) \in Message
    BY DEF IInv, TypeInv
  <2>2. r \in Svc /\ Is(p, 1, "args", r)
    BY <2>1 DEF Message, Is
  <2>3. r \in running[p] \/ \E j \in Nat : j < 1 /\ Is(p, j, "create", r)
    BY <2>2 DEF IInv, ArgsInOrder
  <2>4. \A j \in Nat : Is(p, j, "create", r) => j > 0
    BY DEF Is
  <2> QED BY <2>3, <2>4
<1> QED BY <1>1, Invariance, PTL

\* Only a publish that a stop had overtaken leaves a connection believing in a
\* service that was stopped.
THEOREM BelievedOnlyIfLateAlways == Spec => []BelievedOnlyIfLate
<1>1. IInv => BelievedOnlyIfLate
  BY DEF IInv, ViewInv
<1> QED BY <1>1, Invariance, PTL
=============================================================================
