-------------------------- MODULE ServiceLifecycle --------------------------
(***************************************************************************)
(* The life of one service component of one virtual app under               *)
(* VActivityManagerService: startService, stopService, stopSelf,            *)
(* bindService, unbindService on the server side; CREATE, ARGS, BIND,       *)
(* UNBIND and STOP on the main thread of the app process; the upcalls of    *)
(* that thread; and the death of the process.                               *)
(*                                                                         *)
(* The server's operations hold synchronized(this) and so exclude each      *)
(* other; processDead holds mHistory only and interleaves with them. The    *)
(* process table (module ProcessTable) is reduced to the entry of the app's *)
(* name: cur, the process it names, and buried, the processes whose binder  *)
(* proxy is known to be dead. SDK_INT >= 21.                                *)
(***************************************************************************)
EXTENDS Naturals, Sequences, FiniteSets

CONSTANTS
    Proc,        \* process instances of the app
    Svc,         \* ServiceRecord objects of the component
    Conn,        \* client connections (IServiceConnection)
    MaxStart,    \* bound on the startId of a record
    MaxQueue,    \* bound on the messages waiting in a process when a client calls
    Null

VARIABLES
    cur, alive, buried, \* the process table, reduced
    notice,      \* death notice of each process: "none", "due", "services", "done"
    pc, job,     \* the thread in synchronized(this): next step, operation and locals
    mHistory,    \* the ServiceRecords known
    sr,          \* fields of each ServiceRecord
    queue,       \* messages to the main thread of each process, in order
    running,     \* ActivityThread.mServices of each process
    upcall,      \* the call each main thread is blocked in, or Null
    view,        \* what each connection was last told: Null, "down" or a record
    unbindStop,  \* history: records that unbindService asked to stop
    stopped,     \* history: records that stopServiceCommon asked to stop
    late         \* history: records published after that

table == <<cur, alive, buried, notice>>
server == <<pc, job>>
app == <<queue, running, upcall>>
hist == <<unbindStop, stopped, late>>
vars == <<table, server, mHistory, sr, app, view, hist>>

Message == [what : {"create", "args", "bind", "rebind", "unbind", "stop"}, svc : Svc,
            id : 0 .. MaxStart]
Upcalls == [op : {"publish", "unbindFinished", "doneStop"}, svc : Svc]
Fields  == [proc : Proc \cup {Null}, startId : 0 .. MaxStart, bound : BOOLEAN,
            binder : BOOLEAN, doRebind : BOOLEAN, conns : SUBSET Conn]
Jobs    == [op : {"none", "start", "bind"}, conn : Conn \cup {Null}, app : Proc \cup {Null}]
NoJob   == [op |-> "none", conn |-> Null, app |-> Null]
Msg(w, r, n) == [what |-> w, svc |-> r, id |-> n]

ASSUME ServiceLifecycleAssumption ==
    /\ MaxStart \in Nat \ {0}
    /\ Null \notin Proc \cup Svc \cup Conn \cup Upcalls
    /\ "down" \notin Svc

TypeOK ==
    /\ cur \in Proc \cup {Null} /\ alive \subseteq Proc /\ buried \subseteq Proc
    /\ notice \in [Proc -> {"none", "due", "services", "done"}]
    /\ pc \in {"idle", "create", "bind"} /\ job \in Jobs
    /\ mHistory \subseteq Svc
    /\ sr \in [Svc -> Fields]
    /\ \A p \in Proc : \A i \in DOMAIN queue[p] : queue[p][i] \in Message
    /\ running \in [Proc -> SUBSET Svc]
    /\ upcall \in [Proc -> Upcalls \cup {Null}]
    /\ view \in [Conn -> Svc \cup {"down", Null}]
    /\ unbindStop \subseteq Svc /\ stopped \subseteq Svc /\ late \subseteq Svc

Init ==
    /\ cur = Null /\ alive = {} /\ buried = {}
    /\ notice = [p \in Proc |-> "none"]
    /\ pc = "idle" /\ job = NoJob
    /\ mHistory = {}
    /\ sr = [r \in Svc |-> [proc |-> Null, startId |-> 0, bound |-> FALSE, binder |-> FALSE,
                            doRebind |-> FALSE, conns |-> {}]]
    /\ queue = [p \in Proc |-> <<>>]
    /\ running = [p \in Proc |-> {}]
    /\ upcall = [p \in Proc |-> Null]
    /\ view = [c \in Conn |-> Null]
    /\ unbindStop = {} /\ stopped = {} /\ late = {}

\* An asynchronous call to a process; to a dead one it throws, which is
\* swallowed.
Schedule(p, msgs) ==
    queue' = IF p \in alive THEN [queue EXCEPT ![p] = @ \o msgs] ELSE queue

\* The bounds: clients call while no process has more than MaxQueue messages
\* waiting, a record is left, and no startId has reached MaxStart.
Calm ==
    /\ \A p \in Proc : Len(queue[p]) <= MaxQueue
    /\ \E r \in Svc : sr[r].proc = Null
    /\ \A r \in mHistory : sr[r].startId < MaxStart

-----------------------------------------------------------------------------
(* Operations of the server, under synchronized(this).                     *)

\* startProcessIfNeedLocked: the process named, unless it is known to be
\* dead; else a new one.
Acquire(j) ==
    \/ /\ cur # Null /\ cur \notin buried
       /\ job' = [j EXCEPT !.app = cur]
       /\ UNCHANGED table
    \/ /\ cur = Null \/ cur \in buried
       /\ \E p \in Proc :
            /\ notice[p] = "none" /\ p \notin alive
            /\ cur' = p
            /\ alive' = alive \cup {p}
            /\ job' = [j EXCEPT !.app = p]
       /\ UNCHANGED <<buried, notice>>

StartService ==
    /\ pc = "idle" /\ Calm
    /\ Acquire([NoJob EXCEPT !.op = "start"])
    /\ pc' = "create"
    /\ UNCHANGED <<mHistory, sr, app, view, hist>>

\* bindService with BIND_AUTO_CREATE: start the service without arguments when
\* no record is found.
BindService(c) ==
    LET j == [NoJob EXCEPT !.op = "bind", !.conn = c] IN
    /\ pc = "idle" /\ Calm
    /\ \/ mHistory # {} /\ pc' = "bind" /\ job' = j /\ UNCHANGED table
       \/ mHistory = {} /\ pc' = "create" /\ Acquire(j)
    /\ UNCHANGED <<mHistory, sr, app, view, hist>>

\* Faulty variant: the arguments are scheduled before the creation.
CreateRecord_ArgsFirst(r) ==
    LET new  == r \notin mHistory
        id   == IF job.op = "start" THEN sr[r].startId + 1 ELSE sr[r].startId
        make == IF new THEN <<Msg("create", r, 0)>> ELSE <<>>
        args == IF job.op = "start" THEN <<Msg("args", r, id)>> ELSE <<>>
    IN
    /\ pc = "create"
    /\ IF mHistory # {} THEN ~new ELSE sr[r].proc = Null
    /\ mHistory' = mHistory \cup {r}
    /\ sr' = [sr EXCEPT ![r].proc = IF new THEN job.app ELSE @, ![r].startId = id]
    /\ Schedule(job.app, args \o make)
    /\ IF job.op = "start" THEN pc' = "idle" /\ job' = NoJob
                           ELSE pc' = "bind" /\ UNCHANGED job
    /\ UNCHANGED <<table, running, upcall, view, hist>>

\* startServiceCommon after the process is there: find or create the record,
\* and schedule the arguments to the process just acquired.
CreateRecord(r) ==
    LET new  == r \notin mHistory
        id   == IF job.op = "start" THEN sr[r].startId + 1 ELSE sr[r].startId
        make == IF new THEN <<Msg("create", r, 0)>> ELSE <<>>
        args == IF job.op = "start" THEN <<Msg("args", r, id)>> ELSE <<>>
    IN
    /\ pc = "create"
    /\ IF mHistory # {} THEN ~new ELSE sr[r].proc = Null
    /\ mHistory' = mHistory \cup {r}
    /\ sr' = [sr EXCEPT ![r].proc = IF new THEN job.app ELSE @, ![r].startId = id]
    /\ Schedule(job.app, make \o args)
    /\ IF job.op = "start" THEN pc' = "idle" /\ job' = NoJob
                           ELSE pc' = "bind" /\ UNCHANGED job
    /\ UNCHANGED <<table, running, upcall, view, hist>>

\* The rest of bindService: the record may have been removed meanwhile by
\* processDead (return 0). A published binder is handed out at once, and
\* doRebind, once set, makes every further bind a rebind too.
BindRecord ==
    /\ pc = "bind"
    /\ \/ mHistory = {} /\ UNCHANGED <<sr, queue, view>>
       \/ \E r \in mHistory :
            /\ IF sr[r].binder
               THEN /\ view' = [view EXCEPT ![job.conn] = r]
                    /\ IF sr[r].doRebind
                       THEN Schedule(sr[r].proc, <<Msg("rebind", r, 0)>>)
                       ELSE UNCHANGED queue
               ELSE /\ Schedule(sr[r].proc, <<Msg("bind", r, 0)>>)
                    /\ UNCHANGED view
            /\ sr' = [sr EXCEPT ![r].bound = TRUE, ![r].conns = @ \cup {job.conn}]
    /\ pc' = "idle" /\ job' = NoJob
    /\ UNCHANGED <<table, mHistory, running, upcall, hist>>

\* unbindService: UNBIND goes out on every removed connection; the last one of
\* a service that was never started takes STOP with it, but the record is kept
\* until the process reports the stop (SDK_INT >= 21).
UnbindService(c) ==
    /\ pc = "idle" /\ Calm
    /\ \E r \in mHistory :
         LET last == sr[r].startId = 0 /\ sr[r].conns = {c} IN
         /\ c \in sr[r].conns
         /\ sr' = [sr EXCEPT ![r].conns = @ \ {c}]
         /\ Schedule(sr[r].proc, IF last THEN <<Msg("unbind", r, 0), Msg("stop", r, 0)>>
                                         ELSE <<Msg("unbind", r, 0)>>)
         /\ unbindStop' = IF last THEN unbindStop \cup {r} ELSE unbindStop
    /\ view' = [view EXCEPT ![c] = Null]
    /\ UNCHANGED <<table, server, mHistory, running, upcall, stopped, late>>

\* Faulty variants: a bound service is unbound but not stopped; the report goes
\* only to the connections of a service that was also started.
StopServiceCommon_UnbindsOnly(r) ==
    /\ view' = [c \in Conn |-> IF c \in sr[r].conns THEN "down" ELSE view[c]]
    /\ Schedule(sr[r].proc, IF sr[r].bound THEN <<Msg("unbind", r, 0)>>
                                           ELSE <<Msg("stop", r, 0)>>)
    /\ mHistory' = mHistory \ {r}
    /\ stopped' = stopped \cup {r}
    /\ UNCHANGED <<table, server, sr, running, upcall, unbindStop, late>>

StopServiceCommon_OnlyStarted(r) ==
    /\ view' = [c \in Conn |-> IF c \in sr[r].conns /\ sr[r].startId > 0 THEN "down"
                              ELSE view[c]]
    /\ Schedule(sr[r].proc, IF sr[r].bound THEN <<Msg("unbind", r, 0), Msg("stop", r, 0)>>
                                           ELSE <<Msg("stop", r, 0)>>)
    /\ mHistory' = mHistory \ {r}
    /\ stopped' = stopped \cup {r}
    /\ UNCHANGED <<table, server, sr, running, upcall, unbindStop, late>>

\* stopServiceCommon: tell the connections, schedule UNBIND and STOP, forget
\* the record.
StopServiceCommon(r) ==
    /\ view' = [c \in Conn |-> IF c \in sr[r].conns THEN "down" ELSE view[c]]
    /\ Schedule(sr[r].proc, IF sr[r].bound THEN <<Msg("unbind", r, 0), Msg("stop", r, 0)>>
                                           ELSE <<Msg("stop", r, 0)>>)
    /\ mHistory' = mHistory \ {r}
    /\ stopped' = stopped \cup {r}
    /\ UNCHANGED <<table, server, sr, running, upcall, unbindStop, late>>

StopService ==
    /\ pc = "idle" /\ Calm
    /\ \E r \in mHistory : StopServiceCommon(r)

\* stopSelf(id): only the latest start may stop the service. The token need
\* not be in mHistory any more.
StopServiceToken(p, id) ==
    /\ pc = "idle" /\ Calm
    /\ p \in alive
    /\ \E r \in running[p] : sr[r].startId = id /\ id > 0 /\ StopServiceCommon(r)

-----------------------------------------------------------------------------
(* The main thread of an app process (ActivityThread.H), one message at a   *)
(* time, and the synchronous calls it makes to the server.                  *)

HandleMessage(p) ==
    LET m == Head(queue[p])
        r == m.svc
        here == r \in running[p]
        Call(op) == upcall' = [upcall EXCEPT ![p] = [op |-> op, svc |-> r]]
    IN
    /\ p \in alive /\ upcall[p] = Null /\ queue[p] # <<>>
    /\ queue' = [queue EXCEPT ![p] = Tail(@)]
    /\ running' = [running EXCEPT ![p] = CASE m.what = "create" -> @ \cup {r}
                                           [] m.what = "stop"   -> @ \ {r}
                                           [] OTHER             -> @]
    /\ \/ here /\ m.what = "bind" /\ Call("publish")
       \/ here /\ m.what = "unbind" /\ Call("unbindFinished")
       \/ here /\ m.what = "stop" /\ Call("doneStop")
       \/ (~here \/ m.what \notin {"bind", "stop"}) /\ UNCHANGED upcall
    /\ UNCHANGED <<table, server, mHistory, sr, view, hist>>

\* Faulty variant: the binder is kept but nobody is told.
PublishService_Silently(r) ==
    /\ sr' = IF sr[r].bound THEN [sr EXCEPT ![r].binder = TRUE] ELSE sr
    /\ UNCHANGED <<mHistory, view>>

\* publishService: keep the binder, connect everyone bound so far.
PublishService(r) ==
    /\ sr' = IF sr[r].bound THEN [sr EXCEPT ![r].binder = TRUE] ELSE sr
    /\ view' = [c \in Conn |-> IF c \in sr[r].conns THEN r ELSE view[c]]
    /\ UNCHANGED mHistory

\* unbindFinished: onUnbind asked for onRebind.
UnbindFinished(r) ==
    /\ sr' = IF sr[r].bound THEN [sr EXCEPT ![r].doRebind = TRUE] ELSE sr
    /\ UNCHANGED <<mHistory, view>>

\* Faulty variant: the type of the report is ignored.
ServiceDoneExecuting_Ignored(r) == UNCHANGED <<mHistory, sr, view>>

\* serviceDoneExecuting, SERVICE_DONE_EXECUTING_STOP.
ServiceDoneExecuting(r) ==
    /\ mHistory' = mHistory \ {r}
    /\ UNCHANGED <<sr, view>>

\* A call in flight is served even when its caller has died meanwhile.
Upcall(p) ==
    /\ pc = "idle"
    /\ upcall[p] # Null
    /\ LET r == upcall[p].svc IN
       \/ /\ upcall[p].op = "publish"
          /\ PublishService(r)
          /\ late' = late \cup ({r} \cap stopped)
       \/ upcall[p].op = "unbindFinished" /\ UnbindFinished(r) /\ UNCHANGED late
       \/ upcall[p].op = "doneStop" /\ ServiceDoneExecuting(r) /\ UNCHANGED late
    /\ upcall' = [upcall EXCEPT ![p] = Null]
    /\ UNCHANGED <<table, server, queue, running, unbindStop, stopped>>

-----------------------------------------------------------------------------
(* Deaths.                                                                 *)

Die(p) ==
    /\ p \in alive
    /\ alive' = alive \ {p}
    /\ notice' = [notice EXCEPT ![p] = "due"]
    /\ queue' = [queue EXCEPT ![p] = <<>>]
    /\ running' = [running EXCEPT ![p] = {}]
    /\ UNCHANGED <<cur, buried, server, mHistory, sr, upcall, view, hist>>

\* binderDied and the first half of onProcessDead: the name is freed, whoever
\* holds it by now.
BinderDied(p) ==
    /\ notice[p] = "due"
    /\ notice' = [notice EXCEPT ![p] = "services"]
    /\ buried' = buried \cup {p}
    /\ cur' = Null
    /\ UNCHANGED <<alive, server, mHistory, sr, app, view, hist>>

\* Faulty variants: every record is dropped; none is once the app runs again.
ProcessDead_DropsAll(p) ==
    /\ notice[p] = "services"
    /\ notice' = [notice EXCEPT ![p] = "done"]
    /\ mHistory' = {}
    /\ UNCHANGED <<cur, alive, buried, server, sr, app, view, hist>>

ProcessDead_UnlessRestarted(p) ==
    /\ notice[p] = "services"
    /\ notice' = [notice EXCEPT ![p] = "done"]
    /\ mHistory' = IF cur # Null THEN mHistory ELSE {r \in mHistory : sr[r].proc # p}
    /\ UNCHANGED <<cur, alive, buried, server, sr, app, view, hist>>

\* processDead, under mHistory but not under "this".
ProcessDead(p) ==
    /\ notice[p] = "services"
    /\ notice' = [notice EXCEPT ![p] = "done"]
    /\ mHistory' = {r \in mHistory : sr[r].proc # p}
    /\ UNCHANGED <<cur, alive, buried, server, sr, app, view, hist>>

\* The process of a client dies: its connection is dropped, and nothing else.
ConnectionDied(c) ==
    /\ \E r \in Svc : c \in sr[r].conns
    /\ sr' = [r \in Svc |-> [sr[r] EXCEPT !.conns = @ \ {c}]]
    /\ view' = [view EXCEPT ![c] = Null]
    /\ UNCHANGED <<table, server, mHistory, app, hist>>

-----------------------------------------------------------------------------
Client ==
    \/ StartService
    \/ \E c \in Conn : BindService(c)
    \/ \E c \in Conn : UnbindService(c)
    \/ StopService
    \/ \E p \in Proc, id \in 1 .. MaxStart : StopServiceToken(p, id)

Serve == (\E r \in Svc : CreateRecord(r)) \/ BindRecord
Notice(p) == BinderDied(p) \/ ProcessDead(p)

Next ==
    \/ Client
    \/ Serve
    \/ \E p \in Proc : HandleMessage(p) \/ Upcall(p) \/ Die(p) \/ Notice(p)
    \/ \E c \in Conn : ConnectionDied(c)

Spec == Init /\ [][Next]_vars

\* Android runs every main thread and delivers every death notice; a thread
\* that waits for the monitor gets it in the end.
Fairness ==
    /\ WF_vars(Serve)
    /\ \A p \in Proc : WF_vars(HandleMessage(p)) /\ WF_vars(Notice(p)) /\ SF_vars(Upcall(p))
FairSpec == Spec /\ Fairness

-----------------------------------------------------------------------------
(* Correctness                                                             *)

Queued(p, w, r) == \E i \in DOMAIN queue[p] : queue[p][i].what = w /\ queue[p][i].svc = r

\* A service instance that runs can be found again, or has its STOP on the way:
\* stop and death never leave behind a running service that no record knows.
RunningIsTracked ==
    \A p \in Proc : \A r \in running[p] : r \in mHistory \/ Queued(p, "stop", r)

\* A process never runs two instances of the component, whatever starts, stops
\* and binds are in flight: the next CREATE is behind the last STOP.
OneInstance == \A p \in Proc : Cardinality(running[p]) <= 1

\* A known record whose process lives is backed by it: created, or to be
\* created, or stopped with the report on its way.
KnownIsBacked ==
    \A r \in mHistory :
        LET p == sr[r].proc IN
        p \in alive => \/ r \in running[p]
                       \/ Queued(p, "create", r)
                       \/ upcall[p] = [op |-> "doneStop", svc |-> r]

\* The arguments of a start reach a running instance. They are lost only when
\* the record belonged to an earlier process whose death had not been worked
\* off, or when a last unbind had already asked the instance to stop while
\* keeping its record in mHistory.
StartLostOnlyIf ==
    \A p \in Proc :
        queue[p] # <<>> /\ Head(queue[p]).what = "args" =>
            LET r == Head(queue[p]).svc IN
            r \in running[p] \/ sr[r].proc # p \/ r \in unbindStop

\* "Report to all of the connections that the service is no longer available",
\* says stopServiceCommon: a connection that still believes in a service that was
\* stopped was connected to it afterwards, by a publish the stop had overtaken.
BelievedOnlyIfLate == \A c \in Conn : view[c] \in stopped => view[c] \in late

\* A connection bound to a service whose process lives is told of the service,
\* or it is unbound, or the record is given up.
BoundIsConnected ==
    \A c \in Conn, r \in Svc :
        c \in sr[r].conns /\ r \in mHistory ~>
            view[c] # Null \/ c \notin sr[r].conns \/ r \notin mHistory
                          \/ sr[r].proc \notin alive

\* A record that was in mHistory while its process lived leaves it after the
\* process has died.
DeadIsForgotten ==
    \A r \in Svc :
        []((r \in mHistory /\ sr[r].proc \in alive) =>
               [](sr[r].proc \notin alive => <>(r \notin mHistory)))
=============================================================================
