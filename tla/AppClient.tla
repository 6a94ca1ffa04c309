------------------------------ MODULE AppClient ------------------------------
(***************************************************************************)
(* The app side of a process (VClientImpl): how it learns whose it is, how *)
(* it is bound to its application on the main thread, and how its binder   *)
(* threads serve requests for its content providers meanwhile.             *)
(*                                                                         *)
(* Actors that interleave:                                                 *)
(*   - the server, that starts or restarts a process and calls initProcess *)
(*     in it, one call at a time under its monitor;                        *)
(*   - the main thread of each process, that works off its messages;       *)
(*   - one binder thread for each request (acquireProviderClient);         *)
(*   - Android, that restores processes for their activities and kills     *)
(*     any process at any time.                                            *)
(* The code of the app, in its Application, its providers and components,  *)
(* may ask for the provider of another process and waits for the answer.   *)
(* A provider of its own process is made on the spot by Android and needs  *)
(* no request.                                                             *)
(***************************************************************************)
EXTENDS Naturals, Sequences

CONSTANTS
    Proc,       \* process instances
    App,        \* applications of a user: package and vuid
    Request,    \* calls of acquireProviderClient: bounds their number
    Kept,       \* the application whose activity Android restores a process for, or Null
    Starts,     \* the applications the server starts in the stub of a process
    MaxSent,    \* bounds the messages for components
    Null

ASSUME AppClientAssumption ==
    /\ MaxSent \in Nat
    /\ Kept \in [Proc -> App \union {Null}] /\ Starts \in [Proc -> SUBSET App]
    /\ Null \notin Proc \union App \union Request
    /\ Proc \cap Request = {}

VARIABLES
    alive, restored, started, \* processes: running, born of a restore, of a start
    initing,    \* the application initProcess is called with, Null: no call
    token, vuid,              \* VClientImpl.token, VClientImpl.vuid
    device,     \* deviceInfo: the user it was fetched for, Null if not yet
    boundTo,    \* mBoundApplication: application and user, or NotBound
    installed,  \* the providers are installed
    mTempLock,  \* the lock of the bind under way
    opened,     \* the locks that are open
    queue,      \* the messages of the main thread
    main, lock, \* its step, its bind's lock
    sent,       \* messages sent for components
    req         \* the requests

birth   == <<alive, restored, started>>
ident   == <<initing, token, vuid>>
bind    == <<device, boundTo, installed, mTempLock, opened>>
threads == <<queue, main, lock, sent>>
vars    == <<birth, ident, bind, threads, req>>

\* A lock is named after the request that made it, or after the process whose
\* main thread did.
Lock    == Proc \union Request
Message == [what : {"work", "launch"}, app : App] \union [what : {"bind"}, app : App, by : Request]
NotBound == [app |-> Null, user |-> Null]

MainStep == {"idle", "report", "data", "make", "open", "clear", "run"}
\* on is the lock that block() was called on; slipped is a history: the request
\* saw neither a lock nor a bound process.
Calling == [step : {"free", "look", "block", "wait", "bound", "posted", "acquire",
                    "ended"},
            proc : Proc \union {Null}, from : Proc \union {Null}, on : Lock \union {Null},
            slipped : BOOLEAN]
Call(step, p, from) ==
    [step |-> step, proc |-> p, from |-> from, on |-> Null, slipped |-> FALSE]
NoCall == Call("free", Null, Null)
\* Answered, or failed: the caller goes on.
Ended == Call("ended", Null, Null)

Bound(p) == boundTo[p] # NotBound
\* initProcess has returned: the server knows the process.
Attached(p) == p \in alive /\ token[p] # Null /\ initing[p] = Null
Pending(r) == req[r].step \notin {"free", "ended"}
\* The main thread of p is in a call that has not been answered.
Asking(p) == \E r \in Request : req[r].from = p /\ Pending(r)

Init ==
    /\ alive = {} /\ restored = {} /\ started = {}
    /\ initing = [p \in Proc |-> Null]
    /\ token = [p \in Proc |-> Null] /\ vuid = [p \in Proc |-> Null]
    /\ device = [p \in Proc |-> Null]
    /\ boundTo = [p \in Proc |-> NotBound]
    /\ installed = {} /\ opened = {}
    /\ mTempLock = [p \in Proc |-> Null]
    /\ queue = [p \in Proc |-> <<>>]
    /\ main = [p \in Proc |-> "idle"] /\ lock = [p \in Proc |-> Null]
    /\ sent = 0
    /\ req = [r \in Request |-> NoCall]

-----------------------------------------------------------------------------
(* Birth and identity                                                      *)

\* performStartProcessLocked: the call of the stub's provider creates its
\* process, or finds the one that Android has restored in the stub.
StartProcess(p, a) ==
    /\ p \notin started
    /\ \/ p \notin restored
       \/ p \in alive /\ token[p] = Null /\ initing[p] = Null
    /\ started' = started \union {p}
    /\ alive' = alive \union {p}
    /\ initing' = [initing EXCEPT ![p] = a]
    /\ UNCHANGED <<restored, token, vuid, bind, threads, req>>

\* Android creates the process for an activity it has kept.
Restore(p) ==
    /\ Kept[p] # Null
    /\ p \notin started \union restored
    /\ restored' = restored \union {p}
    /\ alive' = alive \union {p}
    /\ queue' = [queue EXCEPT ![p] = <<[what |-> "launch", app |-> Kept[p]]>>]
    /\ UNCHANGED <<started, ident, bind, main, lock, sent, req>>

\* processRestarted, that the main thread waits for in LAUNCH_ACTIVITY: the
\* process is known by now, or initProcess is called with a new record, or the
\* stub is not found (parseVPid).
ProcessRestarted(p) ==
    /\ p \in alive /\ main[p] = "report"
    /\ initing[p] = Null
    /\ main' = [main EXCEPT ![p] = IF token[p] = Null THEN @ ELSE "idle"]
    /\ initing' = IF token[p] = Null THEN [initing EXCEPT ![p] = Head(queue[p]).app]
                                     ELSE initing
    /\ UNCHANGED <<birth, token, vuid, bind, queue, lock, sent, req>>

StubNotFound(p) ==
    /\ p \in alive /\ main[p] = "report"
    /\ initing[p] = Null /\ token[p] = Null
    /\ main' = [main EXCEPT ![p] = "idle"]
    /\ UNCHANGED <<birth, ident, bind, queue, lock, sent, req>>

\* initProcess in the process, an assignment at a time.
SetToken(p) ==
    /\ p \in alive /\ initing[p] # Null /\ token[p] = Null
    /\ token' = [token EXCEPT ![p] = initing[p]]
    /\ UNCHANGED <<birth, initing, vuid, bind, threads, req>>

SetVuid(p) ==
    /\ p \in alive /\ initing[p] # Null /\ token[p] # Null
    /\ vuid' = [vuid EXCEPT ![p] = initing[p]]
    /\ initing' = [initing EXCEPT ![p] = Null]
    /\ UNCHANGED <<birth, token, bind, threads, req>>

\* The process dies with all it knew: those who wait for its answer get an
\* exception.
Die(p) ==
    /\ p \in alive
    /\ alive' = alive \ {p}
    /\ initing' = [initing EXCEPT ![p] = Null]
    /\ token' = [token EXCEPT ![p] = Null] /\ vuid' = [vuid EXCEPT ![p] = Null]
    /\ device' = [device EXCEPT ![p] = Null] /\ boundTo' = [boundTo EXCEPT ![p] = NotBound]
    /\ installed' = installed \ {p}
    /\ mTempLock' = [mTempLock EXCEPT ![p] = Null]
    /\ queue' = [queue EXCEPT ![p] = <<>>]
    /\ main' = [main EXCEPT ![p] = "idle"] /\ lock' = [lock EXCEPT ![p] = Null]
    /\ req' = [r \in Request |-> IF Pending(r) /\ req[r].proc = p THEN Ended
                                 ELSE IF req[r].from = p THEN [req[r] EXCEPT !.from = Null]
                                 ELSE req[r]]
    /\ UNCHANGED <<restored, started, opened, sent>>

-----------------------------------------------------------------------------
(* The main thread                                                         *)

\* The server has the process run a service, a receiver or an activity.
Send(p, what) ==
    /\ Attached(p) /\ sent < MaxSent
    /\ sent' = sent + 1
    /\ queue' = [queue EXCEPT ![p] = Append(@, [what |-> what, app |-> token[p]])]
    /\ UNCHANGED <<birth, ident, bind, main, lock, req>>

\* Faulty variant: the lock is not published.
BeginBind_Unlocked(p, l) ==
    /\ device' = [device EXCEPT ![p] = IF @ = Null THEN vuid[p] ELSE @]
    /\ lock' = [lock EXCEPT ![p] = l]
    /\ main' = [main EXCEPT ![p] = "data"]
    /\ UNCHANGED <<boundTo, installed, mTempLock, opened>>

\* bindApplicationNoCheck up to mTempLock: the device of the user is fetched once.
BeginBind(p, l) ==
    /\ device' = [device EXCEPT ![p] = IF @ = Null THEN vuid[p] ELSE @]
    /\ mTempLock' = [mTempLock EXCEPT ![p] = l]
    /\ lock' = [lock EXCEPT ![p] = l]
    /\ main' = [main EXCEPT ![p] = "data"]
    /\ UNCHANGED <<boundTo, installed, opened>>

\* CREATE_SERVICE and RECEIVER: the process is bound if it is not, the
\* component runs.
Work(p) ==
    /\ p \in alive /\ main[p] = "idle"
    /\ queue[p] # <<>> /\ Head(queue[p]).what = "work"
    /\ IF Bound(p)
       THEN /\ queue' = [queue EXCEPT ![p] = Tail(@)]
            /\ main' = [main EXCEPT ![p] = "run"]
            /\ UNCHANGED <<bind, lock>>
       ELSE BeginBind(p, p) /\ UNCHANGED queue
    /\ UNCHANGED <<birth, ident, sent, req>>

\* Faulty variant: the token is not asked for.
Launch_Unasked(p) ==
    /\ p \in alive /\ main[p] = "idle"
    /\ queue[p] # <<>> /\ Head(queue[p]).what = "launch"
    /\ IF Bound(p)
       THEN /\ queue' = [queue EXCEPT ![p] = Tail(@)]
            /\ main' = [main EXCEPT ![p] = "run"]
            /\ UNCHANGED <<bind, lock>>
       ELSE BeginBind(p, p) /\ UNCHANGED queue
    /\ UNCHANGED <<birth, ident, sent, req>>

\* LAUNCH_ACTIVITY: a process that does not know whose it is reports itself,
\* one that is not bound is bound, and the message is put at the front again.
Launch(p) ==
    /\ p \in alive /\ main[p] = "idle"
    /\ queue[p] # <<>> /\ Head(queue[p]).what = "launch"
    /\ \/ /\ token[p] = Null
          /\ main' = [main EXCEPT ![p] = "report"]
          /\ UNCHANGED <<bind, lock, queue>>
       \/ /\ token[p] # Null /\ ~Bound(p)
          /\ BeginBind(p, p)
          /\ UNCHANGED queue
       \/ /\ token[p] # Null /\ Bound(p)
          /\ queue' = [queue EXCEPT ![p] = Tail(@)]
          /\ main' = [main EXCEPT ![p] = "run"]
          /\ UNCHANGED <<bind, lock>>
    /\ UNCHANGED <<birth, ident, sent, req>>

\* Faulty variant: if the process is bound by now, the Runnable returns.
RunBind_IfUnbound(p) ==
    /\ p \in alive /\ main[p] = "idle"
    /\ queue[p] # <<>> /\ Head(queue[p]).what = "bind"
    /\ IF Bound(p)
       THEN /\ queue' = [queue EXCEPT ![p] = Tail(@)]
            /\ UNCHANGED <<main, bind, lock>>
       ELSE BeginBind(p, Head(queue[p]).by) /\ UNCHANGED queue
    /\ UNCHANGED <<birth, ident, sent, req>>

\* The Runnable of bindApplication: whether the process is bound is not asked
\* again.
RunBind(p) ==
    /\ p \in alive /\ main[p] = "idle"
    /\ queue[p] # <<>> /\ Head(queue[p]).what = "bind"
    /\ BeginBind(p, Head(queue[p]).by)
    /\ UNCHANGED <<birth, ident, queue, sent, req>>

\* mBoundApplication is set, with the data of the user in vuid.  The message
\* that wanted the bind is still the first.
BindData(p) ==
    /\ p \in alive /\ main[p] = "data"
    /\ boundTo' = [boundTo EXCEPT ![p] = [app |-> Head(queue[p]).app, user |-> vuid[p]]]
    /\ main' = [main EXCEPT ![p] = "make"]
    /\ UNCHANGED <<birth, ident, device, installed, mTempLock, opened, queue, lock, sent, req>>

\* makeApplication and installContentProviders.
InstallProviders(p) ==
    /\ p \in alive /\ main[p] = "make" /\ ~Asking(p)
    /\ installed' = installed \union {p}
    /\ main' = [main EXCEPT ![p] = "open"]
    /\ UNCHANGED <<birth, ident, device, boundTo, mTempLock, opened, queue, lock, sent, req>>

OpenLock(p) ==
    /\ p \in alive /\ main[p] = "open"
    /\ opened' = opened \union {lock[p]}
    /\ main' = [main EXCEPT ![p] = "clear"]
    /\ UNCHANGED <<birth, ident, device, boundTo, installed, mTempLock, queue, lock, sent, req>>

\* mTempLock = null.  What is left is code of the app, and the message goes if it
\* was the Runnable: the others are looked at again with the process bound.
ClearLock(p) ==
    /\ p \in alive /\ main[p] = "clear"
    /\ mTempLock' = [mTempLock EXCEPT ![p] = Null]
    /\ queue' = [queue EXCEPT ![p] = IF Head(@).what = "bind" THEN Tail(@) ELSE @]
    /\ main' = [main EXCEPT ![p] = "run"] /\ lock' = [lock EXCEPT ![p] = Null]
    /\ UNCHANGED <<birth, ident, device, boundTo, installed, opened, sent, req>>

\* onCreate of the application, or the component, returns.
Return(p) ==
    /\ p \in alive /\ main[p] = "run" /\ ~Asking(p)
    /\ main' = [main EXCEPT ![p] = "idle"]
    /\ UNCHANGED <<birth, ident, bind, queue, lock, sent, req>>

-----------------------------------------------------------------------------
(* Requests for providers                                                  *)

\* The server passes a request on to process p.  Somebody outside asks, or code
\* of the app on the main thread of another process does.  The names of the
\* requests are used in one order.
Ask(r, p, from) ==
    /\ Attached(p)
    /\ req[r].step = "free" /\ r = CHOOSE q \in Request : req[q].step = "free"
    /\ from # Null => /\ from \in alive \ {p} /\ main[from] \in {"make", "run"}
                      /\ ~Asking(from)
    /\ req' = [req EXCEPT ![r] = Call("look", p, from)]
    /\ UNCHANGED <<birth, ident, bind, threads>>

Goto(r, step) == req' = [req EXCEPT ![r].step = step]

\* acquireProviderClient: mTempLock is looked at ...
LookAtLock(r) ==
    LET p == req[r].proc IN
    /\ req[r].step = "look"
    /\ req' = [req EXCEPT ![r].step = IF mTempLock[p] = Null THEN "bound" ELSE "block",
                          ![r].slipped = mTempLock[p] = Null /\ ~Bound(p)]
    /\ UNCHANGED <<birth, ident, bind, threads>>

\* ... and read again to block on it: if it is gone, that is the end.
Block(r) ==
    LET l == mTempLock[req[r].proc] IN
    /\ req[r].step = "block"
    /\ req' = [req EXCEPT ![r] = IF l = Null THEN Ended
                                           ELSE [@ EXCEPT !.step = "wait", !.on = l]]
    /\ UNCHANGED <<birth, ident, bind, threads>>

Unblock(r) ==
    /\ req[r].step = "wait" /\ req[r].on \in opened
    /\ Goto(r, "bound")
    /\ UNCHANGED <<birth, ident, bind, threads>>

\* isBound, and bindApplication on a thread that is not the main thread.
LookIfBound(r) ==
    LET p == req[r].proc IN
    /\ req[r].step = "bound"
    /\ IF Bound(p)
       THEN Goto(r, "acquire") /\ UNCHANGED queue
       ELSE /\ Goto(r, "posted")
            /\ queue' = [queue EXCEPT ![p] =
                            Append(@, [what |-> "bind", app |-> token[p], by |-> r])]
    /\ UNCHANGED <<birth, ident, bind, main, lock, sent>>

BindDone(r) ==
    /\ req[r].step = "posted" /\ r \in opened
    /\ Goto(r, "acquire")
    /\ UNCHANGED <<birth, ident, bind, threads>>

\* The provider is acquired, on the binder thread.
Acquire(r) ==
    /\ req[r].step = "acquire"
    /\ req' = [req EXCEPT ![r] = Ended]
    /\ UNCHANGED <<birth, ident, bind, threads>>

-----------------------------------------------------------------------------
Server(p)  == ProcessRestarted(p) \/ StubNotFound(p) \/ SetToken(p) \/ SetVuid(p)
Main(p)    == \/ Work(p) \/ Launch(p) \/ RunBind(p)
              \/ BindData(p) \/ InstallProviders(p) \/ OpenLock(p) \/ ClearLock(p)
              \/ Return(p)
Binder(r)  == \/ LookAtLock(r) \/ Block(r) \/ Unblock(r) \/ LookIfBound(r)
              \/ BindDone(r) \/ Acquire(r)
Environment ==
    \E p \in Proc :
        \/ Restore(p) \/ \E a \in Starts[p] : StartProcess(p, a)
        \/ \E what \in {"work", "launch"} : Send(p, what)
        \/ \E r \in Request, from \in Proc \union {Null} : Ask(r, p, from)
        \/ Die(p)

Next ==
    \/ Environment
    \/ \E p \in Proc : Server(p) \/ Main(p)
    \/ \E r \in Request : Binder(r)

Spec == Init /\ [][Next]_vars

-----------------------------------------------------------------------------
(* Correctness                                                             *)

\* The types of the variables; a main thread in a bind has the message it is for.
TypeOK ==
    /\ alive \subseteq started \union restored
    /\ started \subseteq Proc /\ restored \subseteq Proc
    /\ initing \in [Proc -> App \union {Null}]
    /\ token \in [Proc -> App \union {Null}] /\ vuid \in [Proc -> App \union {Null}]
    /\ device \in [Proc -> App \union {Null}]
    /\ boundTo \in [Proc -> [app : App \union {Null}, user : App \union {Null}]]
    /\ installed \subseteq Proc /\ opened \subseteq Lock
    /\ mTempLock \in [Proc -> Lock \union {Null}]
    /\ queue \in [Proc -> Seq(Message)]
    /\ main \in [Proc -> MainStep] /\ lock \in [Proc -> Lock \union {Null}]
    /\ sent \in 0 .. MaxSent
    /\ req \in [Request -> Calling]
    /\ \A p \in Proc : main[p] \notin {"idle", "run"} => queue[p] # <<>>

\* A process is bound to the application and the user, and shows the device of
\* the user, that initProcess was called with.  It may be another application,
\* or no user, only when Android restored the process and the server started
\* another application in its stub before the process had reported itself
\* (HCallbackStub.java:128-146, VClientImpl.java:180-183).
BoundAsAttached ==
    \A p \in Proc : Bound(p) /\ p \notin restored \cap started =>
        /\ boundTo[p] = [app |-> token[p], user |-> vuid[p]]
        /\ device[p] = vuid[p]

\* No provider is handed out before the providers of its process are installed,
\* except to a request that looked at mTempLock before a bind had begun and at
\* mBoundApplication when it had been set (VClientImpl.java:523-529).
EarlyOnlyIfSlipped ==
    \A r \in Request :
        req[r].step = "acquire" /\ req[r].proc \notin installed => req[r].slipped

\* Who waits for a lock waits for a bind that is under way or on the queue of the
\* main thread: no lock is forgotten, whichever binds run, and whoever dies.  A
\* request hangs only with the main thread of its process, which waits for
\* nobody's lock: for the end of a request that code of the app makes in a bind,
\* so that main threads that ask for each other's providers may wait in a circle
\* (VClientImpl.java:209-220, 323-330, 524-526).
AwaitedIsComing ==
    \A r \in Request :
        LET p == req[r].proc IN
        /\ req[r].step = "wait" =>
              \/ req[r].on \in opened
              \/ main[p] \in {"data", "make", "open"} /\ lock[p] = req[r].on
        /\ req[r].step = "posted" =>
              \/ r \in opened
              \/ \E i \in DOMAIN queue[p] : queue[p][i].what = "bind" /\ queue[p][i].by = r

=============================================================================
