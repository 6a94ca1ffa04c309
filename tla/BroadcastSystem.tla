--------------------------- MODULE BroadcastSystem ---------------------------
(***************************************************************************)
(* The static receivers of one virtual package, as BroadcastSystem and      *)
(* VActivityManagerService.handleStaticBroadcast serve them: the device's   *)
(* activity manager delivers a broadcast to a receiver registered on behalf *)
(* of the package; the broadcast is recorded, a timeout is armed, and the   *)
(* app process is asked to run the real receiver and to report.             *)
(*                                                                         *)
(* Records and timeouts are keyed by PendingResult.mToken. For a registered *)
(* receiver that is the binder of the registration, the same for all its    *)
(* broadcasts. The device waits for the finish of an ordered broadcast and  *)
(* takes it by that token, so a finish counts for whatever ordered          *)
(* broadcast it is waiting for. The clock is abstract: an armed timeout may *)
(* go off at any time. The receivers of all other packages are one token,   *)
(* Other, whose records come and go at any time.                            *)
(***************************************************************************)
EXTENDS Naturals, Sequences

CONSTANTS
    Bcast,       \* broadcasts
    Ordered,     \* those of them the device sends one after the other
    Receiver,    \* registrations (StaticBroadcastReceiver), each with its token
    tokenOf,     \* the registration a broadcast is delivered to
    Other,       \* a token of another package
    None

ASSUME BroadcastAssumption ==
    /\ Ordered \subseteq Bcast
    /\ tokenOf \in [Bcast -> Receiver]
    /\ None \notin Bcast \cup Receiver /\ Other \notin Receiver

VARIABLES
    sent,        \* broadcasts the device has delivered
    waiting,     \* the ordered broadcast the device waits for at a receiver
    inbox,       \* deliveries waiting for the BroadcastThread
    stage, serving, \* the BroadcastThread: its next step, and the broadcast
    mBroadcastRecords, \* token -> the broadcast recorded
    timeouts,    \* number of timeout messages armed for a token
    anr,         \* the BroadcastAnrThread: what it does, to which token or broadcast
    proc,        \* the app's process: "none", "up", or "dead" but not yet forgotten
    mainq, main, \* the app: RECEIVER messages, and what its main thread does
    async,       \* ordered broadcasts whose receiver went async and may finish them later
    report,      \* progress of broadcastFinish for each broadcast
    stop,        \* progress of stopApp: "no", "records", "done", "failed"
    dropped, swept, lost  \* history: how a broadcast lost its record or timeout

device == <<sent, waiting>>
sched == <<inbox, stage, serving>>
table == <<mBroadcastRecords, timeouts, anr>>
app == <<proc, mainq, main, async>>
hist == <<dropped, swept, lost>>
broadcastVars == <<device, sched, table, app, report, stop, hist>>

BroadcastTypeOK ==
    /\ sent \subseteq Bcast
    /\ waiting \in [Receiver -> Ordered \cup {None}]
    /\ \A i \in DOMAIN inbox : inbox[i] \in Bcast
    /\ stage \in {"idle", "record", "arm", "schedule"} /\ serving \in Bcast \cup {None}
    /\ mBroadcastRecords \in [Receiver -> Bcast \cup {None}]
    /\ timeouts \in [Receiver -> Nat]
    /\ anr.at \in {"idle", "removing", "finishing"}
    /\ proc \in {"none", "up", "dead"}
    /\ \A i \in DOMAIN mainq : mainq[i] \in Bcast
    /\ main.at \in {"idle", "receiving", "reporting"}
    /\ async \subseteq Bcast
    /\ report \in [Bcast -> {"none", "called", "removed", "cancelled", "done"}]
    /\ stop \in {"no", "records", "done", "failed"}
    /\ dropped \cup swept \cup lost \subseteq Bcast

BroadcastInit ==
    /\ sent = {} /\ waiting = [t \in Receiver |-> None]
    /\ inbox = <<>> /\ stage = "idle" /\ serving = None
    /\ mBroadcastRecords = [t \in Receiver |-> None]
    /\ timeouts = [t \in Receiver |-> 0]
    /\ anr = [at |-> "idle", of |-> None]
    /\ proc = "none" /\ mainq = <<>> /\ main = [at |-> "idle", of |-> None] /\ async = {}
    /\ report = [b \in Bcast |-> "none"]
    /\ stop = "no"
    /\ dropped = {} /\ swept = {} /\ lost = {}

\* PendingResultData.finish: the device hears of ordered broadcasts only.
Finish(b) ==
    waiting' = IF b \in Ordered THEN [waiting EXCEPT ![tokenOf[b]] = None] ELSE waiting

\* An update of mBroadcastRecords under its lock. The timeout handler updates
\* the same HashMap without the lock, so when both are at it, at different
\* tokens, one of the two updates may be lost (history: lost).
Store(t, x, b) ==
    \/ /\ mBroadcastRecords' = [mBroadcastRecords EXCEPT ![t] = x]
       /\ UNCHANGED lost
    \/ /\ anr.at = "removing" /\ anr.of # t
       /\ lost' = lost \cup {b}
       /\ UNCHANGED mBroadcastRecords

-----------------------------------------------------------------------------
(* The device.                                                             *)

\* Ordered broadcasts come to a receiver one after the other.
Deliver(b) ==
    /\ b \notin sent /\ stop # "done"
    /\ b \in Ordered => waiting[tokenOf[b]] = None
    /\ sent' = sent \cup {b}
    /\ waiting' = IF b \in Ordered THEN [waiting EXCEPT ![tokenOf[b]] = b] ELSE waiting
    /\ inbox' = Append(inbox, b)
    /\ UNCHANGED <<stage, serving, table, app, report, stop, hist>>

-----------------------------------------------------------------------------
(* The BroadcastThread: StaticBroadcastReceiver.onReceive. From the lookup  *)
(* of the process to the end it holds the monitor of the activity manager.  *)

\* An intent that is not for this receiver, has no user, or comes while the
\* packages are scanned is finished at once. So does the framework once the
\* receiver is unregistered. With no process that has attached, nothing is
\* done at all, and the broadcast counts as taken.
OnReceive ==
    /\ stage = "idle" /\ inbox # <<>>
    /\ inbox' = Tail(inbox)
    /\ LET b == Head(inbox) IN
       \/ /\ Finish(b)
          /\ UNCHANGED <<stage, serving, dropped>>
       \/ /\ stop # "done" /\ proc = "none"
          /\ dropped' = dropped \cup {b}
          /\ UNCHANGED <<stage, serving, waiting>>
       \/ /\ stop # "done" /\ proc # "none"
          /\ stage' = "record" /\ serving' = b
          /\ UNCHANGED <<waiting, dropped>>
    /\ UNCHANGED <<sent, table, app, report, stop, swept, lost>>

\* broadcastSent, first half: the record of an earlier broadcast to the same
\* receiver is overwritten.
RecordSent ==
    /\ stage = "record"
    /\ Store(tokenOf[serving], serving, serving)
    /\ swept' = swept \cup ({mBroadcastRecords[tokenOf[serving]]} \ {None})
    /\ stage' = "arm"
    /\ UNCHANGED <<device, inbox, serving, timeouts, anr, app, report, stop, dropped>>

\* broadcastSent, second half.
ArmTimeout ==
    /\ stage = "arm"
    /\ timeouts' = [timeouts EXCEPT ![tokenOf[serving]] = @ + 1]
    /\ stage' = "schedule"
    /\ UNCHANGED <<device, inbox, serving, mBroadcastRecords, anr, app, report, stop, hist>>

\* performScheduleReceiver: the call to a process that has died throws, and
\* the broadcast is finished; record and timeout stay.
ScheduleReceiver ==
    /\ stage = "schedule"
    /\ IF proc = "up" THEN mainq' = Append(mainq, serving) /\ UNCHANGED waiting
                      ELSE Finish(serving) /\ UNCHANGED mainq
    /\ stage' = "idle" /\ serving' = None
    /\ UNCHANGED <<sent, inbox, table, proc, main, async, report, stop, hist>>

-----------------------------------------------------------------------------
(* The BroadcastAnrThread: TimeoutHandler.handleMessage.                    *)

TimeoutFires(t) ==
    /\ anr.at = "idle" /\ timeouts[t] > 0
    /\ timeouts' = [timeouts EXCEPT ![t] = @ - 1]
    /\ anr' = [at |-> "removing", of |-> t]
    /\ UNCHANGED <<device, sched, mBroadcastRecords, app, report, stop, hist>>

\* A timeout of another package goes off.
OtherTimeoutFires ==
    /\ anr.at = "idle"
    /\ anr' = [at |-> "removing", of |-> Other]
    /\ UNCHANGED <<device, sched, mBroadcastRecords, timeouts, app, report, stop, hist>>

OtherTimeoutEnds ==
    /\ anr.at = "removing" /\ anr.of = Other
    /\ anr' = [at |-> "idle", of |-> None]
    /\ UNCHANGED <<device, sched, mBroadcastRecords, timeouts, app, report, stop, hist>>

\* Faulty variant: the record is removed, the broadcast not finished.
TimeoutRemoves_Only ==
    /\ anr.at = "removing" /\ anr.of # Other
    /\ anr' = [at |-> "idle", of |-> None]
    /\ mBroadcastRecords' = [mBroadcastRecords EXCEPT ![anr.of] = None]
    /\ UNCHANGED <<device, sched, timeouts, app, report, stop, hist>>

\* mBroadcastRecords.remove(token), without the lock; it may itself be lost to
\* an update for another package.
TimeoutRemoves ==
    LET b == mBroadcastRecords[anr.of] IN
    /\ anr.at = "removing" /\ anr.of # Other
    /\ anr' = IF b = None THEN [at |-> "idle", of |-> None] ELSE [at |-> "finishing", of |-> b]
    /\ \/ /\ mBroadcastRecords' = [mBroadcastRecords EXCEPT ![anr.of] = None]
          /\ UNCHANGED lost
       \/ /\ b # None
          /\ lost' = lost \cup {b}
          /\ UNCHANGED mBroadcastRecords
    /\ UNCHANGED <<device, sched, timeouts, app, report, stop, dropped, swept>>

TimeoutFinishes ==
    /\ anr.at = "finishing"
    /\ Finish(anr.of)
    /\ anr' = [at |-> "idle", of |-> None]
    /\ UNCHANGED <<sent, sched, mBroadcastRecords, timeouts, app, report, stop, hist>>

-----------------------------------------------------------------------------
(* broadcastFinish, on a binder thread of the server: the report of the app *)
(* process, served even if its caller has died meanwhile.                   *)

\* Faulty variant: the record stays, only its timeout is cancelled.
ReportRemoves_KeepsRecord(b) ==
    /\ report[b] = "called"
    /\ report' = [report EXCEPT ![b] = "removed"]
    /\ UNCHANGED <<device, sched, table, app, stop, hist>>

ReportRemoves(b) ==
    LET r == mBroadcastRecords[tokenOf[b]] IN
    /\ report[b] = "called"
    /\ Store(tokenOf[b], None, b)
    /\ swept' = IF r \notin {None, b} THEN swept \cup {r} ELSE swept
    /\ report' = [report EXCEPT ![b] = "removed"]
    /\ UNCHANGED <<device, sched, timeouts, anr, app, stop, dropped>>

\* removeMessages(0, token): all of them, those of later broadcasts too.
ReportCancels(b) ==
    LET r == mBroadcastRecords[tokenOf[b]] IN
    /\ report[b] = "removed"
    /\ timeouts' = [timeouts EXCEPT ![tokenOf[b]] = 0]
    /\ swept' = IF r \in {None, b} \/ (stage = "arm" /\ serving = r)
                THEN swept ELSE swept \cup {r}
    /\ report' = [report EXCEPT ![b] = "cancelled"]
    /\ UNCHANGED <<device, sched, mBroadcastRecords, anr, app, stop, dropped, lost>>

ReportFinishes(b) ==
    /\ report[b] = "cancelled"
    /\ Finish(b)
    /\ report' = [report EXCEPT ![b] = "done"]
    /\ UNCHANGED <<sent, sched, table, app, stop, hist>>

-----------------------------------------------------------------------------
(* The app process: VClientImpl.handleReceiver on its main thread.          *)

HandleReceiver ==
    /\ proc = "up" /\ main.at = "idle" /\ mainq # <<>>
    /\ main' = [at |-> "receiving", of |-> Head(mainq)]
    /\ mainq' = Tail(mainq)
    /\ UNCHANGED <<device, sched, table, proc, async, report, stop, hist>>

\* onReceive returns: the result is finished here, unless the receiver kept it
\* with goAsync; the report follows in either case.
ReceiverReturns ==
    /\ main.at = "receiving"
    /\ \/ Finish(main.of) /\ UNCHANGED async
       \/ async' = async \cup ({main.of} \cap Ordered) /\ UNCHANGED waiting
    /\ main' = [main EXCEPT !.at = "reporting"]
    /\ UNCHANGED <<sent, sched, table, proc, mainq, report, stop, hist>>

AsyncFinishes(b) ==
    /\ b \in async
    /\ async' = async \ {b}
    /\ Finish(b)
    /\ UNCHANGED <<sent, sched, table, proc, mainq, main, report, stop, hist>>

\* The main thread waits for broadcastFinish to return.
CallBroadcastFinish ==
    /\ main.at = "reporting" /\ report[main.of] = "none"
    /\ report' = [report EXCEPT ![main.of] = "called"]
    /\ UNCHANGED <<device, sched, table, app, stop, hist>>

BroadcastFinishReturns ==
    /\ main.at = "reporting" /\ report[main.of] = "done"
    /\ main' = [at |-> "idle", of |-> None]
    /\ UNCHANGED <<device, sched, table, proc, mainq, async, report, stop, hist>>

\* A process is started under the monitor of the activity manager.
ProcessStarts ==
    /\ proc # "up" /\ stage = "idle"
    /\ proc' = "up"
    /\ UNCHANGED <<device, sched, table, mainq, main, async, report, stop, hist>>

ProcessDies ==
    /\ proc = "up"
    /\ proc' = "dead"
    /\ mainq' = <<>> /\ main' = [at |-> "idle", of |-> None] /\ async' = {}
    /\ UNCHANGED <<device, sched, table, report, stop, hist>>

ProcessForgotten ==
    /\ proc = "dead"
    /\ proc' = "none"
    /\ UNCHANGED <<device, sched, table, mainq, main, async, report, stop, hist>>

-----------------------------------------------------------------------------
(* stopApp, when the package is uninstalled.                                *)

\* The records are finished under the lock. If the timeout handler removes an
\* entry meanwhile, the iteration may fail, and the rest is not done.
StopAppRecords ==
    /\ stop = "no"
    /\ \/ stop' = "records"
       \/ anr.at = "removing" /\ stop' = "failed"
    /\ waiting' =
           [t \in Receiver |-> IF mBroadcastRecords[t] \in Ordered THEN None ELSE waiting[t]]
    /\ mBroadcastRecords' = [t \in Receiver |-> None]
    /\ UNCHANGED <<sent, sched, timeouts, anr, app, report, hist>>

\* The receivers are unregistered: the device no longer waits for them.
StopAppReceivers ==
    /\ stop = "records"
    /\ stop' = "done"
    /\ waiting' = [t \in Receiver |-> None]
    /\ UNCHANGED <<sent, sched, table, app, report, hist>>

-----------------------------------------------------------------------------
Scheduler == OnReceive \/ RecordSent \/ ArmTimeout \/ ScheduleReceiver
Expiry == (\E t \in Receiver : TimeoutFires(t)) \/ TimeoutRemoves \/ TimeoutFinishes
Timer == Expiry \/ OtherTimeoutFires \/ OtherTimeoutEnds
Report(b) == ReportRemoves(b) \/ ReportCancels(b) \/ ReportFinishes(b)
App ==
    \/ HandleReceiver \/ ReceiverReturns \/ CallBroadcastFinish \/ BroadcastFinishReturns
    \/ \E b \in Bcast : AsyncFinishes(b)
Process == ProcessStarts \/ ProcessDies \/ ProcessForgotten
StopApp == StopAppRecords \/ StopAppReceivers

BroadcastNext ==
    \/ \E b \in Bcast : Deliver(b) \/ Report(b)
    \/ Scheduler \/ Timer \/ App \/ Process \/ StopApp

BroadcastSpec == BroadcastInit /\ [][BroadcastNext]_broadcastVars

\* The threads of the server run, a timeout that is not cancelled goes off, and
\* a call that was made is served and returns. Nothing is assumed of the app.
BroadcastFairness ==
    /\ WF_broadcastVars(Scheduler) /\ SF_broadcastVars(Expiry)
    /\ WF_broadcastVars(OtherTimeoutEnds) /\ WF_broadcastVars(StopAppReceivers)
    /\ \A b \in Bcast : WF_broadcastVars(Report(b))
FairBroadcastSpec == BroadcastSpec /\ BroadcastFairness

-----------------------------------------------------------------------------
(* Correctness                                                             *)

\* A recorded broadcast has a timeout, armed or about to be armed or at work,
\* so that no receiver that hangs keeps its record for ever. It is without one
\* only when the report of another broadcast to the same receiver cancelled it,
\* or when the unlocked update of the map brought a record back.
RecordIsTimed ==
    \A t \in Receiver : mBroadcastRecords[t] # None =>
        \/ timeouts[t] > 0
        \/ stage = "arm" /\ tokenOf[serving] = t
        \/ anr.at = "removing" /\ anr.of = t
        \/ mBroadcastRecords[t] \in swept
        \/ lost # {}

Ends(b) == waiting[tokenOf[b]] # b

\* Whatever the app does (hang, die, answer late, answer twice), the device
\* does not wait for ever: every ordered broadcast is finished, by the app, by
\* the timeout or when the package stops. The exceptions are a broadcast that
\* came when the app had no process, one whose record or timeout went with the
\* record or the report of another broadcast, and a lost update of the map.
WaitEnds ==
    \A b \in Ordered :
        waiting[tokenOf[b]] = b ~> Ends(b) \/ b \in dropped \cup swept \/ lost # {}
=============================================================================
