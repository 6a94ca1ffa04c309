---------------------------- MODULE ActivityTasks ----------------------------
(***************************************************************************)
(* ActivityStack: what the server remembers of the tasks and activities of *)
(* one user, and how it serves startActivity by launch mode and flags.     *)
(*                                                                         *)
(* Android itself keeps the real tasks (stack, recents) and launches,      *)
(* destroys and relaunches the stub activities that stand for those of the *)
(* app, which run in one process at a time.  The server hears of them from *)
(* the process: onActivityCreated when a launch is handled, onActivity-    *)
(* Destroyed when finishActivity returns, and the death notice, which is   *)
(* worked off at any later time.  It finishes what it has marked from its  *)
(* main thread.                                                            *)
(*                                                                         *)
(* An operation under mHistory is one action.  startActivity is cut where  *)
(* it starts the process of the activity.  An intent is its component and  *)
(* its flags; whether it is the same as that of the root is chosen freely. *)
(***************************************************************************)
EXTENDS Naturals, SequencesExt

CONSTANTS
    Comp,           \* the activities the app declares,
    launchMode,     \* their launch modes,
    documentMode,   \* document launch modes,
    affinity,       \* and task affinities (ComponentUtils.getTaskAffinity)
    FlagSets,       \* the sets of flags that intents carry
    MaxStarts,      \* bounds on the starts,
    MaxTroubles     \* and on what Android ends or forgets by itself

ASSUME ActivityTasksAssumption ==
    /\ Comp # {}
    /\ launchMode \in [Comp -> {"standard", "singleTop", "singleTask", "singleInstance"}]
    /\ documentMode \in [Comp -> {"none", "existing", "always"}]
    /\ DOMAIN affinity = Comp
    /\ MaxStarts \in Nat /\ MaxTroubles \in Nat

VARIABLES
    mHistory,   \* task id -> TaskRecord
    pc, job,    \* the operation in synchronized(this), and its locals
    posted,     \* finishActivity calls that wait for the main thread
    comp,       \* the component of each activity; its index is its token
    stack,      \* the activities of each of Android's tasks, the top last
    recents,    \* getRecentTasks
    pid,        \* the process that runs
    launch,     \* launches on their way to it
    up,         \* the activities it has
    known,      \* VActivityManager.mActivities: those it has a record for
    creating,   \* onActivityCreated calls that have found their process
    reports,    \* onActivityDestroyed calls to come
    notices,    \* dead processes whose notice has not been worked off
    spent,      \* how much of the bounds is used up
    owed        \* histories, see below

server == <<mHistory, pc, job, posted>>
android == <<comp, stack, recents>>
process == <<pid, launch, up, known>>
calls == <<creating, reports, notices>>
vars == <<server, android, process, calls, spent, owed>>

-----------------------------------------------------------------------------
Token == 1..MaxStarts
Task == 1..MaxStarts
NoTask == 0         \* what getTaskForActivity says of an activity in no task
Pid == 1..(MaxTroubles + 1)

ActivityRecord == [token : Token, component : Comp, pid : Pid, marked : BOOLEAN]
TaskRecord == [affinity : {affinity[c] : c \in Comp}, root : Comp, activities : Seq(ActivityRecord)]
Creation == [token : Token, pid : Pid, task : Task \union {NoTask}]

\* The task that an operation goes on with, or, when its record has left
\* mHistory, the token at the end of that.
NoJob == [comp |-> CHOOSE c \in Comp : TRUE, task |-> NoTask, last |-> 0]

\* Histories.  silent: activities that Android finished and nobody reported;
\* again: those launched twice in one process; belated: those filed for a
\* process after its notice; unseen: those that lived when another of their
\* component was started that could not find them; spared: those that were to
\* be finished, and whose process had died.
NothingOwed == [silent |-> {}, again |-> {}, belated |-> {}, unseen |-> {}, spared |-> {}]

Init ==
    /\ mHistory = [t \in {} |-> 0]
    /\ pc = "idle" /\ job = NoJob /\ posted = {}
    /\ comp = <<>> /\ stack = <<>> /\ recents = {}
    /\ pid = 1 /\ launch = {} /\ up = {} /\ known = {}
    /\ creating = {} /\ reports = {} /\ notices = {}
    /\ spent = [starts |-> 0, troubles |-> 0]
    /\ owed = NothingOwed

-----------------------------------------------------------------------------
(* Android: the real tasks                                                 *)

Live == UNION {Range(stack[t]) : t \in DOMAIN stack}
TaskOf(a) == IF a \in Live THEN CHOOSE t \in DOMAIN stack : a \in Range(stack[t]) ELSE NoTask

\* What is left of a sequence without the members of a set.
Without(s, as) ==
    LET left[n \in 0..Len(s)] ==
            IF n = 0 THEN <<>> ELSE IF s[n] \in as THEN left[n - 1] ELSE Append(left[n - 1], s[n])
    IN  left[Len(s)]
Finish(as) == stack' = [t \in DOMAIN stack |-> Without(stack[t], as)] /\ up' = up \ as

Trouble == spent.troubles < MaxTroubles /\ spent' = [spent EXCEPT !.troubles = @ + 1]

\* A new activity on top of a task, or in a task of its own.
Launched(c) ==
    /\ comp' = Append(comp, c)
    /\ launch' = launch \union {Len(comp')}
LaunchIn(t, c) ==
    /\ Launched(c)
    /\ stack' = [stack EXCEPT ![t] = Append(@, Len(comp'))]
    /\ UNCHANGED recents
LaunchNew(c) ==
    /\ Launched(c)
    /\ stack' = Append(stack, <<Len(comp')>>)
    /\ recents' = recents \union {Len(stack')}

\* It destroys an activity for its memory, and launches it again when the user
\* comes back to it.
DestroyForMemory(a) ==
    /\ a \in up /\ up' = up \ {a}
    /\ Trouble
    /\ UNCHANGED <<server, android, pid, launch, known, calls, owed>>

Relaunch(t) ==
    /\ stack[t] # <<>> /\ Last(stack[t]) \notin up \union launch \union {x.token : x \in creating}
    /\ launch' = launch \union {Last(stack[t])}
    /\ UNCHANGED <<server, android, pid, up, known, calls, spent, owed>>

\* The user swipes a task away.
RemoveTask(t) ==
    /\ t \in recents
    /\ Finish(Range(stack[t]))
    /\ recents' = recents \ {t}
    /\ Trouble
    /\ UNCHANGED <<server, comp, pid, launch, known, calls, owed>>

\* A task without activities goes by and by.
ForgetTask(t) ==
    /\ t \in recents /\ stack[t] = <<>>
    /\ recents' = recents \ {t}
    /\ UNCHANGED <<server, comp, stack, process, calls, spent, owed>>

\* The process dies, with the activities that had no state saved; the launches
\* on their way start another one.
Die ==
    /\ Trouble
    /\ pid' = pid + 1 /\ notices' = notices \union {pid}
    /\ \E as \in SUBSET up : stack' = [t \in DOMAIN stack |-> Without(stack[t], as)]
    /\ up' = {} /\ known' = {} /\ reports' = {}
    /\ UNCHANGED <<server, comp, recents, launch, creating, owed>>

-----------------------------------------------------------------------------
(* The process of the app                                                  *)

\* The app calls finish(); the hook of finishActivity reports it.
FinishActivity(a) ==
    /\ a \in up
    /\ Finish({a})
    /\ reports' = reports \union {a}
    /\ UNCHANGED <<server, comp, recents, pid, launch, known, creating, notices, spent, owed>>

\* The app calls finishAffinity(), which has no hook.
FinishAffinity(t) ==
    /\ Range(stack[t]) \intersect up # {}
    /\ Finish(Range(stack[t]))
    /\ Trouble
    /\ owed' = [owed EXCEPT !.silent = @ \union Range(stack[t])]
    /\ UNCHANGED <<server, comp, recents, pid, launch, known, calls>>

\* Faulty variant: the activity is not put into mActivities.
HandleLaunchActivity_NoRecord(a) ==
    /\ a \in launch /\ launch' = launch \ {a}
    /\ creating' = creating \union {[token |-> a, pid |-> pid, task |-> TaskOf(a)]}
    /\ UNCHANGED <<server, android, pid, up, known, reports, notices, spent, owed>>

\* handleLaunchActivity: the task is asked for, and the call goes out.
HandleLaunchActivity(a) ==
    /\ a \in launch /\ launch' = launch \ {a}
    /\ known' = known \union {a}
    /\ creating' = creating \union {[token |-> a, pid |-> pid, task |-> TaskOf(a)]}
    /\ owed' = [owed EXCEPT !.again = IF a \in known THEN @ \union {a} ELSE @,
                            !.silent = IF a \in Live THEN @ ELSE @ \union {a}]
    /\ UNCHANGED <<server, android, pid, up, reports, notices, spent>>

\* What the server's main thread asks for with a mark: VActivityManager.finish-
\* Activity in a process that lives and knows the activity.
FinishMarked(x) ==
    /\ x \in posted /\ posted' = posted \ {x}
    /\ IF x.pid = pid /\ x.token \in known \ owed.silent
       THEN Finish({x.token}) /\ reports' = reports \union {x.token} /\ UNCHANGED owed
       ELSE /\ owed' = [owed EXCEPT !.spared = @ \union ({x.token} \intersect Live)]
            /\ UNCHANGED <<stack, up, reports>>
    /\ UNCHANGED <<mHistory, pc, job, comp, recents, pid, launch, known, creating, notices, spent>>

-----------------------------------------------------------------------------
(* The server: what it hears                                               *)

\* optimizeTasksLocked forgets the tasks that are not in recents.
Optimized == Restrict(mHistory, DOMAIN mHistory \intersect recents)

LastToken(as) == IF as = <<>> THEN 0 ELSE Last(as).token

\* The operation in synchronized(this) keeps the record of its task.
KeepJob ==
    job' = IF job.task \in DOMAIN mHistory \ recents
           THEN [job EXCEPT !.task = NoTask, !.last = LastToken(mHistory[job.task].activities)]
           ELSE job

\* findActivityByToken: the last record with the token.
Places(h, a) ==
    UNION {{<<t, i>> : i \in {j \in DOMAIN h[t].activities : h[t].activities[j].token = a}} : t \in DOMAIN h}
Place(h, a) == CHOOSE p \in Places(h, a) : \A q \in Places(h, a) :
                    p[1] > q[1] \/ (p[1] = q[1] /\ p[2] >= q[2])

OnActivityCreated(x) ==
    LET c == comp[x.token]
        task == IF x.task \in DOMAIN Optimized THEN Optimized[x.task]
                ELSE [affinity |-> affinity[c], root |-> c, activities |-> <<>>]
        record == [token |-> x.token, component |-> c, pid |-> x.pid, marked |-> FALSE]
    IN
    /\ x \in creating /\ creating' = creating \ {x}
    /\ mHistory' = [t \in DOMAIN Optimized \union {x.task} |->
                        IF t = x.task THEN [task EXCEPT !.activities = Append(@, record)] ELSE Optimized[t]]
    /\ KeepJob
    /\ up' = IF x.pid = pid /\ x.token \in Live THEN up \union {x.token} ELSE up
    /\ owed' = [owed EXCEPT !.belated = IF x.pid # pid /\ x.pid \notin notices THEN @ \union {x.token} ELSE @]
    /\ UNCHANGED <<pc, posted, android, pid, launch, known, reports, notices, spent>>

OnActivityResumed(t) ==
    LET a == Last(stack[t])
        p == Place(Optimized, a)
        as == Optimized[p[1]].activities
    IN
    /\ stack[t] # <<>> /\ a \in up
    /\ mHistory' = IF Places(Optimized, a) = {} THEN Optimized
                   ELSE [Optimized EXCEPT ![p[1]].activities = Append(RemoveAt(@, p[2]), as[p[2]])]
    /\ KeepJob
    /\ UNCHANGED <<pc, posted, android, process, calls, spent, owed>>

\* The task of the record stays, also when it is empty.
OnActivityDestroyed(a) ==
    LET p == Place(Optimized, a) IN
    /\ a \in reports /\ reports' = reports \ {a}
    /\ known' = known \ {a}
    /\ mHistory' = IF Places(Optimized, a) = {} THEN Optimized
                   ELSE [Optimized EXCEPT ![p[1]].activities = RemoveAt(@, p[2])]
    /\ KeepJob
    /\ UNCHANGED <<pc, posted, android, pid, launch, up, creating, notices, spent, owed>>

\* Faulty variant: a task is cleared only if all of it was in the process.
ProcessDied_WholeTasks(p) ==
    LET stays(t) == \E r \in Range(Optimized[t].activities) : r.pid # p IN
    /\ p \in notices /\ notices' = notices \ {p}
    /\ mHistory' = Restrict(Optimized, {t \in DOMAIN Optimized : stays(t)})
    /\ KeepJob
    /\ UNCHANGED <<pc, posted, android, process, creating, reports, spent, owed>>

\* Faulty variant: the name of the process is compared, not the pid.
ProcessDied_ByName(p) ==
    /\ p \in notices /\ notices' = notices \ {p}
    /\ mHistory' = [t \in {} |-> 0]
    /\ KeepJob
    /\ UNCHANGED <<pc, posted, android, process, creating, reports, spent, owed>>

\* A task goes with its last activity, but not if it was empty before.
ProcessDied(p) ==
    LET left(t) == LET as == Optimized[t].activities IN Without(as, {r \in Range(as) : r.pid = p})
        stays(t) == left(t) # <<>> \/ Optimized[t].activities = <<>>
    IN
    /\ p \in notices /\ notices' = notices \ {p}
    /\ mHistory' = [t \in {u \in DOMAIN Optimized : stays(u)} |-> [Optimized[t] EXCEPT !.activities = left(t)]]
    /\ KeepJob
    /\ UNCHANGED <<pc, posted, android, process, creating, reports, spent, owed>>

-----------------------------------------------------------------------------
(* The server: startActivity                                               *)

\* An activity that is alone in its task starts others in new ones.
Flags(c, flags, source) ==
    IF source # 0 /\ launchMode[comp[source]] = "singleInstance" THEN flags \union {"NEW_TASK"} ELSE flags

OrMultiple(flags, target) == IF "MULTIPLE_TASK" \in flags THEN "MULTIPLE" ELSE target

ReuseTarget(c, flags, sourceTask) ==
    LET byDocument == CASE documentMode[c] = "none" -> "CURRENT"
                        [] documentMode[c] = "existing" -> "DOCUMENT"
                        [] documentMode[c] = "always" -> "MULTIPLE"
        target == CASE launchMode[c] = "singleTop" /\ "NEW_TASK" \in flags -> OrMultiple(flags, "AFFINITY")
                    [] launchMode[c] = "singleTask" -> OrMultiple(flags, "AFFINITY")
                    [] launchMode[c] = "singleInstance" -> "AFFINITY"
                    [] OTHER -> byDocument
    IN  IF target = "CURRENT" /\ sourceTask = NoTask THEN "AFFINITY" ELSE target

\* Faulty variant: singleTask does not look for the activity in the task.
InOwnTask_SingleInstance(c) == launchMode[c] = "singleInstance"

InOwnTask(c) == launchMode[c] \in {"singleTask", "singleInstance"}

ClearTarget(c, flags) ==
    CASE InOwnTask(c) -> "TOP"
      [] ~InOwnTask(c) /\ (documentMode[c] = "existing" \/ {"CLEAR_TASK", "NEW_TASK"} \subseteq flags) -> "TASK"
      [] OTHER -> IF "CLEAR_TOP" \in flags THEN "TOP"
                  ELSE IF "REORDER_TO_FRONT" \in flags THEN "SPEC_ACTIVITY" ELSE "NOTHING"

SingleTop(c, flags) ==
    launchMode[c] = "singleTop" \/ (launchMode[c] = "standard" /\ "SINGLE_TOP" \in flags)

\* The first task, by its id, that the operation may reuse, or none.
FirstTask(ts) == IF ts = {} THEN NoTask ELSE CHOOSE t \in ts : \A u \in ts : t <= u

ReuseTask(h, c, flags, sourceTask) ==
    LET target == ReuseTarget(c, flags, sourceTask) IN
    CASE target = "AFFINITY" -> FirstTask({t \in DOMAIN h : h[t].affinity = affinity[c]})
      [] target = "DOCUMENT" -> FirstTask({t \in DOMAIN h : h[t].root = c})
      [] target = "CURRENT" -> sourceTask
      [] target = "MULTIPLE" -> NoTask

\* markTaskByClearTarget: what is marked, by its place, and the result.
Above(as, c) == {i \in DOMAIN as : \E j \in 1..(i - 1) :
                    as[j].component = c /\ \A k \in j + 1..Len(as) : as[k].component # c}
MarkedBy(as, target, c) ==
    CASE target = "TASK" -> DOMAIN as
      [] target = "SPEC_ACTIVITY" -> {i \in DOMAIN as : as[i].component = c}
      [] target = "TOP" -> Above(as, c)
      [] target = "NOTHING" -> {}
TaskMarked(as, target, c) ==
    CASE target = "TASK" -> as # <<>>
      [] target \in {"SPEC_ACTIVITY", "TOP"} -> \E i \in DOMAIN as : as[i].component = c
      [] target = "NOTHING" -> FALSE
Mark(as, places) == [i \in DOMAIN as |-> IF i \in places THEN [as[i] EXCEPT !.marked = TRUE] ELSE as[i]]

\* topActivityInTask: the place of the last one that is not marked, or 0.
Top(as) == SelectLastInSeq(as, LAMBDA r : ~r.marked)

\* The activities of the task as the operation leaves them, whether it has
\* marked any, and whether the one on top is the one to go to.
Cleared(as, c, flags) ==
    LET target == ClearTarget(c, flags)
        clears == target \in {"TASK", "TOP"} \/ SingleTop(c, flags)
        first == IF clears THEN Mark(as, MarkedBy(as, target, c)) ELSE as
        marked == clears /\ TaskMarked(as, target, c)
        top == Top(first)
        topToo == top # 0 /\ marked /\ "CLEAR_TOP" \in flags /\ ~InOwnTask(c) /\ ~SingleTop(c, flags)
    IN [activities |-> IF topToo THEN Mark(first, {top}) ELSE first,
        marked |-> marked,
        delivered |-> clears /\ top # 0 /\ ~topToo /\ first[top].component = c]

\* Faulty variant: it ends with the first marked activity of a task.
MarkedIn_First(h) ==
    {LET r == SelectSeq(h[t].activities, LAMBDA q : q.marked)[1] IN [token |-> r.token, pid |-> r.pid] :
        t \in {u \in DOMAIN h : \E i \in DOMAIN h[u].activities : h[u].activities[i].marked}}

\* scheduleFinishMarkedActivityLocked goes over all the tasks.
MarkedIn(h) ==
    UNION {{[token |-> r.token, pid |-> r.pid] : r \in {r \in Range(h[t].activities) : r.marked}} :
           t \in DOMAIN h}

\* One activity of the component is enough, unless the intent asks for others.
Single(c) == launchMode[c] \in {"singleTask", "singleInstance"}
Multiple(c, flags) == launchMode[c] = "singleTask" /\ "MULTIPLE_TASK" \in flags

\* An activity of c that lives can be found by a start of c when the only task
\* of the affinity has its record, and no later one of c.
TasksFor(c) == {t \in DOMAIN Optimized : Optimized[t].affinity = affinity[c]}
Found(a, c) ==
    \E t \in TasksFor(c) : LET as == Optimized[t].activities IN
        /\ TasksFor(c) = {t}
        /\ \E i \in DOMAIN as : as[i].token = a /\ \A j \in i + 1..Len(as) : as[j].component # c
Unseen(c, flags) ==
    {a \in Live : comp[a] = c /\ Single(c) /\ (~Found(a, c) \/ Multiple(c, flags))}

\* The task goes to the front.  When the intent is that of its root this is
\* all; else the activity is started, unless a new intent was delivered.
StartActivityLocked(c, intentFlags, source, sameIntent) ==
    LET listed == source # 0 /\ Places(Optimized, source) # {}
        sourceTask == IF listed THEN Place(Optimized, source)[1] ELSE NoTask
        flags == IF listed THEN Flags(c, intentFlags, source) ELSE intentFlags
        t == ReuseTask(Optimized, c, flags, sourceTask)
        result == Cleared(Optimized[t].activities, c, flags)
        toFront == sameIntent /\ {"CLEAR_TOP", "CLEAR_TASK"} \intersect flags \subseteq
                                     (IF InOwnTask(c) THEN {"CLEAR_TOP"} ELSE {})
    IN
    /\ pc = "idle" /\ spent.starts < MaxStarts
    /\ spent' = [spent EXCEPT !.starts = @ + 1]
    /\ source \in up \union {0}
    /\ owed' = [owed EXCEPT !.unseen = @ \union Unseen(c, flags)]
    /\ IF t = NoTask
       THEN /\ ~sameIntent
            /\ pc' = "newTask" /\ job' = [NoJob EXCEPT !.comp = c]
            /\ mHistory' = Optimized
            /\ UNCHANGED posted
       ELSE /\ sameIntent => Optimized[t].root = c
            /\ mHistory' = [Optimized EXCEPT ![t].activities = result.activities]
            /\ posted' = IF result.marked THEN posted \union MarkedIn(mHistory') ELSE posted
            /\ IF toFront \/ result.delivered
               THEN UNCHANGED <<pc, job>>
               ELSE pc' = "inTask" /\ job' = [NoJob EXCEPT !.comp = c, !.task = t]
    /\ UNCHANGED <<android, process, calls>>

JobDone == pc' = "idle" /\ job' = NoJob

\* The process is there, and the activity is started in a new task.
StartActivityInNewTask ==
    /\ pc = "newTask" /\ JobDone
    /\ LaunchNew(job.comp)
    /\ UNCHANGED <<mHistory, posted, pid, up, known, calls, spent, owed>>

\* It is started from the last activity of the task, marked or not.  Android
\* gives it a task of its own if that one is finished.
Source == IF job.task \in DOMAIN mHistory THEN LastToken(mHistory[job.task].activities) ELSE job.last

StartActivityFromSourceTask ==
    /\ pc = "inTask" /\ JobDone
    /\ CASE Source = 0 -> UNCHANGED <<android, launch>>
         [] Source \in Live -> LaunchIn(TaskOf(Source), job.comp)
         [] OTHER -> LaunchNew(job.comp)
    /\ UNCHANGED <<mHistory, posted, pid, up, known, calls, spent, owed>>

\* startProcessIfNeededLocked finds no place for the process.
NoProcess ==
    /\ pc \in {"newTask", "inTask"} /\ JobDone
    /\ UNCHANGED <<mHistory, posted, android, process, calls, spent, owed>>

-----------------------------------------------------------------------------
Start ==
    \E c \in Comp, flags \in FlagSets, source \in up \union {0}, sameIntent \in BOOLEAN :
        StartActivityLocked(c, flags, source, sameIntent)

Next ==
    \/ Start \/ StartActivityInNewTask \/ StartActivityFromSourceTask \/ NoProcess
    \/ \E a \in Token : \/ DestroyForMemory(a) \/ FinishActivity(a) \/ HandleLaunchActivity(a)
                        \/ OnActivityDestroyed(a)
    \/ \E t \in DOMAIN stack : \/ Relaunch(t) \/ RemoveTask(t) \/ ForgetTask(t) \/ FinishAffinity(t)
                               \/ OnActivityResumed(t)
    \/ \E x \in creating : OnActivityCreated(x)
    \/ \E x \in posted : FinishMarked(x)
    \/ \E p \in notices : ProcessDied(p)
    \/ Die

Spec == Init /\ [][Next]_vars

-----------------------------------------------------------------------------
(* Correctness                                                             *)

\* The types of the variables; each activity that runs has its record in the
\* process, where finishActivity looks for it.
TypeOK ==
    /\ DOMAIN mHistory \subseteq Task \union {NoTask}
    /\ \A t \in DOMAIN mHistory : mHistory[t] \in TaskRecord
    /\ pc \in {"idle", "newTask", "inTask"}
    /\ job \in [comp : Comp, task : Task \union {NoTask}, last : Token \union {0}]
    /\ posted \subseteq [token : Token, pid : Pid]
    /\ Range(comp) \subseteq Comp /\ Len(comp) <= spent.starts
    /\ recents \subseteq DOMAIN stack
    /\ pid \in Pid
    /\ launch \union up \union known \union reports \subseteq DOMAIN comp
    /\ up \subseteq known
    /\ creating \subseteq Creation /\ notices \subseteq 1..(pid - 1)
    /\ spent \in [starts : 0..MaxStarts, troubles : 0..MaxTroubles]

\* What mHistory shows in the tasks that Android has.
Records == UNION {Range(mHistory[t].activities) : t \in DOMAIN mHistory \intersect recents}

\* A record stands for an activity that lives, or whose end is on its way to
\* the server: a report or the notice of its process.  Others stay only when
\* Android ended the activity and nobody reported it, when the process launched
\* it twice, or when it was filed for a process after the notice: onActivity-
\* Created finds the process and then waits for mHistory
\* (VActivityManagerService.java:186-188).
RecordsAreBacked ==
    \A r \in Records :
        \/ r.token \in Live \union reports \/ r.pid \in notices
        \/ r.token \in owed.silent \union owed.again \union owed.belated

\* An activity that runs is on record, in the task in which Android has it and
\* with its process, so that it is found by its token and gets new intents:
\* late notices of earlier processes and forgotten tasks take nothing of it.
RunningIsListed ==
    \A a \in up : TaskOf(a) \in DOMAIN mHistory /\
        \E r \in Range(mHistory[TaskOf(a)].activities) : r.token = a /\ r.pid = pid

\* There are two activities of a component with launch mode singleTask or
\* singleInstance only if the second was started when the first could not be
\* found (it had not reported itself yet, or its process had died), if more of
\* them were asked for, or if the first is about to be finished, or was to be
\* by a process that had died.
SingleTaskOnce ==
    \A a, b \in Live : a < b /\ comp[a] = comp[b] /\ Single(comp[a]) =>
        a \in owed.unseen \union owed.spared \union {x.token : x \in posted}

\* An activity that a start has marked, and that is passed over from then on,
\* is about to be finished, as long as its process lives: no mark stays without
\* the call on the main thread.
MarkedIsPosted ==
    \A r \in Records : r.marked /\ r.pid = pid /\ r.token \in Live =>
        [token |-> r.token, pid |-> pid] \in posted
=============================================================================
