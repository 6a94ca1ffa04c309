---------------------------- MODULE ProcessTable ----------------------------
(***************************************************************************)
(* The process table of VActivityManagerService: how an app process of a    *)
(* virtual user is placed in one of the host package's stub processes       *)
(* (":p0", ":p1", ...), found again by name, and forgotten when it dies.    *)
(*                                                                         *)
(* Actors that interleave:                                                 *)
(*   - the starter: the one binder thread inside synchronized(this), that   *)
(*     runs startProcessIfNeedLocked or processRestarted;                   *)
(*   - the reapers: one binder thread per delivered death notice, that runs *)
(*     onProcessDead and takes no lock at all;                              *)
(*   - the killers (killAllApps, killAppByPkg, stopUser, ...);              *)
(*   - Android, that kills and respawns stub processes at will.             *)
(* A ProcessRecord is an element of Record, a process instance one of Pid   *)
(* (a pid is not reused within a behaviour); a Key is the pair of process   *)
(* name and vuid under which mProcessNames files a record.                  *)
(***************************************************************************)
EXTENDS Integers, FiniteSets

CONSTANTS
    Key,         \* (process name, vuid) pairs
    Record,      \* ProcessRecord objects: bounds the number of starts
    Pid,         \* process instances: bounds the number of spawns
    STUB_COUNT,  \* stubs declared by the host's manifest: VASettings.STUB_COUNT
    Reserve,     \* the 3 of "getFreeStubCount() < 3"
    Null

Vpid == 0 .. (STUB_COUNT - 1)
NoVpid == -1

ASSUME ProcessTableAssumption ==
    /\ STUB_COUNT \in Nat
    /\ Reserve \in Nat
    /\ Null \notin Key \cup Record \cup Pid

VARIABLES
    keyOf, vpidOf, pidOf,  \* fields of each ProcessRecord; keyOf = Null: not created yet
    mProcessNames,         \* ProcessMap: Key -> ProcessRecord or Null
    mPidsSelfLocked,       \* SparseArray: Pid -> ProcessRecord or Null
    pc, cur,               \* the starter: its next step, its locals
    reaper,                \* death recipient of each record: its next step
    buried,                \* pids whose binder proxy isBinderAlive() is false
    alive, stubOf, token,  \* the processes: running, in which stub, VClientImpl.token
    restart,               \* the key of a process's pending processRestarted call, or Null
    viaRestart             \* history: records created on behalf of processRestarted

records == <<keyOf, vpidOf, pidOf>>
tables  == <<mProcessNames, mPidsSelfLocked>>
starter == <<pc, cur>>
host    == <<stubOf, token, restart>>
vars    == <<records, tables, starter, reaper, buried, alive, host, viaRestart>>

StarterPC == {"idle", "lookup", "query", "call", "attach", "link", "putName", "putPid"}
ReaperPC  == {"none", "linked", "unname", "unpid", "done"}
Locals    == [key : Key \cup {Null}, vpid : Vpid \cup {NoVpid}, rec : Record \cup {Null},
              pid : Pid \cup {Null}, restarted : BOOLEAN]
NoLocals  == [key |-> Null, vpid |-> NoVpid, rec |-> Null, pid |-> Null, restarted |-> FALSE]

Listed      == {p \in Pid : mPidsSelfLocked[p] # Null}
Unborn      == {p \in Pid : stubOf[p] = NoVpid}
Running(v)  == {p \in alive : stubOf[p] = v}
Attaching   == {"attach", "link", "putName", "putPid"}

TypeOK ==
    /\ keyOf \in [Record -> Key \cup {Null}]
    /\ vpidOf \in [Record -> Vpid \cup {NoVpid}]
    /\ pidOf \in [Record -> Pid \cup {Null}]
    /\ mProcessNames \in [Key -> Record \cup {Null}]
    /\ mPidsSelfLocked \in [Pid -> Record \cup {Null}]
    /\ pc \in StarterPC
    /\ cur \in Locals
    /\ reaper \in [Record -> ReaperPC]
    /\ buried \subseteq Pid
    /\ alive \subseteq Pid
    /\ stubOf \in [Pid -> Vpid \cup {NoVpid}]
    /\ token \in [Pid -> Record \cup {Null}]
    /\ restart \in [Pid -> Key \cup {Null}]
    /\ viaRestart \subseteq Record

Init ==
    /\ keyOf = [r \in Record |-> Null]
    /\ vpidOf = [r \in Record |-> NoVpid]
    /\ pidOf = [r \in Record |-> Null]
    /\ mProcessNames = [k \in Key |-> Null]
    /\ mPidsSelfLocked = [p \in Pid |-> Null]
    /\ pc = "idle"
    /\ cur = NoLocals
    /\ reaper = [r \in Record |-> "none"]
    /\ buried = {}
    /\ alive = {}
    /\ stubOf = [p \in Pid |-> NoVpid]
    /\ token = [p \in Pid |-> Null]
    /\ restart = [p \in Pid |-> Null]
    /\ viaRestart = {}

-----------------------------------------------------------------------------
(* The starter, under synchronized(this).                                  *)

\* The starter leaves the monitor.
Return == pc' = "idle" /\ cur' = NoLocals

\* startProcessIfNeedLocked up to the lookup: too few free stubs, and every
\* listed process is killed ("run GC").
StartProcessIfNeed(k) ==
    /\ pc = "idle"
    /\ LET killed == IF STUB_COUNT - Cardinality(Listed) < Reserve THEN Listed ELSE {} IN
       /\ alive' = alive \ killed
       /\ restart' = [p \in Pid |-> IF p \in killed THEN Null ELSE restart[p]]
    /\ pc' = "lookup"
    /\ cur' = [NoLocals EXCEPT !.key = k]
    /\ UNCHANGED <<records, tables, reaper, buried, stubOf, token, viaRestart>>

\* mProcessNames.get and isBinderAlive: a record whose proxy is not known to
\* be dead is returned as it is.
Lookup ==
    LET r == mProcessNames[cur.key] IN
    /\ pc = "lookup"
    /\ IF r # Null /\ pidOf[r] \notin buried
       THEN Return
       ELSE pc' = "query" /\ UNCHANGED cur
    /\ UNCHANGED <<records, tables, reaper, buried, alive, host, viaRestart>>

\* Faulty variant: a record known to be dead no longer counts.
FreeStub_IgnoresTheDead(v) ==
    \A p \in Listed \ buried : vpidOf[mPidsSelfLocked[p]] # v

\* A stub is free when no listed record names it.
FreeStub(v) == \A p \in Listed : vpidOf[mPidsSelfLocked[p]] # v

\* queryFreeStubProcessLocked: the lowest free stub, or -1 and no start.
QueryFreeStub ==
    /\ pc = "query"
    /\ \/ /\ \A v \in Vpid : ~FreeStub(v)
          /\ Return
       \/ \E v \in Vpid :
            /\ FreeStub(v)
            /\ \A w \in Vpid : FreeStub(w) => v <= w
            /\ cur' = [cur EXCEPT !.vpid = v]
            /\ pc' = "call"
    /\ UNCHANGED <<records, tables, reaper, buried, alive, host, viaRestart>>

\* performStartProcessLocked: a new record, and the call into the stub's
\* provider. Android spawns the stub process when it is not running; the stub
\* overwrites its token with the record and answers its pid.
CallStub(r, p) ==
    /\ pc = "call"
    /\ keyOf[r] = Null
    /\ IF Running(cur.vpid) = {} THEN p \in Unborn ELSE p \in Running(cur.vpid)
    /\ keyOf' = [keyOf EXCEPT ![r] = cur.key]
    /\ vpidOf' = [vpidOf EXCEPT ![r] = cur.vpid]
    /\ alive' = alive \cup {p}
    /\ stubOf' = [stubOf EXCEPT ![p] = cur.vpid]
    /\ token' = [token EXCEPT ![p] = r]
    /\ cur' = [cur EXCEPT !.rec = r, !.pid = p]
    /\ pc' = "attach"
    /\ viaRestart' = IF cur.restarted THEN viaRestart \cup {r} ELSE viaRestart
    /\ UNCHANGED <<pidOf, tables, reaper, buried, restart>>

\* The provider call fails or is never answered: res == null, no start.
CallFails ==
    /\ pc = "call"
    /\ Return
    /\ UNCHANGED <<records, tables, reaper, buried, alive, host, viaRestart>>

\* attachClient up to linkToDeath: getAppThread and getToken are calls to the
\* process; on a dead one they fail and attachClient gives up.
AttachClient ==
    /\ pc = "attach"
    /\ IF cur.pid \in alive
       THEN pc' = "link" /\ UNCHANGED <<cur, buried>>
       ELSE Return /\ buried' = buried \cup {cur.pid}
    /\ UNCHANGED <<records, tables, reaper, alive, host, viaRestart>>

\* Faulty variant: no recipient is linked.
LinkToDeath_Forgotten ==
    /\ pc = "link"
    /\ pidOf' = [pidOf EXCEPT ![cur.rec] = cur.pid]
    /\ pc' = "putName"
    /\ UNCHANGED <<keyOf, vpidOf, tables, cur, reaper, buried, alive, host, viaRestart>>

\* linkToDeath: when the process is dead it may throw, which is swallowed and
\* leaves the record without a recipient. The fields are assigned here, and not
\* just before the tables are: until then only the recipient reads them.
LinkToDeath ==
    /\ pc = "link"
    /\ pidOf' = [pidOf EXCEPT ![cur.rec] = cur.pid]
    /\ \/ reaper' = [reaper EXCEPT ![cur.rec] = "linked"]
       \/ cur.pid \notin alive /\ UNCHANGED reaper
    /\ pc' = "putName"
    /\ UNCHANGED <<keyOf, vpidOf, tables, cur, buried, alive, host, viaRestart>>

PutName ==
    /\ pc = "putName"
    /\ mProcessNames' = [mProcessNames EXCEPT ![keyOf[cur.rec]] = cur.rec]
    /\ pc' = "putPid"
    /\ UNCHANGED <<records, mPidsSelfLocked, cur, reaper, buried, alive, host, viaRestart>>

\* Faulty variant: a stub that is still listed is not listed again.
PutPid_OncePerStub ==
    /\ pc = "putPid"
    /\ mPidsSelfLocked' = IF FreeStub(cur.vpid)
                          THEN [mPidsSelfLocked EXCEPT ![cur.pid] = cur.rec]
                          ELSE mPidsSelfLocked
    /\ Return
    /\ UNCHANGED <<records, mProcessNames, reaper, buried, alive, host, viaRestart>>

PutPid ==
    /\ pc = "putPid"
    /\ mPidsSelfLocked' = [mPidsSelfLocked EXCEPT ![cur.pid] = cur.rec]
    /\ Return
    /\ UNCHANGED <<records, mProcessNames, reaper, buried, alive, host, viaRestart>>

-----------------------------------------------------------------------------
(* A stub process that Android restarted by itself reports for duty.        *)

\* HCallbackStub.handleLaunchActivity: the process has no token yet. Its main
\* thread blocks in the call, so it has one such call at a time.
ReportRestart(p, k) ==
    /\ p \in alive
    /\ token[p] = Null
    /\ restart[p] = Null
    /\ restart' = [restart EXCEPT ![p] = k]
    /\ UNCHANGED <<records, tables, starter, reaper, buried, alive, stubOf, token, viaRestart>>

\* Faulty variant: the caller is not looked up first.
ProcessRestarted_Unchecked(p) ==
    /\ pc = "idle"
    /\ restart[p] # Null
    /\ restart' = [restart EXCEPT ![p] = Null]
    /\ pc' = "call"
    /\ cur' = [key |-> restart[p], vpid |-> stubOf[p], rec |-> Null,
               pid |-> Null, restarted |-> TRUE]
    /\ UNCHANGED <<records, tables, reaper, buried, alive, stubOf, token, viaRestart>>

\* processRestarted, up to performStartProcessLocked in the caller's stub.
ProcessRestarted(p) ==
    /\ pc = "idle"
    /\ restart[p] # Null
    /\ restart' = [restart EXCEPT ![p] = Null]
    /\ IF mPidsSelfLocked[p] = Null
       THEN /\ pc' = "call"
            /\ cur' = [key |-> restart[p], vpid |-> stubOf[p], rec |-> Null,
                       pid |-> Null, restarted |-> TRUE]
       ELSE UNCHANGED starter
    /\ UNCHANGED <<records, tables, reaper, buried, alive, stubOf, token, viaRestart>>

-----------------------------------------------------------------------------
(* Android: a stub is respawned without the server; a process dies.         *)

RespawnStub(v, p) ==
    /\ Running(v) = {}
    /\ p \in Unborn
    /\ stubOf' = [stubOf EXCEPT ![p] = v]
    /\ alive' = alive \cup {p}
    /\ UNCHANGED <<records, tables, starter, reaper, buried, token, restart, viaRestart>>

\* A pending processRestarted of a process that dies finds no process name, and
\* so no vpid, for its caller: it dies with it.
Kill(P) ==
    /\ alive' = alive \ P
    /\ restart' = [p \in Pid |-> IF p \in P THEN Null ELSE restart[p]]
    /\ UNCHANGED <<records, tables, starter, reaper, buried, stubOf, token, viaRestart>>

Die(p) == p \in alive /\ Kill({p})

\* killAllApps and stopUser: the listed processes of some keys (all, or a
\* user's).
KillListed(K) == Kill({p \in Listed : keyOf[mPidsSelfLocked[p]] \in K})

\* killAppByPkg and killApplicationProcess: through mProcessNames.
KillNamed(K) == Kill({pidOf[mProcessNames[k]] : k \in {k \in K : mProcessNames[k] # Null}})

-----------------------------------------------------------------------------
(* The death recipient of a record: binderDied, then onProcessDead with no  *)
(* lock held. processDead and lock.open do not touch the two tables.        *)

BinderDied(r) ==
    /\ reaper[r] = "linked"
    /\ pidOf[r] \notin alive
    /\ buried' = buried \cup {pidOf[r]}
    /\ reaper' = [reaper EXCEPT ![r] = "unname"]
    /\ UNCHANGED <<records, tables, starter, alive, host, viaRestart>>

\* mProcessNames.remove(record.processName, record.vuid): whichever record is
\* filed under the key.
RemoveName(r) ==
    /\ reaper[r] = "unname"
    /\ mProcessNames' = [mProcessNames EXCEPT ![keyOf[r]] = Null]
    /\ reaper' = [reaper EXCEPT ![r] = "unpid"]
    /\ UNCHANGED <<records, mPidsSelfLocked, starter, buried, alive, host, viaRestart>>

\* Faulty variants: whatever is listed for the stub is removed; nothing is
\* removed once a successor has taken the name.
RemovePid_ByStub(r) ==
    /\ reaper[r] = "unpid"
    /\ mPidsSelfLocked' = [p \in Pid |->
            IF p \in Listed /\ vpidOf[mPidsSelfLocked[p]] = vpidOf[r]
            THEN Null ELSE mPidsSelfLocked[p]]
    /\ reaper' = [reaper EXCEPT ![r] = "done"]
    /\ UNCHANGED <<records, mProcessNames, starter, buried, alive, host, viaRestart>>

RemovePid_UnlessSucceeded(r) ==
    /\ reaper[r] = "unpid"
    /\ mPidsSelfLocked' = IF mProcessNames[keyOf[r]] # Null THEN mPidsSelfLocked
                          ELSE [mPidsSelfLocked EXCEPT ![pidOf[r]] = Null]
    /\ reaper' = [reaper EXCEPT ![r] = "done"]
    /\ UNCHANGED <<records, mProcessNames, starter, buried, alive, host, viaRestart>>

RemovePid(r) ==
    /\ reaper[r] = "unpid"
    /\ mPidsSelfLocked' = [mPidsSelfLocked EXCEPT ![pidOf[r]] = Null]
    /\ reaper' = [reaper EXCEPT ![r] = "done"]
    /\ UNCHANGED <<records, mProcessNames, starter, buried, alive, host, viaRestart>>

-----------------------------------------------------------------------------
Start ==
    \/ \E k \in Key : StartProcessIfNeed(k)
    \/ Lookup
    \/ QueryFreeStub
    \/ \E r \in Record, p \in Pid : CallStub(r, p)
    \/ CallFails
    \/ AttachClient
    \/ LinkToDeath
    \/ PutName
    \/ PutPid
    \/ \E p \in Pid : ProcessRestarted(p)

Reap(r) == BinderDied(r) \/ RemoveName(r) \/ RemovePid(r)

Environment ==
    \/ \E p \in Pid, k \in Key : ReportRestart(p, k)
    \/ \E v \in Vpid, p \in Pid : RespawnStub(v, p)
    \/ \E p \in Pid : Die(p)
    \/ \E K \in SUBSET Key : KillListed(K) \/ KillNamed(K)

Next == Start \/ Environment \/ \E r \in Record : Reap(r)

Spec == Init /\ [][Next]_vars

\* Android delivers every death notice, and a binder thread runs it to the end.
Fairness == \A r \in Record : WF_vars(Reap(r))
FairSpec == Spec /\ Fairness

-----------------------------------------------------------------------------
(* Correctness                                                             *)

\* A running process that hosts an app is found by its pid under the record
\* whose token it holds, but for the one the starter is attaching now: the
\* callers of findProcessLocked(pid) (onActivityCreated, getUidByPid, ...)
\* identify it, and queryFreeStubProcessLocked does not offer its stub.
LiveIsListed ==
    \A p \in alive : token[p] # Null =>
        \/ mPidsSelfLocked[p] = token[p]
        \/ pc \in Attaching /\ cur.pid = p /\ cur.rec = token[p]

\* The two tables agree on running processes: a record found by name whose
\* process runs is the one found by that process's pid, unless the starter is
\* between the two puts of attachClient. A caller that startProcessIfNeedLocked
\* sends to a live process by name is never sent to an unknown one.
NamedIsListed ==
    \A k \in Key :
        LET r == mProcessNames[k] IN
        r # Null /\ pidOf[r] \in alive =>
            /\ keyOf[r] = k
            /\ token[pidOf[r]] = r
            /\ mPidsSelfLocked[pidOf[r]] = r \/ (pc = "putPid" /\ cur.rec = r)

\* onProcessDead removes by key, not by record, so a late death notice takes
\* the name of the successor with it. That, and a processRestarted overwriting
\* the entry, are the only ways for a running app to lose its name: it was
\* started by that very call itself, or the same app has been started in
\* another stub too.
NameLostOnlyToSibling ==
    \A p \in Listed \cap alive :
        LET r == mPidsSelfLocked[p] IN
        mProcessNames[keyOf[r]] # r =>
            \/ r \in viaRestart
            \/ \E s \in Record : keyOf[s] = keyOf[r] /\ vpidOf[s] # vpidOf[r]

\* Every running process of the table has its death watched, by the recipient
\* of the record it is filed under, and the notice has not been spent: a slot
\* can leak only when the process died before attachClient had filed it.
ListedIsWatched ==
    \A p \in Listed \cap alive :
        LET r == mPidsSelfLocked[p] IN pidOf[r] = p /\ reaper[r] = "linked"

\* The stub pool is what the table implements: a stub is let to a new record
\* only when no process of an earlier one runs in it, so no app is ever handed
\* the process of another (StubContentProvider.initProcess would overwrite the
\* token and vuid of the running app without a question).
Pool == INSTANCE StubPool WITH
    Stub <- Vpid,
    Tenant <- Record,
    tenants <- [v \in Vpid |-> {token[p] : p \in Running(v)} \ {Null}]

PoolSpec == Pool!Spec

\* The slot of a process that was once in the table alive is given back: when
\* it dies, the death recipient takes it out of the table of pids.
ListedAliveIsCollected ==
    \A p \in Pid :
        []((p \in alive /\ p \in Listed) => [](p \notin alive => <>(p \notin Listed)))
=============================================================================
