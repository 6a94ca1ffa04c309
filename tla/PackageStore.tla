---------------------------- MODULE PackageStore ----------------------------
(***************************************************************************)
(* The packages: VAppManagerService installs, updates and removes them     *)
(* under its monitor, PackagePersistenceLayer keeps their settings in a    *)
(* list, UidSystem gives out the app ids and keeps them in a file with a   *)
(* backup.  Users come and go under the monitors of VUserManagerService,   *)
(* and setPackageHidden and processRestarted save the list under none of   *)
(* these.                                                                  *)
(*                                                                         *)
(* The server dies at any point; what a write or a deletion that it dies   *)
(* in leaves on disk is CutShort.  A file that is missing is as good as    *)
(* one that cannot be read.  The data of the users, optimised code, and    *)
(* packages that stay in the host (dependSystem) are left out; of the per  *)
(* user state there is only installed.                                     *)
(***************************************************************************)
EXTENDS Naturals, Functions

CONSTANTS
    Package,
    NoPackage,
    User,           \* the users besides the owner, who is user 0
    SharedId(_),    \* mSharedUserId of a package, or its name
    Sharer,         \* the shared ids
    FIRST_APPLICATION_UID,
    MaxInstalls,    \* bounds on installs and updates,
    MaxChanges,     \* on the other operations, and new users,
    MaxSaves,       \* on saves outside the monitor,
    MaxTroubles     \* and on deaths of the server at work and errors

ASSUME PackageStoreAssumption ==
    /\ NoPackage \notin Package
    /\ User \subseteq Nat \ {0}
    /\ \A p \in Package : SharedId(p) \in Sharer
    /\ FIRST_APPLICATION_UID \in Nat \ {0}
    /\ MaxInstalls \in Nat /\ MaxChanges \in Nat /\ MaxSaves \in Nat /\ MaxTroubles \in Nat

VARIABLES
    disk,       \* list, uids and bak as the next start reads them; files
    users,      \* the ids of VUserManagerService,
    removing,   \* those that it is removing,
    mNextUserId, \* and the lowest it gives out before the next start
    cache,      \* PACKAGE_CACHE: the settings of the packages
    mFreeUid,
    mSharedUserIdMap,
    receivers,  \* BroadcastSystem.mReceivers: how often each is registered
    job,        \* the operation in the monitor, and its locals
    saver,      \* a save outside it
    spent,      \* how much of the bounds is used up
    owed        \* histories, see below

uids == <<mFreeUid, mSharedUserIdMap>>
people == <<users, removing, mNextUserId>>
vars == <<disk, people, cache, uids, receivers, job, saver, spent, owed>>

-----------------------------------------------------------------------------
UserId == User \union {0}
Setting == [appId : Nat, installed : SUBSET UserId]
AreSettings(f) == DOMAIN f \subseteq Package /\ f \in [DOMAIN f -> Setting]
AreUids(f) == DOMAIN f \subseteq Sharer /\ f \in [DOMAIN f -> Nat]
Empty == [p \in {} |-> 0]

\* In a list of uids mFreeUid comes first; 0 stands for a number that is not
\* there.
TornUids(n) == [ok |-> FALSE, free |-> n, map |-> Empty]
UidsNow == [ok |-> TRUE, free |-> mFreeUid, map |-> mSharedUserIdMap]
IsUidList(l) ==
    /\ l = [ok |-> l.ok, free |-> l.free, map |-> l.map]
    /\ l.ok \in BOOLEAN /\ l.free \in Nat /\ AreUids(l.map)

NoFiles == [apk |-> FALSE, lib |-> FALSE, ini |-> FALSE]
AllFiles == [apk |-> TRUE, lib |-> TRUE, ini |-> TRUE]

NoSetting == [appId |-> 0, installed |-> {}]
Idle == [step |-> "idle", pkg |-> NoPackage, op |-> "install", user |-> 0,
         update |-> FALSE, setting |-> NoSetting, snap |-> Empty]
NoSave == [on |-> FALSE, snap |-> Empty]

\* An operation is exposed when it has changed the cache, or has a package out
\* of it, and has not saved it.
ExposedSteps == {"backUp", "writeUids", "writeIni", "snapshot", "write"}
Steps == {"idle", "copyLibs", "copyApk", "uid", "start", "deleteFiles", "uncache"}
         \union ExposedSteps

\* Histories.  granted: the users a finished operation has installed a package
\* for and no later one has begun to take it from; asked: those an operation
\* has begun to install it for and none has finished taking it from.  cut: the
\* list on disk is the work of a write that did not end; broken: packages whose
\* last installation or removal did not end well; uidCuts: saves of the uids in
\* a row that did not end, 2 if one failed; unsaved: something was taken from a
\* user and is still on the list; revived: a start read such a list, or the end
\* of a user missed a package.  mixed: a save outside the monitor overlapped an
\* exposed operation, and the list has not been in order since.
History == [granted : [Package -> SUBSET UserId], asked : [Package -> SUBSET UserId],
            cut : BOOLEAN, broken : SUBSET Package, uidCuts : 0..2,
            mixed : BOOLEAN, unsaved : BOOLEAN, revived : BOOLEAN]

DiskOK ==
    /\ disk = [list |-> disk.list, uids |-> disk.uids, bak |-> disk.bak, files |-> disk.files]
    /\ AreSettings(disk.list)
    /\ IsUidList(disk.uids) /\ IsUidList(disk.bak)
    /\ disk.files \in [Package -> [apk : BOOLEAN, lib : BOOLEAN, ini : BOOLEAN]]

MemoryOK ==
    /\ users \in SUBSET UserId /\ removing \subseteq users /\ mNextUserId \in Nat
    /\ AreSettings(cache)
    /\ mFreeUid \in Nat /\ AreUids(mSharedUserIdMap)
    /\ receivers \in [Package -> Nat]

JobOK ==
    /\ job = [step |-> job.step, pkg |-> job.pkg, op |-> job.op, user |-> job.user,
              update |-> job.update, setting |-> job.setting, snap |-> job.snap]
    /\ job.step \in Steps /\ job.op \in {"install", "user", "less"}
    /\ job.pkg \in Package \union {NoPackage} /\ job.user \in UserId
    /\ job.update \in BOOLEAN /\ job.setting \in Setting /\ AreSettings(job.snap)

SaverOK ==
    /\ saver = [on |-> saver.on, snap |-> saver.snap]
    /\ saver.on \in BOOLEAN /\ AreSettings(saver.snap)

SpentOK == spent \in [installs : 0..MaxInstalls, changes : 0..MaxChanges,
                      saves : 0..MaxSaves, troubles : 0..MaxTroubles]

TypeOK == DiskOK /\ MemoryOK /\ JobOK /\ SaverOK /\ SpentOK /\ owed \in History

Init ==
    /\ disk = [list |-> Empty, uids |-> TornUids(0), bak |-> TornUids(0),
               files |-> [p \in Package |-> NoFiles]]
    /\ users = {0} /\ removing = {} /\ mNextUserId = 1
    /\ cache = Empty
    /\ mFreeUid = FIRST_APPLICATION_UID /\ mSharedUserIdMap = Empty
    /\ receivers = [p \in Package |-> 0]
    /\ job = Idle /\ saver = NoSave
    /\ spent = [installs |-> 0, changes |-> 0, saves |-> 0, troubles |-> 0]
    /\ owed = [granted |-> [p \in Package |-> {}], asked |-> [p \in Package |-> {}],
               cut |-> FALSE, broken |-> {}, uidCuts |-> 0,
               mixed |-> FALSE, unsaved |-> FALSE, revived |-> FALSE]

-----------------------------------------------------------------------------
(* Steps of an operation                                                   *)

At(step) == job.step = step
Exposed == job.step \in ExposedSteps
Goto(step) == job' = [job EXCEPT !.step = step]

\* An input-output error, which the code logs or which ends the operation, or a
\* death of the server at work.
Fault ==
    /\ spent.troubles < MaxTroubles
    /\ spent' = [spent EXCEPT !.troubles = @ + 1]

\* One more of the operations that MaxChanges bounds.
Change ==
    /\ spent.changes < MaxChanges
    /\ spent' = [spent EXCEPT !.changes = @ + 1]

Broken(p) == owed' = [owed EXCEPT !.broken = @ \union {p}]
Put(f, p, v) == [q \in DOMAIN f \union {p} |-> IF q = p THEN v ELSE f[q]]
Without(f, p) == Restrict(f, DOMAIN f \ {p})

\* What a write of settings that does not end may leave of them.
CutOff(settings) == {Restrict(settings, S) : S \in SUBSET DOMAIN settings \ {DOMAIN settings}}

\* getPackageInstalledUsers
InstalledUsers(p) == cache[p].installed \intersect users

-----------------------------------------------------------------------------
(* installPackage                                                          *)

\* Everything up to the libraries, if canUpdate allows it: an update deletes
\* them and the odex file.
InstallPackage(p) ==
    /\ At("idle") /\ spent.installs < MaxInstalls
    /\ spent' = [spent EXCEPT !.installs = @ + 1]
    /\ LET update == p \in DOMAIN cache IN
       /\ job' = [Idle EXCEPT !.step = "copyLibs", !.pkg = p, !.update = update]
       /\ disk' = [disk EXCEPT !.files[p].lib = @ /\ ~update]
       /\ owed' = [owed EXCEPT !.broken = @ \ {p}, !.asked[p] = IF update THEN @ ELSE {}]
    /\ UNCHANGED <<people, cache, uids, receivers, saver>>

CopyLibs ==
    /\ At("copyLibs")
    /\ Goto("copyApk")
    /\ disk' = [disk EXCEPT !.files[job.pkg].lib = TRUE]
    /\ UNCHANGED <<people, cache, uids, receivers, saver, spent, owed>>

\* The result of copyNativeBinaries is not looked at; without the directory
\* the operation is over.
CopyLibsFails ==
    /\ At("copyLibs") /\ Fault
    /\ Goto("copyApk") \/ job' = Idle
    /\ Broken(job.pkg)
    /\ UNCHANGED <<disk, people, cache, uids, receivers, saver>>

CopyApk ==
    /\ At("copyApk")
    /\ Goto("uid")
    /\ disk' = [disk EXCEPT !.files[job.pkg].apk = TRUE]
    /\ UNCHANGED <<people, cache, uids, receivers, saver, spent, owed>>

\* The old base.apk was deleted before.
CopyApkFails ==
    /\ At("copyApk") /\ Fault
    /\ job' = Idle
    /\ disk' = [disk EXCEPT !.files[job.pkg].apk = FALSE]
    /\ Broken(job.pkg)
    /\ UNCHANGED <<people, cache, uids, receivers, saver>>

\* Faulty variant: an update starts from a new setting.
OldSetting_New == [appId |-> 0, installed |-> {0}]

\* The setting goes on from an update; a new one is installed for the owner.
OldSetting == IF job.update THEN cache[job.pkg] ELSE [appId |-> 0, installed |-> {0}]

\* The package leaves the cache, and getOrCreateUid finds or makes its uid.
GetOrCreateUid ==
    /\ At("uid")
    /\ cache' = Without(cache, job.pkg)
    /\ LET id == SharedId(job.pkg)
           old == id \in DOMAIN mSharedUserIdMap
           uid == IF old THEN mSharedUserIdMap[id] ELSE mFreeUid + 1
       IN
       /\ job' = [job EXCEPT !.step = IF old THEN "writeIni" ELSE "backUp",
                             !.setting = [OldSetting EXCEPT !.appId = uid]]
       /\ mFreeUid' = IF old THEN mFreeUid ELSE uid
       /\ mSharedUserIdMap' = Put(mSharedUserIdMap, id, uid)
    /\ owed' = [owed EXCEPT !.mixed = @ \/ saver.on]
    /\ UNCHANGED <<disk, people, receivers, saver, spent>>

\* UidSystem.save: first the backup is deleted and the file copied over it.
BackUp ==
    /\ At("backUp")
    /\ Goto("writeUids")
    /\ \/ disk' = [disk EXCEPT !.bak = disk.uids] /\ UNCHANGED <<spent, owed>>
       \/ disk' = [disk EXCEPT !.bak = TornUids(0)] /\ Fault /\ owed' = [owed EXCEPT !.uidCuts = 2]
    /\ UNCHANGED <<people, cache, uids, receivers, saver>>

WriteUids ==
    /\ At("writeUids")
    /\ Goto("writeIni")
    /\ disk' = [disk EXCEPT !.uids = UidsNow]
    /\ owed' = [owed EXCEPT !.uidCuts = IF @ = 1 THEN 0 ELSE @]
    /\ UNCHANGED <<people, cache, uids, receivers, saver, spent>>

\* Nobody is told, and the uid is used all the same.
WriteUidsFails ==
    /\ At("writeUids") /\ Fault
    /\ Goto("writeIni")
    /\ \E n \in {0, mFreeUid} : disk' = [disk EXCEPT !.uids = TornUids(n)]
    /\ owed' = [owed EXCEPT !.uidCuts = 2]
    /\ UNCHANGED <<people, cache, uids, receivers, saver>>

\* savePackageCache, PackageCacheManager.put.
WriteIni ==
    /\ At("writeIni")
    /\ job' = [job EXCEPT !.step = "snapshot", !.setting = NoSetting]
    /\ cache' = Put(cache, job.pkg, job.setting)
    /\ \/ disk' = [disk EXCEPT !.files[job.pkg].ini = TRUE] /\ UNCHANGED <<spent, owed>>
       \/ disk' = [disk EXCEPT !.files[job.pkg].ini = FALSE] /\ Fault /\ Broken(job.pkg)
    /\ UNCHANGED <<people, uids, receivers, saver>>

\* BroadcastSystem.startApp: registered once more, updates included.
StartApp ==
    /\ At("start")
    /\ job' = Idle
    /\ receivers' = [receivers EXCEPT ![job.pkg] = @ + 1]
    /\ owed' = IF job.update THEN owed
               ELSE [owed EXCEPT !.granted[job.pkg] = {0}, !.asked[job.pkg] = @ \union {0}]
    /\ UNCHANGED <<disk, people, cache, uids, saver, spent>>

-----------------------------------------------------------------------------
(* PersistenceLayer.save, in the monitor and outside it                    *)

\* What a write of settings makes of the histories, with another to come or not.
Written(settings, another, h) ==
    LET late == settings # cache \/ another IN
    [h EXCEPT !.cut = FALSE, !.unsaved = @ /\ late, !.mixed = @ /\ late]

\* installPackageAsUser and uninstallPackageAsUser end with the write.
EndOfWrite(h) ==
    CASE job.op = "install" -> h
      [] job.op = "user" -> [h EXCEPT !.granted[job.pkg] =
                                @ \union (({job.user} \intersect cache[job.pkg].installed) \ removing)]
      [] job.op = "less" -> [h EXCEPT !.asked[job.pkg] = @ \ {job.user}]

\* writePersistenceData.
Snapshot ==
    /\ At("snapshot")
    /\ job' = [job EXCEPT !.step = "write", !.snap = cache]
    /\ UNCHANGED <<disk, people, cache, uids, receivers, saver, spent, owed>>

Write ==
    /\ At("write")
    /\ job' = IF job.op = "install" THEN [job EXCEPT !.step = "start", !.snap = Empty] ELSE Idle
    /\ \/ disk' = [disk EXCEPT !.list = job.snap] /\ UNCHANGED spent
          /\ owed' = EndOfWrite(Written(job.snap, saver.on, owed))
       \/ Fault /\ \E l \in CutOff(job.snap) : disk' = [disk EXCEPT !.list = l]
          /\ owed' = EndOfWrite([owed EXCEPT !.cut = TRUE])
    /\ UNCHANGED <<people, cache, uids, receivers, saver>>

\* setPackageHidden, and processRestarted by way of savePersistenceData: some
\* setting is there to be changed, though in nothing that is modelled.
SnapshotOutside ==
    /\ ~saver.on /\ DOMAIN cache # {} /\ spent.saves < MaxSaves
    /\ saver' = [on |-> TRUE, snap |-> cache]
    /\ spent' = [spent EXCEPT !.saves = @ + 1]
    /\ owed' = [owed EXCEPT !.mixed = @ \/ Exposed]
    /\ UNCHANGED <<disk, people, cache, uids, receivers, job>>

WriteOutside ==
    /\ saver.on
    /\ saver' = NoSave
    /\ disk' = [disk EXCEPT !.list = saver.snap]
    /\ owed' = Written(saver.snap, Exposed, owed)
    /\ UNCHANGED <<people, cache, uids, receivers, job, spent>>

-----------------------------------------------------------------------------
(* The other operations                                                    *)

InstallPackageAsUser(p, u) ==
    /\ At("idle") /\ Change
    /\ u \in users /\ p \in DOMAIN cache
    /\ u \notin cache[p].installed
    /\ cache' = [cache EXCEPT ![p].installed = @ \union {u}]
    /\ job' = [Idle EXCEPT !.step = "snapshot", !.pkg = p, !.op = "user", !.user = u]
    /\ owed' = [owed EXCEPT !.asked[p] = @ \union {u}, !.mixed = @ \/ saver.on]
    /\ UNCHANGED <<disk, people, uids, receivers, saver>>

\* uninstallPackageFully, from here to Uncache; the list is not saved.
UninstallPackageFully(p) ==
    /\ job' = [Idle EXCEPT !.step = "deleteFiles", !.pkg = p]
    /\ receivers' = [receivers EXCEPT ![p] = 0]
    /\ owed' = [owed EXCEPT !.granted[p] = {}]
    /\ UNCHANGED <<disk, people, cache, uids, saver>>

UninstallPackage(p) ==
    /\ At("idle") /\ p \in DOMAIN cache /\ Change
    /\ UninstallPackageFully(p)

\* The last user takes the package along.
UninstallPackageAsUser(p, u) ==
    /\ At("idle") /\ Change
    /\ p \in DOMAIN cache /\ u \in InstalledUsers(p)
    /\ \/ InstalledUsers(p) = {u} /\ UninstallPackageFully(p)
       \/ /\ InstalledUsers(p) # {u}
          /\ cache' = [cache EXCEPT ![p].installed = @ \ {u}]
          /\ job' = [Idle EXCEPT !.step = "snapshot", !.pkg = p, !.op = "less", !.user = u]
          /\ owed' = [owed EXCEPT !.granted[p] = @ \ {u}, !.unsaved = TRUE,
                                  !.mixed = @ \/ saver.on]
          /\ UNCHANGED <<disk, people, uids, receivers, saver>>

DeleteFiles ==
    /\ At("deleteFiles")
    /\ Goto("uncache")
    /\ disk' = [disk EXCEPT !.files[job.pkg] = NoFiles]
    /\ UNCHANGED <<people, cache, uids, receivers, saver, spent, owed>>

Uncache ==
    /\ At("uncache")
    /\ job' = Idle
    /\ cache' = Without(cache, job.pkg)
    /\ owed' = [owed EXCEPT !.asked[job.pkg] = {}, !.unsaved = TRUE]
    /\ UNCHANGED <<disk, people, uids, receivers, saver, spent>>

-----------------------------------------------------------------------------
(* Users                                                                   *)

\* getNextAvailableIdLocked.
IsNextId(u) ==
    /\ u \notin users /\ u >= mNextUserId
    /\ \A v \in User : mNextUserId <= v /\ v < u => v \in users

\* createUser: createNewUser makes a state where there is none, and leaves the
\* state alone that it finds.
CreateUser(u) ==
    /\ IsNextId(u) /\ Change
    /\ users' = users \union {u}
    /\ mNextUserId' = u + 1
    /\ owed' = [owed EXCEPT !.asked = [p \in Package |-> @[p] \ {u}]]
    /\ UNCHANGED <<disk, removing, cache, uids, receivers, job, saver>>

\* removeUser, to the mark on disk.
RemoveUser(u) ==
    /\ u \in users \ (removing \union {0})
    /\ removing' = removing \union {u}
    /\ owed' = [owed EXCEPT !.granted = [p \in Package |-> @[p] \ {u}]]
    /\ UNCHANGED <<disk, users, mNextUserId, cache, uids, receivers, job, saver, spent>>

\* Faulty variant: the settings keep the state of a user that is gone.
CleanUpUser_Not(u) == cache

\* cleanUpUser: the settings in the cache, and only these.
CleanUpUser(u) == [p \in DOMAIN cache |-> [cache[p] EXCEPT !.installed = @ \ {u}]]

StillRemoving(u) == removing \ {u}

\* An update has a package out of the cache.
Updating == job.update /\ job.step \in {"backUp", "writeUids", "writeIni"}

\* removeUserStateLocked.
RemoveUserState(u) ==
    /\ u \in removing
    /\ cache' = CleanUpUser(u)
    /\ users' = users \ {u} /\ removing' = StillRemoving(u)
    /\ owed' = [owed EXCEPT !.unsaved = TRUE,
                            !.revived = @ \/ (Updating /\ u \in job.setting.installed)]
    /\ UNCHANGED <<disk, mNextUserId, uids, receivers, job, saver, spent>>

-----------------------------------------------------------------------------
(* Death and start of the server                                           *)

\* The lists that may be on disk when the server dies.
CutLists == {disk.list} \union (IF At("write") THEN CutOff(job.snap) ELSE {})
                       \union (IF saver.on THEN CutOff(saver.snap) ELSE {})

\* The other files.
CutFiles ==
    CASE At("copyApk")     -> {disk, [disk EXCEPT !.files[job.pkg].apk = FALSE]}
      [] At("backUp")      -> {disk, [disk EXCEPT !.bak = TornUids(0)]}
      [] At("writeUids")   -> {disk} \union {[disk EXCEPT !.uids = TornUids(n)] : n \in {0, mFreeUid}}
      [] At("writeIni")    -> {disk, [disk EXCEPT !.files[job.pkg].ini = FALSE]}
      [] At("deleteFiles") -> {disk} \union {[disk EXCEPT !.files[job.pkg] = [left EXCEPT !.apk = FALSE]] :
                                             left \in {NoFiles, disk.files[job.pkg]}}
      [] OTHER             -> {disk}

CutShort == {[d EXCEPT !.list = l] : d \in CutFiles, l \in CutLists}

\* Faulty variant: the backup is never read.
InitUidList_NoBackup(d) ==
    IF d.uids.ok THEN d.uids
    ELSE [ok |-> TRUE, free |-> FIRST_APPLICATION_UID, map |-> Empty]

\* initUidList: a file that cannot be read may still have set mFreeUid.
InitUidList(d) ==
    LET free == IF d.uids.free # 0 THEN d.uids.free ELSE FIRST_APPLICATION_UID IN
    IF d.uids.ok THEN d.uids ELSE [d.bak EXCEPT !.free = IF @ # 0 THEN @ ELSE free]

\* loadPackage: the packages whose cache file can be read.
Loadable(d) == {p \in DOMAIN d.list : d.files[p].ini}

\* cleanUpResidualFiles.
CleanedUp(d) == [p \in Package |-> IF p \in DOMAIN d.list \ Loadable(d) THEN NoFiles ELSE d.files[p]]

\* An installation or a removal dies in the middle of its work.
BrokenNow == owed.broken \union ((IF job.op = "install" THEN {job.pkg} ELSE {}) \ {NoPackage})

\* What is owed after a start that finds d: nothing that is lost with an excuse.
OwedAfter(d) ==
    LET found(p) == IF p \in Loadable(d) THEN d.list[p].installed ELSE {}
        cut == owed.cut \/ d.list # disk.list
        uidCut == At("writeUids") \/ (At("backUp") /\ owed.uidCuts > 0)
    IN
    [owed EXCEPT
        !.granted = [p \in Package |-> IF cut \/ owed.mixed \/ p \in BrokenNow
                                       THEN @[p] \intersect found(p) ELSE @[p]],
        !.cut = FALSE,
        !.broken = BrokenNow,
        !.uidCuts = IF uidCut /\ @ < 2 THEN @ + 1 ELSE @,
        !.mixed = FALSE,
        !.unsaved = Loadable(d) # DOMAIN d.list,
        !.revived = \/ @ \/ owed.unsaved \/ owed.mixed
                    \/ \E p \in Loadable(d) : d.list[p].installed \intersect removing # {}]

\* The process dies and starts again: initUidList, the users that were being
\* removed are gone, scanApps.
Restart ==
    /\ \/ At("idle") /\ ~saver.on /\ UNCHANGED spent
       \/ Fault
    /\ \E d \in CutShort :
       /\ disk' = [d EXCEPT !.files = CleanedUp(d)]
       /\ cache' = Restrict(d.list, Loadable(d))
       /\ mFreeUid' = InitUidList(d).free /\ mSharedUserIdMap' = InitUidList(d).map
       /\ receivers' = [p \in Package |-> IF p \in Loadable(d) THEN 1 ELSE 0]
       /\ owed' = OwedAfter(d)
    /\ users' = users \ removing /\ removing' = {} /\ mNextUserId' = 1
    /\ job' = Idle /\ saver' = NoSave

-----------------------------------------------------------------------------
Next ==
    \/ \E p \in Package : InstallPackage(p) \/ UninstallPackage(p)
    \/ \E p \in Package, u \in UserId : InstallPackageAsUser(p, u) \/ UninstallPackageAsUser(p, u)
    \/ CopyLibs \/ CopyLibsFails \/ CopyApk \/ CopyApkFails \/ GetOrCreateUid
    \/ BackUp \/ WriteUids \/ WriteUidsFails \/ WriteIni \/ StartApp
    \/ Snapshot \/ Write \/ SnapshotOutside \/ WriteOutside
    \/ DeleteFiles \/ Uncache
    \/ \E u \in User : CreateUser(u) \/ RemoveUser(u) \/ RemoveUserState(u)
    \/ Restart

Spec == Init /\ [][Next]_vars

-----------------------------------------------------------------------------
(* Correctness                                                             *)

\* Packages that do not share a uid never have the same, also after the server
\* has died in the middle of a save: the backup makes up for one save of the
\* uids that was cut off, though not for two in a row (the second copies the
\* bad file over the backup) nor for one that failed and was not noticed.
UidsDistinct ==
    owed.uidCuts < 2 => \A p, q \in DOMAIN cache :
        SharedId(p) # SharedId(q) => cache[p].appId # cache[q].appId

\* What an operation has installed for a user stays, across updates and deaths
\* of the server, with its files and its receivers, until someone takes it
\* away.  It is lost only if a write of the list did not end, if a save outside
\* the monitor overlapped one inside, or if an update of it did not end.
InstalledStays ==
    At("idle") => \A p \in Package : owed.granted[p] # {} =>
        /\ p \in DOMAIN cache
        /\ owed.granted[p] \subseteq cache[p].installed
        /\ receivers[p] > 0
        /\ p \notin owed.broken => disk.files[p] = AllFiles

\* A user has no package that nobody has installed for it: a new user starts
\* without any, and a new installation is for the owner alone, also if the id or
\* the package were there before.  They inherit the old state only if the
\* server died before the list was written again, or if the user was removed
\* while an update had the package out of the cache.
NoForeignState ==
    ~owed.revived => \A p \in DOMAIN cache :
        (cache[p].installed \intersect users) \ {0} \subseteq owed.asked[p]
=============================================================================
