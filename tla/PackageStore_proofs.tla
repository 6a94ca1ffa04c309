------------------------- MODULE PackageStore_proofs -------------------------
(* Proofs about PackageStore, for any packages, users, shared ids and       *)
(* bounds: its types, that the uids survive whatever the server dies in,    *)
(* that what is installed stays, and that nobody gets what is another's.    *)
EXTENDS PackageStore, TLAPS

-----------------------------------------------------------------------------
(* Settings and uid lists                                                  *)

\* Put keeps settings settings.
LEMMA PutSettings ==
    ASSUME NEW f, AreSettings(f), NEW p \in Package, NEW v \in Setting
    PROVE  AreSettings(Put(f, p, v))
BY DEF AreSettings, Put

\* So does Restrict, and with it Without and CutOff.
LEMMA RestrictSettings ==
    ASSUME NEW f, AreSettings(f), NEW S \in SUBSET DOMAIN f
    PROVE  AreSettings(Restrict(f, S))
BY DEF AreSettings, Restrict

LEMMA WithoutSettings ==
    ASSUME NEW f, AreSettings(f), NEW p
    PROVE  AreSettings(Without(f, p))
BY RestrictSettings DEF Without

LEMMA CutOffSettings ==
    ASSUME NEW f, AreSettings(f), NEW l \in CutOff(f)
    PROVE  AreSettings(l)
BY RestrictSettings DEF CutOff

\* The new uid of a shared id.
LEMMA PutUids ==
    ASSUME NEW f, AreUids(f), NEW s \in Sharer, NEW n \in Nat
    PROVE  AreUids(Put(f, s, n))
BY DEF AreUids, Put

\* The empty map is a map of settings and of uids, and a torn list is a list.
LEMMA EmptyMap == AreSettings(Empty) /\ AreUids(Empty)
BY DEF AreSettings, AreUids, Empty

LEMMA TornIsList == ASSUME NEW n \in Nat PROVE IsUidList(TornUids(n))
BY EmptyMap DEF IsUidList, TornUids

\* What the server reads is a list.
LEMMA InitUidListType ==
    ASSUME NEW d, IsUidList(d.uids), IsUidList(d.bak)
    PROVE  IsUidList(InitUidList(d))
BY PackageStoreAssumption DEF InitUidList, IsUidList, PackageStoreAssumption

LEMMA IdleType == Idle.setting \in Setting /\ AreSettings(Idle.snap)
BY EmptyMap DEF Idle, NoSetting, Setting

-----------------------------------------------------------------------------
(* The type invariant                                                      *)

\* A fault or a change stays within its bound.
LEMMA SpentType == ASSUME SpentOK, Fault \/ Change \/ UNCHANGED spent PROVE SpentOK'
BY PackageStoreAssumption DEF SpentOK, Fault, Change, PackageStoreAssumption

\* An operation knows its package, and an update finds it in the cache until it
\* takes it out.
JobKnown ==
    /\ job.step # "idle" => job.pkg \in Package
    /\ job.update /\ job.step \in {"copyLibs", "copyApk", "uid"} => job.pkg \in DOMAIN cache

TypeInv == TypeOK /\ JobKnown

\* Initially nothing is installed.
LEMMA InitTypeInv == Init => TypeInv
<1> SUFFICES ASSUME Init PROVE TypeInv
  OBVIOUS
<1> USE DEF Init
<1>1. DiskOK
  BY EmptyMap, TornIsList DEF DiskOK, NoFiles
<1>2. MemoryOK
  BY EmptyMap, PackageStoreAssumption DEF MemoryOK, UserId, PackageStoreAssumption
<1>3. JobOK /\ JobKnown
  BY EmptyMap DEF JobOK, JobKnown, Idle, NoSetting, Setting, Steps, UserId
<1>4. SaverOK
  BY EmptyMap DEF SaverOK, NoSave
<1>5. SpentOK
  BY PackageStoreAssumption DEF SpentOK, PackageStoreAssumption
<1>6. owed \in History
  BY DEF History
<1> QED
  BY <1>1, <1>2, <1>3, <1>4, <1>5, <1>6 DEF TypeInv, TypeOK

\* InstallPackage keeps the types.
LEMMA InstallPackageType ==
    ASSUME TypeInv, NEW p \in Package, InstallPackage(p)
    PROVE  TypeInv'
<1> USE DEF TypeInv, TypeOK, InstallPackage
<1>1. DiskOK' /\ MemoryOK' /\ SaverOK'
  <2>1. DiskOK'
    <3>1. disk' = [disk EXCEPT !.files[p].lib = @ /\ ~(p \in DOMAIN cache)]
      OBVIOUS
    <3> HIDE DEF InstallPackage
    <3> QED
      BY <3>1, ZenonT(40) DEF DiskOK
  <2>2. MemoryOK'
    BY DEF MemoryOK, uids, people
  <2>3. SaverOK'
    BY DEF SaverOK
  <2> QED
    BY <2>1, <2>2, <2>3
<1>2. JobOK' /\ JobKnown'
  <2> PICK b \in BOOLEAN : b <=> (p \in DOMAIN cache)
    OBVIOUS
  <2>1. job' = [step |-> "copyLibs", pkg |-> p, op |-> "install", user |-> 0,
                update |-> b, setting |-> NoSetting, snap |-> Empty]
    BY DEF Idle
  <2>2. JobOK'
    BY <2>1, IdleType DEF JobOK, Idle, Steps, ExposedSteps, UserId
  <2>3. JobKnown'
    BY <2>1 DEF JobKnown
  <2> QED
    BY <2>2, <2>3
<1>3. SpentOK'
  BY PackageStoreAssumption DEF SpentOK, PackageStoreAssumption
<1>4. (owed \in History)'
  BY DEF History
<1> QED
  BY <1>1, <1>2, <1>3, <1>4

\* CopyLibs keeps the types.
LEMMA CopyLibsType ==
    ASSUME TypeInv, CopyLibs
    PROVE  TypeInv'
<1> USE DEF TypeInv, TypeOK, CopyLibs
<1>1. DiskOK' /\ MemoryOK' /\ SaverOK' /\ SpentOK' /\ (owed \in History)'
  <2>1. DiskOK'
    BY ZenonT(40) DEF DiskOK, uids
  <2>2. MemoryOK'
    BY DEF MemoryOK, uids, people
  <2>3. SaverOK' /\ SpentOK' /\ (owed \in History)'
    BY DEF SaverOK, SpentOK
  <2> QED
    BY <2>1, <2>2, <2>3
<1>2. JobOK' /\ JobKnown'
  BY DEF JobOK, JobKnown, MemoryOK, uids, people, At, Goto, Steps
<1> QED
  BY <1>1, <1>2

\* CopyLibsFails keeps the types.
LEMMA CopyLibsFailsType ==
    ASSUME TypeInv, CopyLibsFails
    PROVE  TypeInv'
<1> USE DEF TypeInv, TypeOK, CopyLibsFails
<1>1. DiskOK' /\ MemoryOK' /\ SaverOK'
  BY DEF DiskOK, MemoryOK, uids, people, SaverOK
<1>2. JobOK' /\ JobKnown'
  <2>1. CASE Goto("copyApk")
    BY <2>1 DEF JobOK, JobKnown, At, Goto, Steps
  <2>2. CASE job' = Idle
    BY <2>2, IdleType DEF JobOK, JobKnown, Steps, Idle, UserId
  <2> QED
    BY <2>1, <2>2
<1>3. SpentOK'
  BY SpentType
<1>4. (owed \in History)'
  BY DEF Broken, History, At, JobKnown
<1> QED
  BY <1>1, <1>2, <1>3, <1>4

\* CopyApk keeps the types.
LEMMA CopyApkType ==
    ASSUME TypeInv, CopyApk
    PROVE  TypeInv'
<1> USE DEF TypeInv, TypeOK, CopyApk
<1>1. DiskOK' /\ MemoryOK' /\ SaverOK' /\ SpentOK' /\ (owed \in History)'
  <2>1. DiskOK'
    BY ZenonT(40) DEF DiskOK, uids
  <2>2. MemoryOK'
    BY DEF MemoryOK, uids, people
  <2>3. SaverOK' /\ SpentOK' /\ (owed \in History)'
    BY DEF SaverOK, SpentOK
  <2> QED
    BY <2>1, <2>2, <2>3
<1>2. JobOK' /\ JobKnown'
  BY DEF JobOK, JobKnown, MemoryOK, uids, people, At, Goto, Steps
<1> QED
  BY <1>1, <1>2

\* CopyApkFails keeps the types.
LEMMA CopyApkFailsType ==
    ASSUME TypeInv, CopyApkFails
    PROVE  TypeInv'
<1> USE DEF TypeInv, TypeOK, CopyApkFails
<1>1. DiskOK' /\ MemoryOK' /\ SaverOK'
  <2>1. DiskOK'
    BY ZenonT(40) DEF DiskOK, uids
  <2>2. MemoryOK'
    BY DEF MemoryOK, uids, people
  <2>3. SaverOK'
    BY DEF SaverOK
  <2> QED
    BY <2>1, <2>2, <2>3
<1>2. JobOK' /\ JobKnown'
  BY IdleType DEF JobOK, JobKnown, MemoryOK, uids, people, At, Steps, Idle, UserId
<1>3. SpentOK'
  BY SpentType
<1>4. (owed \in History)'
  BY DEF Broken, History, At, JobKnown
<1> QED
  BY <1>1, <1>2, <1>3, <1>4

\* GetOrCreateUid keeps the types.
LEMMA GetOrCreateUidType ==
    ASSUME TypeInv, GetOrCreateUid
    PROVE  TypeInv'
<1> USE DEF TypeInv, TypeOK, GetOrCreateUid
<1>1. DiskOK' /\ SaverOK' /\ SpentOK'
  BY DEF DiskOK, SaverOK, SpentOK
<1>2. MemoryOK'
  BY WithoutSettings, PutUids, PackageStoreAssumption DEF MemoryOK, uids, people, PackageStoreAssumption, AreUids, At, JobKnown
<1>3. JobOK' /\ JobKnown'
  <2> DEFINE id == SharedId(job.pkg)
             uid == IF id \in DOMAIN mSharedUserIdMap THEN mSharedUserIdMap[id] ELSE mFreeUid + 1
             new == [OldSetting EXCEPT !.appId = uid]
  <2>1. uid \in Nat
    BY DEF MemoryOK, AreUids
  <2>2. OldSetting \in Setting
    BY DEF OldSetting, JobKnown, At, MemoryOK, AreSettings, Setting, UserId
  <2>3. new \in Setting
    BY <2>1, <2>2 DEF Setting
  <2>4. \E step \in {"writeIni", "backUp"} : job' = [job EXCEPT !.step = step, !.setting = new]
    OBVIOUS
  <2>5. JobOK'
    BY <2>3, <2>4 DEF JobOK, Steps, ExposedSteps
  <2>6. JobKnown'
    BY <2>4 DEF JobOK, JobKnown, At
  <2> QED
    BY <2>5, <2>6
<1>4. (owed \in History)'
  BY DEF History
<1> QED
  BY <1>1, <1>2, <1>3, <1>4

\* BackUp keeps the types.
LEMMA BackUpType ==
    ASSUME TypeInv, BackUp
    PROVE  TypeInv'
<1> USE DEF TypeInv, TypeOK, BackUp
<1>1. MemoryOK' /\ SaverOK'
  BY DEF MemoryOK, uids, people, SaverOK
<1>2. DiskOK'
  BY TornIsList DEF DiskOK
<1>3. JobOK' /\ JobKnown'
  BY DEF JobOK, JobKnown, MemoryOK, uids, people, At, Goto, Steps, ExposedSteps
<1>4. SpentOK'
  BY SpentType
<1>5. (owed \in History)'
  BY DEF History
<1> QED
  BY <1>1, <1>2, <1>3, <1>4, <1>5

\* WriteUids keeps the types.
LEMMA WriteUidsType ==
    ASSUME TypeInv, WriteUids
    PROVE  TypeInv'
<1> USE DEF TypeInv, TypeOK, WriteUids
<1>1. MemoryOK' /\ SaverOK' /\ SpentOK'
  BY DEF MemoryOK, uids, people, SaverOK, SpentOK
<1>2. DiskOK'
  BY DEF DiskOK, UidsNow, IsUidList, MemoryOK
<1>3. JobOK' /\ JobKnown'
  BY DEF JobOK, JobKnown, MemoryOK, uids, people, At, Goto, Steps, ExposedSteps
<1>4. (owed \in History)'
  BY DEF History
<1> QED
  BY <1>1, <1>2, <1>3, <1>4

\* WriteUidsFails keeps the types.
LEMMA WriteUidsFailsType ==
    ASSUME TypeInv, WriteUidsFails
    PROVE  TypeInv'
<1> USE DEF TypeInv, TypeOK, WriteUidsFails
<1>1. MemoryOK' /\ SaverOK'
  BY DEF MemoryOK, uids, people, SaverOK
<1>2. DiskOK'
  BY TornIsList DEF DiskOK, MemoryOK
<1>3. JobOK' /\ JobKnown'
  BY DEF JobOK, JobKnown, MemoryOK, uids, people, At, Goto, Steps, ExposedSteps
<1>4. SpentOK'
  BY SpentType
<1>5. (owed \in History)'
  BY DEF History
<1> QED
  BY <1>1, <1>2, <1>3, <1>4, <1>5

\* WriteIni keeps the types.
LEMMA WriteIniType ==
    ASSUME TypeInv, WriteIni
    PROVE  TypeInv'
<1> USE DEF TypeInv, TypeOK, WriteIni
<1>1. DiskOK'
  <2> job.pkg \in Package
    BY DEF JobKnown, At
  <2> HIDE DEF WriteIni
  <2>1. CASE disk' = [disk EXCEPT !.files[job.pkg].ini = TRUE]
    BY <2>1 DEF DiskOK
  <2>2. CASE disk' = [disk EXCEPT !.files[job.pkg].ini = FALSE]
    BY <2>2, ZenonT(40) DEF DiskOK
  <2> QED
    BY <2>1, <2>2 DEF WriteIni
<1>2. MemoryOK'
  BY PutSettings DEF MemoryOK, uids, people, At, JobOK, JobKnown
<1>3. JobOK' /\ JobKnown'
  BY IdleType DEF JobOK, JobKnown, MemoryOK, uids, people, At, Steps, ExposedSteps, Idle
<1>4. SpentOK'
  BY SpentType
<1>5. (owed \in History)'
  BY DEF Broken, History, At, JobKnown
<1>6. SaverOK'
  BY DEF SaverOK
<1> QED
  BY <1>1, <1>2, <1>3, <1>4, <1>5, <1>6

\* StartApp keeps the types.
LEMMA StartAppType ==
    ASSUME TypeInv, StartApp
    PROVE  TypeInv'
<1> USE DEF TypeInv, TypeOK, StartApp
<1>1. DiskOK' /\ SaverOK' /\ SpentOK'
  BY DEF DiskOK, SaverOK, SpentOK
<1>2. MemoryOK'
  BY DEF MemoryOK, uids, people, At, JobKnown
<1>3. JobOK' /\ JobKnown'
  BY IdleType DEF JobOK, JobKnown, MemoryOK, uids, people, At, Steps, Idle, UserId
<1>4. (owed \in History)'
  BY DEF History, At, UserId
<1> QED
  BY <1>1, <1>2, <1>3, <1>4

\* Snapshot keeps the types.
LEMMA SnapshotType ==
    ASSUME TypeInv, Snapshot
    PROVE  TypeInv'
<1> USE DEF TypeInv, TypeOK, Snapshot
<1>1. DiskOK' /\ MemoryOK' /\ SaverOK' /\ SpentOK' /\ (owed \in History)'
  BY DEF DiskOK, MemoryOK, uids, people, SaverOK, SpentOK
<1>2. JobOK' /\ JobKnown'
  BY DEF JobOK, JobKnown, MemoryOK, uids, people, At, Steps, ExposedSteps
<1> QED
  BY <1>1, <1>2

\* Write keeps the types.
LEMMA WriteType ==
    ASSUME TypeInv, Write
    PROVE  TypeInv'
<1> USE DEF TypeInv, TypeOK, Write
<1>1. MemoryOK' /\ SaverOK'
  BY DEF MemoryOK, uids, people, SaverOK
<1>2. DiskOK'
  BY CutOffSettings DEF DiskOK, JobOK
<1>3. JobOK' /\ JobKnown'
  BY IdleType, EmptyMap DEF JobOK, JobKnown, MemoryOK, uids, people, At, Steps, Idle, UserId
<1>4. SpentOK'
  BY SpentType
<1>5. (owed \in History)'
  <2>1. job.pkg \in Package
    BY DEF JobKnown, At
  <2>2. ASSUME NEW h \in History PROVE EndOfWrite(h) \in History
    <3>1. CASE job.op = "install"
      BY <3>1 DEF EndOfWrite
    <3>2. CASE job.op = "user"
      BY <2>1, <3>2 DEF EndOfWrite, History, JobOK
    <3>3. CASE job.op = "less"
      BY <2>1, <3>3 DEF EndOfWrite, History, JobOK
    <3> QED
      BY <3>1, <3>2, <3>3 DEF JobOK
  <2>3. Written(job.snap, saver.on, owed) \in History
    BY DEF Written, History
  <2>4. [owed EXCEPT !.cut = TRUE] \in History
    BY DEF History
  <2> QED
    BY <2>2, <2>3, <2>4
<1> QED
  BY <1>1, <1>2, <1>3, <1>4, <1>5

\* SnapshotOutside keeps the types.
LEMMA SnapshotOutsideType ==
    ASSUME TypeInv, SnapshotOutside
    PROVE  TypeInv'
<1> USE DEF TypeInv, TypeOK, SnapshotOutside
<1>1. DiskOK' /\ MemoryOK' /\ JobOK' /\ JobKnown'
  BY DEF DiskOK, MemoryOK, uids, people, JobOK, JobKnown
<1>2. SaverOK'
  BY DEF SaverOK, MemoryOK
<1>3. SpentOK'
  BY PackageStoreAssumption DEF SpentOK, PackageStoreAssumption
<1>4. (owed \in History)'
  BY DEF History, Exposed
<1> QED
  BY <1>1, <1>2, <1>3, <1>4

\* WriteOutside keeps the types.
LEMMA WriteOutsideType ==
    ASSUME TypeInv, WriteOutside
    PROVE  TypeInv'
<1> USE DEF TypeInv, TypeOK, WriteOutside
<1>1. MemoryOK' /\ JobOK' /\ JobKnown' /\ SpentOK'
  BY DEF MemoryOK, uids, people, JobOK, JobKnown, SpentOK
<1>2. DiskOK'
  BY DEF DiskOK, SaverOK
<1>3. SaverOK'
  BY EmptyMap DEF SaverOK, NoSave
<1>4. (owed \in History)'
  BY DEF Written, History, Exposed
<1> QED
  BY <1>1, <1>2, <1>3, <1>4

\* InstallPackageAsUser keeps the types.
LEMMA InstallPackageAsUserType ==
    ASSUME TypeInv, NEW p \in Package, NEW u \in UserId, InstallPackageAsUser(p, u)
    PROVE  TypeInv'
<1> USE DEF TypeInv, TypeOK, InstallPackageAsUser
<1>1. DiskOK' /\ SaverOK'
  BY DEF DiskOK, SaverOK
<1>2. MemoryOK'
  BY DEF MemoryOK, uids, people, AreSettings, Setting
<1>3. JobOK' /\ JobKnown'
  BY IdleType DEF JobOK, JobKnown, MemoryOK, uids, people, Idle, Steps, ExposedSteps
<1>4. SpentOK'
  BY SpentType
<1>5. (owed \in History)'
  BY DEF History
<1> QED
  BY <1>1, <1>2, <1>3, <1>4, <1>5

\* UninstallPackage keeps the types.
LEMMA UninstallPackageType ==
    ASSUME TypeInv, NEW p \in Package, UninstallPackage(p)
    PROVE  TypeInv'
<1> USE DEF TypeInv, TypeOK, UninstallPackage
<1>1. DiskOK'
  BY DEF DiskOK, UninstallPackageFully
<1>2. MemoryOK'
  BY DEF MemoryOK, uids, people, UninstallPackageFully
<1>3. JobOK' /\ JobKnown'
  BY IdleType DEF JobOK, JobKnown, MemoryOK, uids, people, UninstallPackageFully, Idle, Steps, UserId
<1>4. SaverOK'
  BY DEF SaverOK, UninstallPackageFully
<1>5. SpentOK'
  BY SpentType DEF UninstallPackageFully
<1>6. (owed \in History)'
  BY DEF UninstallPackageFully, History
<1> QED
  BY <1>1, <1>2, <1>3, <1>4, <1>5, <1>6

\* UninstallPackageAsUser keeps the types.
LEMMA UninstallPackageAsUserType ==
    ASSUME TypeInv, NEW p \in Package, NEW u \in UserId, UninstallPackageAsUser(p, u)
    PROVE  TypeInv'
<1> USE DEF TypeInv, TypeOK, UninstallPackageAsUser
<1>1. DiskOK'
  BY DEF DiskOK, UninstallPackageFully
<1>2. MemoryOK'
  BY DEF MemoryOK, uids, people, UninstallPackageFully, AreSettings, Setting
<1>3. JobOK' /\ JobKnown'
  BY IdleType DEF JobOK, JobKnown, MemoryOK, uids, people, UninstallPackageFully, Idle, Steps, ExposedSteps, UserId
<1>4. SaverOK'
  BY DEF SaverOK, UninstallPackageFully
<1>5. SpentOK'
  BY SpentType
<1>6. (owed \in History)'
  <2>1. CASE UninstallPackageFully(p)
    BY <2>1 DEF UninstallPackageFully, History
  <2>2. CASE owed' = [owed EXCEPT !.granted[p] = @ \ {u}, !.unsaved = TRUE,
                                  !.mixed = @ \/ saver.on]
    BY <2>2 DEF History
  <2> QED
    BY <2>1, <2>2
<1> QED
  BY <1>1, <1>2, <1>3, <1>4, <1>5, <1>6

\* DeleteFiles keeps the types.
LEMMA DeleteFilesType ==
    ASSUME TypeInv, DeleteFiles
    PROVE  TypeInv'
<1> USE DEF TypeInv, TypeOK, DeleteFiles
<1>1. MemoryOK' /\ SaverOK' /\ SpentOK' /\ (owed \in History)'
  BY DEF MemoryOK, uids, people, SaverOK, SpentOK
<1>2. DiskOK'
  BY DEF DiskOK, NoFiles
<1>3. JobOK' /\ JobKnown'
  BY DEF JobOK, JobKnown, MemoryOK, uids, people, At, Goto, Steps
<1> QED
  BY <1>1, <1>2, <1>3

\* Uncache keeps the types.
LEMMA UncacheType ==
    ASSUME TypeInv, Uncache
    PROVE  TypeInv'
<1> USE DEF TypeInv, TypeOK, Uncache
<1>1. DiskOK' /\ SaverOK' /\ SpentOK'
  BY DEF DiskOK, SaverOK, SpentOK
<1>2. MemoryOK'
  BY WithoutSettings DEF MemoryOK, uids, people
<1>3. JobOK' /\ JobKnown'
  BY IdleType DEF JobOK, JobKnown, MemoryOK, uids, people, At, Steps, Idle, UserId
<1>4. (owed \in History)'
  BY DEF History, At
<1> QED
  BY <1>1, <1>2, <1>3, <1>4

\* CreateUser keeps the types.
LEMMA CreateUserType ==
    ASSUME TypeInv, NEW u \in User, CreateUser(u)
    PROVE  TypeInv'
<1> USE DEF TypeInv, TypeOK, CreateUser
<1>1. DiskOK' /\ JobOK' /\ JobKnown' /\ SaverOK'
  BY DEF DiskOK, JobOK, JobKnown, MemoryOK, uids, people, SaverOK
<1>2. MemoryOK'
  BY PackageStoreAssumption DEF MemoryOK, uids, people, UserId, PackageStoreAssumption
<1>3. SpentOK'
  BY SpentType
<1>4. (owed \in History)'
  BY DEF History
<1> QED
  BY <1>1, <1>2, <1>3, <1>4

\* RemoveUser keeps the types.
LEMMA RemoveUserType ==
    ASSUME TypeInv, NEW u \in User, RemoveUser(u)
    PROVE  TypeInv'
<1> USE DEF TypeInv, TypeOK, RemoveUser
<1>1. DiskOK' /\ MemoryOK' /\ JobOK' /\ JobKnown' /\ SaverOK' /\ SpentOK'
  BY DEF DiskOK, MemoryOK, uids, people, JobOK, JobKnown, SaverOK, SpentOK
<1>2. (owed \in History)'
  BY DEF History
<1> QED
  BY <1>1, <1>2

\* RemoveUserState keeps the types.
LEMMA RemoveUserStateType ==
    ASSUME TypeInv, NEW u \in User, RemoveUserState(u)
    PROVE  TypeInv'
<1> USE DEF TypeInv, TypeOK, RemoveUserState
<1>1. DiskOK' /\ SaverOK' /\ SpentOK'
  BY DEF DiskOK, SaverOK, SpentOK
<1>2. MemoryOK'
  BY DEF MemoryOK, uids, people, CleanUpUser, StillRemoving, AreSettings, Setting
<1>3. JobOK' /\ JobKnown'
  BY DEF JobOK, JobKnown, MemoryOK, uids, people, CleanUpUser
<1>4. (owed \in History)'
  BY DEF History
<1> QED
  BY <1>1, <1>2, <1>3, <1>4

\* What a death leaves on disk is of the types of what was there.
LEMMA CutShortType ==
    ASSUME TypeInv, NEW d \in CutShort
    PROVE  /\ d = [list |-> d.list, uids |-> d.uids, bak |-> d.bak, files |-> d.files]
           /\ AreSettings(d.list) /\ IsUidList(d.uids) /\ IsUidList(d.bak)
           /\ d.files \in [Package -> [apk : BOOLEAN, lib : BOOLEAN, ini : BOOLEAN]]
           /\ d.list \in CutLists
           /\ \E c \in CutFiles : d.uids = c.uids /\ d.bak = c.bak
<1> USE DEF TypeInv, TypeOK, DiskOK
<1>1. PICK c \in CutFiles, l \in CutLists : d = [c EXCEPT !.list = l]
  BY DEF CutShort
<1>2. AreSettings(l)
  <2>1. \A f : AreSettings(f) => \A g \in CutOff(f) : AreSettings(g)
    BY CutOffSettings
  <2> QED
    BY <2>1 DEF CutLists, JobOK, SaverOK
<1>3. /\ c = [list |-> c.list, uids |-> c.uids, bak |-> c.bak, files |-> c.files]
      /\ IsUidList(c.uids) /\ IsUidList(c.bak)
      /\ c.files \in [Package -> [apk : BOOLEAN, lib : BOOLEAN, ini : BOOLEAN]]
  <2>1. CASE c = disk
    BY <2>1
  <2>2. CASE job.pkg \in Package /\ \E f \in {[disk.files[job.pkg] EXCEPT !.apk = FALSE],
                                [disk.files[job.pkg] EXCEPT !.ini = FALSE],
                                [NoFiles EXCEPT !.apk = FALSE]} :
                 c = [disk EXCEPT !.files[job.pkg] = f]
    <3>1. PICK f \in {[disk.files[job.pkg] EXCEPT !.apk = FALSE],
                      [disk.files[job.pkg] EXCEPT !.ini = FALSE],
                      [NoFiles EXCEPT !.apk = FALSE]} :
             c = [disk EXCEPT !.files[job.pkg] = f]
      BY <2>2
    <3>2. disk.files[job.pkg] \in [apk : BOOLEAN, lib : BOOLEAN, ini : BOOLEAN]
      BY <2>2
    <3>3. f \in [apk : BOOLEAN, lib : BOOLEAN, ini : BOOLEAN]
      BY <3>2 DEF NoFiles
    <3> QED
      BY <3>1, <3>3
  <2>3. CASE c = [disk EXCEPT !.bak = TornUids(0)]
    BY <2>3, TornIsList
  <2>4. CASE \E n \in {0, mFreeUid} : c = [disk EXCEPT !.uids = TornUids(n)]
    BY <2>4, TornIsList DEF MemoryOK
  <2> QED
    BY <2>1, <2>2, <2>3, <2>4 DEF CutFiles, At, JobKnown
<1> QED
  BY <1>1, <1>2, <1>3

\* A start finds lists of the types that it left, whatever it died in.
LEMMA RestartType ==
    ASSUME TypeInv, Restart
    PROVE  TypeInv'
<1> USE DEF TypeInv, TypeOK
<1>1. PICK d \in CutShort :
        /\ disk' = [d EXCEPT !.files = CleanedUp(d)]
        /\ cache' = Restrict(d.list, Loadable(d))
        /\ mFreeUid' = InitUidList(d).free /\ mSharedUserIdMap' = InitUidList(d).map
        /\ receivers' = [p \in Package |-> IF p \in Loadable(d) THEN 1 ELSE 0]
        /\ owed' = OwedAfter(d)
  BY DEF Restart
<1>2. /\ d = [list |-> d.list, uids |-> d.uids, bak |-> d.bak, files |-> d.files]
      /\ AreSettings(d.list) /\ IsUidList(d.uids) /\ IsUidList(d.bak)
      /\ d.files \in [Package -> [apk : BOOLEAN, lib : BOOLEAN, ini : BOOLEAN]]
  BY CutShortType
<1>3. DiskOK'
  <2>1. CleanedUp(d) \in [Package -> [apk : BOOLEAN, lib : BOOLEAN, ini : BOOLEAN]]
    BY <1>2 DEF CleanedUp, NoFiles
  <2> QED
    BY <1>1, <1>2, <2>1 DEF DiskOK
<1>4. MemoryOK'
  <2>1. AreSettings(cache')
    BY <1>1, <1>2, RestrictSettings DEF Loadable
  <2>2. mFreeUid' \in Nat /\ AreUids(mSharedUserIdMap')
    BY <1>1, <1>2, InitUidListType DEF IsUidList
  <2>3. users' \in SUBSET UserId /\ removing' \subseteq users' /\ mNextUserId' \in Nat
    BY DEF Restart, MemoryOK
  <2>4. receivers' \in [Package -> Nat]
    BY <1>1
  <2> QED
    BY <2>1, <2>2, <2>3, <2>4 DEF MemoryOK
<1>5. JobOK' /\ JobKnown' /\ SaverOK'
  BY IdleType, EmptyMap DEF Restart, JobOK, JobKnown, SaverOK, Idle, NoSave, Steps, UserId
<1>6. SpentOK'
  BY SpentType DEF Restart
<1>7. (owed \in History)'
  <2> DEFINE found(p) == IF p \in Loadable(d) THEN d.list[p].installed ELSE {}
             cut == owed.cut \/ d.list # disk.list
  <2>1. BrokenNow \in SUBSET Package
    BY DEF BrokenNow, History, JobOK
  <2> DEFINE uidCut == At("writeUids") \/ (At("backUp") /\ owed.uidCuts > 0)
             n == IF uidCut /\ owed.uidCuts < 2 THEN owed.uidCuts + 1 ELSE owed.uidCuts
             revived == \/ owed.revived \/ owed.unsaved \/ owed.mixed
                        \/ \E p \in Loadable(d) : d.list[p].installed \intersect removing # {}
             g == [p \in Package |-> IF cut \/ owed.mixed \/ p \in BrokenNow
                                     THEN owed.granted[p] \intersect found(p) ELSE owed.granted[p]]
  <2>2. g \in [Package -> SUBSET UserId]
    BY DEF History
  <2>3. n \in 0..2
    BY DEF History
  <2>4. owed' = [owed EXCEPT !.granted = g, !.cut = FALSE, !.broken = BrokenNow, !.uidCuts = n,
                             !.mixed = FALSE, !.unsaved = Loadable(d) # DOMAIN d.list,
                             !.revived = revived]
    BY <1>1 DEF OwedAfter
  <2>5. revived \in BOOLEAN /\ (Loadable(d) # DOMAIN d.list) \in BOOLEAN
    OBVIOUS
  <2> HIDE DEF n, revived, g
  <2> QED
    BY <2>1, <2>2, <2>3, <2>4, <2>5 DEF History
<1> QED
  BY <1>3, <1>4, <1>5, <1>6, <1>7

\* Every step keeps the types.
LEMMA NextTypeInv == TypeInv /\ [Next]_vars => TypeInv'
<1> SUFFICES ASSUME TypeInv, [Next]_vars PROVE TypeInv'
  OBVIOUS
<1>1. CASE UNCHANGED vars
  BY <1>1 DEF TypeInv, TypeOK, DiskOK, MemoryOK, JobOK, JobKnown, SaverOK, SpentOK, vars, uids, people
<1>2. CASE Next
  BY <1>2, InstallPackageType, CopyLibsType, CopyLibsFailsType, CopyApkType, CopyApkFailsType,
     GetOrCreateUidType, BackUpType, WriteUidsType, WriteUidsFailsType, WriteIniType,
     StartAppType, SnapshotType, WriteType, SnapshotOutsideType, WriteOutsideType,
     InstallPackageAsUserType, UninstallPackageType, UninstallPackageAsUserType,
     DeleteFilesType, UncacheType, CreateUserType, RemoveUserType, RemoveUserStateType,
     RestartType
     DEF Next
<1> QED
  BY <1>1, <1>2

\* The settings, the lists of uids, the files, the operation and its histories
\* stay in their types, whatever the packages and users and however often the
\* server dies (VAppManagerService, UidSystem, VUserManagerService).
THEOREM TypeCorrect == Spec => []TypeOK
<1>1. TypeInv => TypeOK
  BY DEF TypeInv
<1> QED
  BY InitTypeInv, NextTypeInv, <1>1, PTL DEF Spec

-----------------------------------------------------------------------------
(* The uids                                                                *)

\* Every package in the settings has the uid that map gives its shared id.
Backed(settings, map) ==
    \A p \in DOMAIN settings : /\ SharedId(p) \in DOMAIN map
                               /\ settings[p].appId = map[SharedId(p)]

\* Wherever settings are: in memory, on disk, and on their way there.
Settled(map) == /\ Backed(cache, map) /\ Backed(disk.list, map)
                /\ Backed(job.snap, map) /\ Backed(saver.snap, map)

\* No uid is given out twice, and the next is above all of them.
Sound(free, map) ==
    /\ free # 0
    /\ \A s \in DOMAIN map : map[s] <= free
    /\ \A s, t \in DOMAIN map : s # t => map[s] # map[t]

SoundList(l) == IF l.ok THEN Sound(l.free, l.map) ELSE l.map = Empty

Saving == job.step \in {"backUp", "writeUids"}
HasUid == Saving \/ job.step = "writeIni"

\* What the next start would read.
Found == InitUidList(disk).map

ListsSound ==
    /\ Sound(mFreeUid, mSharedUserIdMap)
    /\ SoundList(disk.uids) /\ SoundList(disk.bak)

AllBacked == owed.uidCuts < 2 =>
    /\ Settled(mSharedUserIdMap)
    /\ HasUid => /\ SharedId(job.pkg) \in DOMAIN mSharedUserIdMap
                 /\ job.setting.appId = mSharedUserIdMap[SharedId(job.pkg)]

\* Outside a save the disk knows what memory knows; during one it knows all but
\* the new uid, and nothing but the operation in the monitor has that.  The
\* backup is good when the file is about to be written over a good one.
Recoverable ==
    /\ owed.uidCuts < 2 /\ ~Saving => Found = mSharedUserIdMap
    /\ owed.uidCuts = 0 =>
         /\ Saving => Settled(Found)
         /\ ~disk.uids.ok => ~disk.bak.ok
         /\ job.step = "writeUids" => disk.bak.map = Found

UidInv == ListsSound /\ AllBacked /\ Recoverable
IInv == TypeInv /\ UidInv

\* What is backed stays so in a part, and with one more that is.
LEMMA RestrictBacked ==
    ASSUME NEW f, NEW map, Backed(f, map), NEW S \in SUBSET DOMAIN f
    PROVE  Backed(Restrict(f, S), map)
BY DEF Backed, Restrict

LEMMA WithoutBacked ==
    ASSUME NEW f, NEW map, Backed(f, map), NEW p
    PROVE  Backed(Without(f, p), map)
BY RestrictBacked DEF Without

LEMMA PutBacked ==
    ASSUME NEW f, NEW map, Backed(f, map), NEW p, NEW v,
           SharedId(p) \in DOMAIN map, v.appId = map[SharedId(p)]
    PROVE  Backed(Put(f, p, v), map)
BY DEF Backed, Put

LEMMA SameIdsBacked ==
    ASSUME NEW f, NEW g, NEW map, Backed(f, map), DOMAIN g = DOMAIN f,
           \A p \in DOMAIN f : g[p].appId = f[p].appId
    PROVE  Backed(g, map)
BY DEF Backed

LEMMA EmptyBacked == \A map : Backed(Empty, map)
BY DEF Backed, Empty

\* A start reads a sound list from sound lists.
LEMMA InitUidListSound ==
    ASSUME NEW d, IsUidList(d.uids), IsUidList(d.bak), SoundList(d.uids), SoundList(d.bak)
    PROVE  Sound(InitUidList(d).free, InitUidList(d).map)
<1>1. CASE d.uids.ok
  BY <1>1 DEF InitUidList, SoundList
<1>2. CASE ~d.uids.ok /\ d.bak.ok
  <2>1. InitUidList(d).free = d.bak.free /\ InitUidList(d).map = d.bak.map
    BY <1>2 DEF InitUidList, SoundList, Sound, IsUidList
  <2> QED
    BY <1>2, <2>1 DEF SoundList
<1>3. CASE ~d.uids.ok /\ ~d.bak.ok
  <2>1. InitUidList(d).free # 0 /\ InitUidList(d).map = Empty
    BY <1>3, PackageStoreAssumption DEF InitUidList, SoundList, IsUidList, PackageStoreAssumption
  <2> QED
    BY <2>1 DEF Sound, Empty
<1> QED
  BY <1>1, <1>2, <1>3

\* Initially there is no uid.
LEMMA InitIInv == Init => IInv
<1> SUFFICES ASSUME Init PROVE IInv
  OBVIOUS
<1>1. TypeInv
  BY InitTypeInv
<1>2. ListsSound
  BY PackageStoreAssumption DEF Init, ListsSound, Sound, SoundList, TornUids, Empty, PackageStoreAssumption
<1>3. AllBacked
  BY EmptyBacked DEF Init, AllBacked, Settled, HasUid, Saving, Idle, NoSave
<1>4. Recoverable
  BY DEF Init, Recoverable, Saving, Idle, Found, InitUidList, TornUids
<1> QED
  BY <1>1, <1>2, <1>3, <1>4 DEF IInv, UidInv

\* Steps that leave the uids alone, in memory and on disk.
LEMMA QuietUidInv ==
    ASSUME UidInv, UNCHANGED uids,
           disk'.uids = disk.uids, disk'.bak = disk.bak, owed'.uidCuts = owed.uidCuts,
           \A map : Settled(map) => Settled(map)',
           \/ job'.step = job.step /\ job'.pkg = job.pkg /\ job'.setting = job.setting
           \/ ~Saving /\ ~HasUid'
    PROVE  UidInv'
<1> USE DEF UidInv, uids
<1>1. ListsSound'
  BY DEF ListsSound
<1>2. AllBacked'
  BY DEF AllBacked, HasUid, Saving
<1>3. Recoverable'
  BY DEF Recoverable, HasUid, Saving, Found, InitUidList
<1> QED
  BY <1>1, <1>2, <1>3

\* All steps but those of getOrCreateUid and a start leave the uids alone, and
\* take settings only from where they are.
LEMMA QuietSteps ==
    ASSUME IInv,
           \/ \E p \in Package : InstallPackage(p)
           \/ CopyLibs
           \/ CopyLibsFails
           \/ CopyApk
           \/ CopyApkFails
           \/ StartApp
           \/ Snapshot
           \/ Write
           \/ SnapshotOutside
           \/ WriteOutside
           \/ \E p \in Package, u \in UserId : InstallPackageAsUser(p, u)
           \/ \E p \in Package : UninstallPackage(p)
           \/ \E p \in Package, u \in UserId : UninstallPackageAsUser(p, u)
           \/ DeleteFiles
           \/ Uncache
           \/ \E u \in User : CreateUser(u)
           \/ \E u \in User : RemoveUser(u)
           \/ \E u \in User : RemoveUserState(u)
    PROVE  UidInv'
<1> USE DEF IInv, TypeInv, TypeOK, DiskOK, JobOK, SaverOK
<1>1. CASE \E p \in Package : InstallPackage(p)
  <2> PICK p \in Package : InstallPackage(p)
    BY <1>1
  <2>1. /\ UNCHANGED uids /\ disk'.uids = disk.uids /\ disk'.bak = disk.bak
        /\ owed'.uidCuts = owed.uidCuts
    BY DEF InstallPackage, uids, History
  <2>2. \/ job'.step = job.step /\ job'.pkg = job.pkg /\ job'.setting = job.setting
        \/ ~Saving /\ ~HasUid'
    BY DEF InstallPackage, At, Saving, HasUid, Idle
  <2>3. ASSUME NEW map, Settled(map) PROVE Settled(map)'
    BY <2>3, EmptyBacked DEF InstallPackage, Settled, Idle
  <2> QED
    BY <2>1, <2>2, <2>3, QuietUidInv
<1>2. CASE CopyLibs
  <2>1. /\ UNCHANGED uids /\ disk'.uids = disk.uids /\ disk'.bak = disk.bak
        /\ owed'.uidCuts = owed.uidCuts
    BY <1>2 DEF CopyLibs, uids, History
  <2>2. \/ job'.step = job.step /\ job'.pkg = job.pkg /\ job'.setting = job.setting
        \/ ~Saving /\ ~HasUid'
    BY <1>2 DEF CopyLibs, At, Saving, HasUid, Goto
  <2>3. ASSUME NEW map, Settled(map) PROVE Settled(map)'
    BY <2>3, <1>2 DEF CopyLibs, Settled, Goto
  <2> QED
    BY <2>1, <2>2, <2>3, QuietUidInv
<1>3. CASE CopyLibsFails
  <2>1. /\ UNCHANGED uids /\ disk'.uids = disk.uids /\ disk'.bak = disk.bak
        /\ owed'.uidCuts = owed.uidCuts
    BY <1>3 DEF CopyLibsFails, Broken, uids, History
  <2>2. \/ job'.step = job.step /\ job'.pkg = job.pkg /\ job'.setting = job.setting
        \/ ~Saving /\ ~HasUid'
    BY <1>3 DEF CopyLibsFails, At, Saving, HasUid, Goto, Idle
  <2>3. ASSUME NEW map, Settled(map) PROVE Settled(map)'
    BY <2>3, <1>3, EmptyBacked DEF CopyLibsFails, Settled, Goto, Idle
  <2> QED
    BY <2>1, <2>2, <2>3, QuietUidInv
<1>4. CASE CopyApk
  <2>1. /\ UNCHANGED uids /\ disk'.uids = disk.uids /\ disk'.bak = disk.bak
        /\ owed'.uidCuts = owed.uidCuts
    BY <1>4 DEF CopyApk, uids, History
  <2>2. \/ job'.step = job.step /\ job'.pkg = job.pkg /\ job'.setting = job.setting
        \/ ~Saving /\ ~HasUid'
    BY <1>4 DEF CopyApk, At, Saving, HasUid, Goto
  <2>3. ASSUME NEW map, Settled(map) PROVE Settled(map)'
    BY <2>3, <1>4 DEF CopyApk, Settled, Goto
  <2> QED
    BY <2>1, <2>2, <2>3, QuietUidInv
<1>5. CASE CopyApkFails
  <2>1. /\ UNCHANGED uids /\ disk'.uids = disk.uids /\ disk'.bak = disk.bak
        /\ owed'.uidCuts = owed.uidCuts
    BY <1>5 DEF CopyApkFails, Broken, uids, History
  <2>2. \/ job'.step = job.step /\ job'.pkg = job.pkg /\ job'.setting = job.setting
        \/ ~Saving /\ ~HasUid'
    BY <1>5 DEF CopyApkFails, At, Saving, HasUid, Idle
  <2>3. ASSUME NEW map, Settled(map) PROVE Settled(map)'
    BY <2>3, <1>5, EmptyBacked DEF CopyApkFails, Settled, Idle
  <2> QED
    BY <2>1, <2>2, <2>3, QuietUidInv
<1>6. CASE StartApp
  <2>1. /\ UNCHANGED uids /\ disk'.uids = disk.uids /\ disk'.bak = disk.bak
        /\ owed'.uidCuts = owed.uidCuts
    BY <1>6 DEF StartApp, uids, History
  <2>2. \/ job'.step = job.step /\ job'.pkg = job.pkg /\ job'.setting = job.setting
        \/ ~Saving /\ ~HasUid'
    BY <1>6 DEF StartApp, At, Saving, HasUid, Idle
  <2>3. ASSUME NEW map, Settled(map) PROVE Settled(map)'
    BY <2>3, <1>6, EmptyBacked DEF StartApp, Settled, Idle
  <2> QED
    BY <2>1, <2>2, <2>3, QuietUidInv
<1>7. CASE Snapshot
  <2>1. /\ UNCHANGED uids /\ disk'.uids = disk.uids /\ disk'.bak = disk.bak
        /\ owed'.uidCuts = owed.uidCuts
    BY <1>7 DEF Snapshot, uids, History
  <2>2. \/ job'.step = job.step /\ job'.pkg = job.pkg /\ job'.setting = job.setting
        \/ ~Saving /\ ~HasUid'
    BY <1>7 DEF Snapshot, At, Saving, HasUid
  <2>3. ASSUME NEW map, Settled(map) PROVE Settled(map)'
    BY <2>3, <1>7 DEF Snapshot, Settled
  <2> QED
    BY <2>1, <2>2, <2>3, QuietUidInv
<1>8. CASE Write
  <2>1. /\ UNCHANGED uids /\ disk'.uids = disk.uids /\ disk'.bak = disk.bak
        /\ owed'.uidCuts = owed.uidCuts
    BY <1>8 DEF Write, EndOfWrite, Written, uids, History
  <2>2. \/ job'.step = job.step /\ job'.pkg = job.pkg /\ job'.setting = job.setting
        \/ ~Saving /\ ~HasUid'
    BY <1>8 DEF Write, At, Saving, HasUid, Idle
  <2>3. ASSUME NEW map, Settled(map) PROVE Settled(map)'
    BY <2>3, <1>8, EmptyBacked, RestrictBacked DEF Write, Settled, Idle, CutOff
  <2> QED
    BY <2>1, <2>2, <2>3, QuietUidInv
<1>9. CASE SnapshotOutside
  <2>1. /\ UNCHANGED uids /\ disk'.uids = disk.uids /\ disk'.bak = disk.bak
        /\ owed'.uidCuts = owed.uidCuts
    BY <1>9 DEF SnapshotOutside, uids, History
  <2>2. \/ job'.step = job.step /\ job'.pkg = job.pkg /\ job'.setting = job.setting
        \/ ~Saving /\ ~HasUid'
    BY <1>9 DEF SnapshotOutside, At, Saving, HasUid
  <2>3. ASSUME NEW map, Settled(map) PROVE Settled(map)'
    BY <2>3, <1>9 DEF SnapshotOutside, Settled
  <2> QED
    BY <2>1, <2>2, <2>3, QuietUidInv
<1>10. CASE WriteOutside
  <2>1. /\ UNCHANGED uids /\ disk'.uids = disk.uids /\ disk'.bak = disk.bak
        /\ owed'.uidCuts = owed.uidCuts
    BY <1>10 DEF WriteOutside, Written, uids, History
  <2>2. \/ job'.step = job.step /\ job'.pkg = job.pkg /\ job'.setting = job.setting
        \/ ~Saving /\ ~HasUid'
    BY <1>10 DEF WriteOutside, At, Saving, HasUid
  <2>3. ASSUME NEW map, Settled(map) PROVE Settled(map)'
    BY <2>3, <1>10, EmptyBacked DEF WriteOutside, Settled, NoSave
  <2> QED
    BY <2>1, <2>2, <2>3, QuietUidInv
<1>11. CASE \E p \in Package, u \in UserId : InstallPackageAsUser(p, u)
  <2> PICK p \in Package, u \in UserId : InstallPackageAsUser(p, u)
    BY <1>11
  <2>1. /\ UNCHANGED uids /\ disk'.uids = disk.uids /\ disk'.bak = disk.bak
        /\ owed'.uidCuts = owed.uidCuts
    BY DEF InstallPackageAsUser, uids, History
  <2>2. \/ job'.step = job.step /\ job'.pkg = job.pkg /\ job'.setting = job.setting
        \/ ~Saving /\ ~HasUid'
    BY DEF InstallPackageAsUser, At, Saving, HasUid, Idle
  <2>3. ASSUME NEW map, Settled(map) PROVE Settled(map)'
    <3>1. DOMAIN cache' = DOMAIN cache /\ \A q \in DOMAIN cache : cache'[q].appId = cache[q].appId
      BY DEF InstallPackageAsUser, MemoryOK, AreSettings, Setting
    <3>2. Backed(cache', map)
      BY <2>3, <3>1, SameIdsBacked DEF Settled
    <3> QED
      BY <2>3, <3>2, EmptyBacked DEF InstallPackageAsUser, Settled, Idle
  <2> QED
    BY <2>1, <2>2, <2>3, QuietUidInv
<1>12. CASE \E p \in Package : UninstallPackage(p)
  <2> PICK p \in Package : UninstallPackage(p)
    BY <1>12
  <2>1. /\ UNCHANGED uids /\ disk'.uids = disk.uids /\ disk'.bak = disk.bak
        /\ owed'.uidCuts = owed.uidCuts
    BY DEF UninstallPackage, UninstallPackageFully, uids, History
  <2>2. \/ job'.step = job.step /\ job'.pkg = job.pkg /\ job'.setting = job.setting
        \/ ~Saving /\ ~HasUid'
    BY DEF UninstallPackage, At, Saving, HasUid, UninstallPackageFully, Idle
  <2>3. ASSUME NEW map, Settled(map) PROVE Settled(map)'
    BY <2>3, EmptyBacked DEF UninstallPackage, Settled, UninstallPackageFully, Idle
  <2> QED
    BY <2>1, <2>2, <2>3, QuietUidInv
<1>13. CASE \E p \in Package, u \in UserId : UninstallPackageAsUser(p, u)
  <2> PICK p \in Package, u \in UserId : UninstallPackageAsUser(p, u)
    BY <1>13
  <2>1. /\ UNCHANGED uids /\ disk'.uids = disk.uids /\ disk'.bak = disk.bak
        /\ owed'.uidCuts = owed.uidCuts
    BY ZenonT(40) DEF UninstallPackageAsUser, UninstallPackageFully, uids, History
  <2>2. \/ job'.step = job.step /\ job'.pkg = job.pkg /\ job'.setting = job.setting
        \/ ~Saving /\ ~HasUid'
    BY ZenonT(40) DEF UninstallPackageAsUser, At, Saving, HasUid, UninstallPackageFully, Idle
  <2>3. ASSUME NEW map, Settled(map) PROVE Settled(map)'
    <3>1. CASE UninstallPackageFully(p)
      BY <2>3, <3>1, EmptyBacked DEF UninstallPackageFully, Settled, Idle
    <3>2. CASE /\ cache' = [cache EXCEPT ![p].installed = @ \ {u}]
               /\ job'.snap = Empty /\ UNCHANGED <<disk, saver>>
      <4>1. DOMAIN cache' = DOMAIN cache /\ \A q \in DOMAIN cache : cache'[q].appId = cache[q].appId
        BY <3>2 DEF MemoryOK, AreSettings, Setting
      <4>2. Backed(cache', map)
        BY <2>3, <4>1, SameIdsBacked DEF Settled
      <4> QED
        BY <2>3, <3>2, <4>2, EmptyBacked DEF Settled
    <3> QED
      BY <3>1, <3>2 DEF UninstallPackageAsUser, Idle
  <2> QED
    BY <2>1, <2>2, <2>3, QuietUidInv
<1>14. CASE DeleteFiles
  <2>1. /\ UNCHANGED uids /\ disk'.uids = disk.uids /\ disk'.bak = disk.bak
        /\ owed'.uidCuts = owed.uidCuts
    BY <1>14 DEF DeleteFiles, uids, History
  <2>2. \/ job'.step = job.step /\ job'.pkg = job.pkg /\ job'.setting = job.setting
        \/ ~Saving /\ ~HasUid'
    BY <1>14 DEF DeleteFiles, At, Saving, HasUid, Goto
  <2>3. ASSUME NEW map, Settled(map) PROVE Settled(map)'
    BY <2>3, <1>14 DEF DeleteFiles, Settled, Goto
  <2> QED
    BY <2>1, <2>2, <2>3, QuietUidInv
<1>15. CASE Uncache
  <2>1. /\ UNCHANGED uids /\ disk'.uids = disk.uids /\ disk'.bak = disk.bak
        /\ owed'.uidCuts = owed.uidCuts
    BY <1>15 DEF Uncache, uids, History
  <2>2. \/ job'.step = job.step /\ job'.pkg = job.pkg /\ job'.setting = job.setting
        \/ ~Saving /\ ~HasUid'
    BY <1>15 DEF Uncache, At, Saving, HasUid, Idle
  <2>3. ASSUME NEW map, Settled(map) PROVE Settled(map)'
    BY <2>3, <1>15, EmptyBacked, WithoutBacked DEF Uncache, Settled, Idle
  <2> QED
    BY <2>1, <2>2, <2>3, QuietUidInv
<1>16. CASE \E u \in User : CreateUser(u)
  <2> PICK u \in User : CreateUser(u)
    BY <1>16
  <2>1. /\ UNCHANGED uids /\ disk'.uids = disk.uids /\ disk'.bak = disk.bak
        /\ owed'.uidCuts = owed.uidCuts
    BY DEF CreateUser, uids, History
  <2>2. \/ job'.step = job.step /\ job'.pkg = job.pkg /\ job'.setting = job.setting
        \/ ~Saving /\ ~HasUid'
    BY DEF CreateUser, At, Saving, HasUid
  <2>3. ASSUME NEW map, Settled(map) PROVE Settled(map)'
    BY <2>3 DEF CreateUser, Settled
  <2> QED
    BY <2>1, <2>2, <2>3, QuietUidInv
<1>17. CASE \E u \in User : RemoveUser(u)
  <2> PICK u \in User : RemoveUser(u)
    BY <1>17
  <2>1. /\ UNCHANGED uids /\ disk'.uids = disk.uids /\ disk'.bak = disk.bak
        /\ owed'.uidCuts = owed.uidCuts
    BY DEF RemoveUser, uids, History
  <2>2. \/ job'.step = job.step /\ job'.pkg = job.pkg /\ job'.setting = job.setting
        \/ ~Saving /\ ~HasUid'
    BY DEF RemoveUser, At, Saving, HasUid
  <2>3. ASSUME NEW map, Settled(map) PROVE Settled(map)'
    BY <2>3 DEF RemoveUser, Settled
  <2> QED
    BY <2>1, <2>2, <2>3, QuietUidInv
<1>18. CASE \E u \in User : RemoveUserState(u)
  <2> PICK u \in User : RemoveUserState(u)
    BY <1>18
  <2>1. /\ UNCHANGED uids /\ disk'.uids = disk.uids /\ disk'.bak = disk.bak
        /\ owed'.uidCuts = owed.uidCuts
    BY DEF RemoveUserState, uids, History
  <2>2. \/ job'.step = job.step /\ job'.pkg = job.pkg /\ job'.setting = job.setting
        \/ ~Saving /\ ~HasUid'
    BY DEF RemoveUserState, At, Saving, HasUid
  <2>3. ASSUME NEW map, Settled(map) PROVE Settled(map)'
    <3>1. DOMAIN cache' = DOMAIN cache /\ \A q \in DOMAIN cache : cache'[q].appId = cache[q].appId
      BY DEF RemoveUserState, CleanUpUser, MemoryOK, AreSettings, Setting
    <3>2. Backed(cache', map)
      BY <2>3, <3>1, SameIdsBacked DEF Settled
    <3> QED
      BY <2>3, <3>2 DEF RemoveUserState, Settled
  <2> QED
    BY <2>1, <2>2, <2>3, QuietUidInv
<1> QED
  BY <1>1, <1>2, <1>3, <1>4, <1>5, <1>6, <1>7, <1>8, <1>9, <1>10, <1>11, <1>12, <1>13, <1>14, <1>15, <1>16, <1>17, <1>18

\* A new uid is above all others, so nobody else has it; nothing but the
\* operation has the shared id, or the disk would know it.
LEMMA GetOrCreateUidUids ==
    ASSUME IInv, GetOrCreateUid
    PROVE  UidInv'
<1> USE DEF IInv, TypeInv, TypeOK, UidInv
<1> DEFINE id == SharedId(job.pkg)
           old == id \in DOMAIN mSharedUserIdMap
           uid == IF old THEN mSharedUserIdMap[id] ELSE mFreeUid + 1
<1>1. /\ job.pkg \in Package /\ id \in Sharer /\ ~Saving /\ ~HasUid
      /\ mFreeUid \in Nat /\ AreUids(mSharedUserIdMap)
  BY PackageStoreAssumption DEF GetOrCreateUid, At, JobKnown, MemoryOK, Saving, HasUid, PackageStoreAssumption
<1>2. /\ disk' = disk /\ saver' = saver
      /\ job'.pkg = job.pkg /\ job'.snap = job.snap
      /\ job'.step = IF old THEN "writeIni" ELSE "backUp"
      /\ owed'.uidCuts = owed.uidCuts
  BY DEF GetOrCreateUid, JobOK, History
<1>3. job'.setting.appId = uid
  <2>1. OldSetting \in Setting
    BY DEF OldSetting, GetOrCreateUid, JobKnown, At, MemoryOK, AreSettings, Setting, UserId
  <2>2. job'.setting = [OldSetting EXCEPT !.appId = uid]
    BY DEF GetOrCreateUid, JobOK
  <2> QED
    BY <2>1, <2>2 DEF Setting
<1>4. /\ cache' = Without(cache, job.pkg)
      /\ mFreeUid' = (IF old THEN mFreeUid ELSE uid)
      /\ mSharedUserIdMap' = Put(mSharedUserIdMap, id, uid)
  BY DEF GetOrCreateUid
<1>5. /\ DOMAIN mSharedUserIdMap' = DOMAIN mSharedUserIdMap \union {id}
      /\ mSharedUserIdMap'[id] = uid
      /\ \A s \in DOMAIN mSharedUserIdMap : mSharedUserIdMap'[s] = mSharedUserIdMap[s]
  BY <1>4 DEF Put
<1>6. ListsSound'
  <2>1. Sound(mFreeUid, mSharedUserIdMap)
    BY DEF ListsSound
  <2>2. mFreeUid' >= mFreeUid /\ uid <= mFreeUid' /\ mFreeUid' # 0
    BY <1>1, <1>4, <2>1 DEF Sound, AreUids
  <2>3. \A s \in DOMAIN mSharedUserIdMap : mSharedUserIdMap[s] \in Nat /\ mSharedUserIdMap[s] <= mFreeUid
    BY <1>1, <2>1 DEF Sound, AreUids
  <2>4. ASSUME NEW s \in DOMAIN mSharedUserIdMap, s # id PROVE mSharedUserIdMap[s] # uid
    BY <1>1, <2>1, <2>3, <2>4 DEF Sound
  <2>5. Sound(mFreeUid', mSharedUserIdMap')
    <3>1. \A s \in DOMAIN mSharedUserIdMap' : mSharedUserIdMap'[s] <= mFreeUid'
      BY <1>1, <1>4, <1>5, <2>2, <2>3
    <3>2. ASSUME NEW s \in DOMAIN mSharedUserIdMap', NEW t \in DOMAIN mSharedUserIdMap', s # t
          PROVE  mSharedUserIdMap'[s] # mSharedUserIdMap'[t]
      BY <1>5, <2>1, <2>4, <3>2 DEF Sound
    <3> QED
      BY <2>2, <3>1, <3>2 DEF Sound
  <2> QED
    BY <1>2, <2>5 DEF ListsSound
<1>7. ASSUME NEW map, Settled(map) PROVE Settled(map)'
  BY <1>2, <1>4, <1>7, WithoutBacked DEF Settled
<1>8. AllBacked'
  <2>2. ASSUME NEW f, Backed(f, mSharedUserIdMap) PROVE Backed(f, mSharedUserIdMap')
    BY <1>5, <2>2 DEF Backed
  <2>3. owed.uidCuts < 2 => Settled(mSharedUserIdMap)
    BY DEF AllBacked
  <2>4. owed.uidCuts < 2 => /\ Backed(cache', mSharedUserIdMap') /\ Backed(disk'.list, mSharedUserIdMap')
                            /\ Backed(job'.snap, mSharedUserIdMap') /\ Backed(saver'.snap, mSharedUserIdMap')
    BY <1>2, <1>4, <2>2, <2>3, WithoutBacked DEF Settled
  <2> QED
    BY <1>2, <1>3, <1>5, <2>4 DEF AllBacked, Settled
<1>9. Recoverable'
  <2>1. Found' = Found
    BY <1>2 DEF Found
  <2>2. owed.uidCuts < 2 => Found = mSharedUserIdMap
    BY <1>1 DEF Recoverable
  <2>3. old => mSharedUserIdMap' = mSharedUserIdMap
    BY <1>1, <1>4 DEF Put, AreUids
  <2>4. owed.uidCuts < 2 => Settled(Found)'
    BY <1>7, <2>1, <2>2 DEF AllBacked
  <2> QED
    BY <1>2, <2>1, <2>2, <2>3, <2>4 DEF Recoverable, Saving
<1> QED
  BY <1>6, <1>8, <1>9

\* The backup takes over what the file says; if the file cannot be read, neither
\* knows anything.
LEMMA BackUpUids ==
    ASSUME IInv, BackUp
    PROVE  UidInv'
<1> USE DEF IInv, TypeInv, TypeOK, UidInv
<1>1. /\ UNCHANGED uids /\ cache' = cache /\ saver' = saver
      /\ job'.pkg = job.pkg /\ job'.setting = job.setting /\ job'.snap = job.snap
      /\ job'.step = "writeUids" /\ job.step = "backUp"
  BY DEF BackUp, Goto, At, JobOK
<1>2. disk'.uids = disk.uids /\ disk'.list = disk.list
  BY DEF BackUp, DiskOK
<1>3. \/ disk'.bak = disk.uids /\ owed' = owed
      \/ disk'.bak = TornUids(0) /\ owed'.uidCuts = 2
  <2>1. CASE disk' = [disk EXCEPT !.bak = disk.uids] /\ owed' = owed
    BY <2>1 DEF DiskOK
  <2>2. CASE disk' = [disk EXCEPT !.bak = TornUids(0)] /\ owed' = [owed EXCEPT !.uidCuts = 2]
    BY <2>2 DEF DiskOK, History
  <2> QED
    BY <2>1, <2>2 DEF BackUp
<1>4. ListsSound'
  BY <1>1, <1>2, <1>3 DEF ListsSound, SoundList, TornUids, uids
<1>5. AllBacked'
  BY <1>1, <1>2, <1>3 DEF AllBacked, Settled, HasUid, Saving, uids, History
<1>6. Recoverable'
  <2>1. CASE disk'.bak = disk.uids /\ owed' = owed
    <3>1. owed.uidCuts = 0 => Found' = Found /\ Found = disk.uids.map
      BY <1>2, <2>1 DEF Recoverable, Found, InitUidList, ListsSound, SoundList, DiskOK, IsUidList
    <3> QED
      BY <1>1, <1>2, <2>1, <3>1 DEF Recoverable, Saving, Settled
  <2>2. CASE owed'.uidCuts = 2
    BY <2>2 DEF Recoverable
  <2> QED
    BY <1>3, <2>1, <2>2
<1> QED
  BY <1>4, <1>5, <1>6

\* After the write the file says what memory says.
LEMMA WriteUidsUids ==
    ASSUME IInv, WriteUids
    PROVE  UidInv'
<1> USE DEF IInv, TypeInv, TypeOK, UidInv
<1>1. /\ UNCHANGED uids /\ cache' = cache /\ saver' = saver
      /\ job'.pkg = job.pkg /\ job'.setting = job.setting /\ job'.snap = job.snap
      /\ job'.step = "writeIni" /\ job.step = "writeUids"
  BY DEF WriteUids, Goto, At, JobOK
<1>2. disk'.uids = UidsNow /\ disk'.list = disk.list /\ disk'.bak = disk.bak
  BY DEF WriteUids, DiskOK
<1>3. owed'.uidCuts < 2 => owed.uidCuts < 2
  BY DEF WriteUids, History
<1>4. ListsSound'
  BY <1>1, <1>2 DEF ListsSound, SoundList, UidsNow, uids
<1>5. AllBacked'
  BY <1>1, <1>2, <1>3 DEF AllBacked, Settled, HasUid, Saving, uids
<1>6. Recoverable'
  BY <1>1, <1>2 DEF Recoverable, Saving, Found, InitUidList, UidsNow, uids
<1> QED
  BY <1>4, <1>5, <1>6

\* A write that fails may be the end of the uids.
LEMMA WriteUidsFailsUids ==
    ASSUME IInv, WriteUidsFails
    PROVE  UidInv'
<1> USE DEF IInv, TypeInv, TypeOK, UidInv
<1>1. UNCHANGED uids /\ owed'.uidCuts = 2
  BY DEF WriteUidsFails, History
<1>2. PICK n \in {0, mFreeUid} : disk' = [disk EXCEPT !.uids = TornUids(n)]
  BY DEF WriteUidsFails
<1>3. ListsSound'
  BY <1>1, <1>2 DEF ListsSound, SoundList, TornUids, DiskOK, uids
<1> QED
  BY <1>1, <1>3 DEF AllBacked, Recoverable

\* The package goes into the cache with the uid of its shared id.
LEMMA WriteIniUids ==
    ASSUME IInv, WriteIni
    PROVE  UidInv'
<1> USE DEF IInv, TypeInv, TypeOK, UidInv
<1>1. /\ UNCHANGED uids /\ saver' = saver
      /\ job'.step = "snapshot" /\ job.step = "writeIni" /\ job'.snap = job.snap
      /\ cache' = Put(cache, job.pkg, job.setting)
  BY DEF WriteIni, At, JobOK
<1>2. /\ disk'.uids = disk.uids /\ disk'.list = disk.list /\ disk'.bak = disk.bak
      /\ owed'.uidCuts = owed.uidCuts
  BY DEF WriteIni, DiskOK, Broken, History
<1>3. ListsSound'
  BY <1>1, <1>2 DEF ListsSound, uids
<1>4. AllBacked'
  BY <1>1, <1>2, PutBacked DEF AllBacked, Settled, HasUid, Saving, uids
<1>5. Recoverable'
  BY <1>1, <1>2 DEF Recoverable, Saving, Found, InitUidList, uids
<1> QED
  BY <1>3, <1>4, <1>5

\* A start reads back what memory knew, or what it knew before the uid that it
\* was about to save; nobody has that one.
LEMMA RestartUids ==
    ASSUME IInv, Restart
    PROVE  UidInv'
<1> USE DEF IInv, TypeInv, TypeOK, UidInv
<1>1. PICK d \in CutShort :
        /\ disk' = [d EXCEPT !.files = CleanedUp(d)]
        /\ cache' = Restrict(d.list, Loadable(d))
        /\ mFreeUid' = InitUidList(d).free /\ mSharedUserIdMap' = InitUidList(d).map
        /\ owed' = OwedAfter(d)
  BY DEF Restart
<1>2. /\ d = [list |-> d.list, uids |-> d.uids, bak |-> d.bak, files |-> d.files]
      /\ IsUidList(d.uids) /\ IsUidList(d.bak)
      /\ d.list \in CutLists
      /\ \E c \in CutFiles : d.uids = c.uids /\ d.bak = c.bak
  BY CutShortType
<1>3. /\ job'.snap = Empty /\ saver'.snap = Empty /\ ~Saving' /\ ~HasUid' /\ job'.step = "idle"
      /\ disk'.uids = d.uids /\ disk'.bak = d.bak /\ disk'.list = d.list
  BY <1>1, <1>2 DEF Restart, Idle, NoSave, HasUid, Saving
<1>4. \/ d.uids = disk.uids /\ d.bak = disk.bak
      \/ job.step = "backUp" /\ d.uids = disk.uids /\ d.bak = TornUids(0)
      \/ job.step = "writeUids" /\ d.bak = disk.bak /\ \E n \in {0, mFreeUid} : d.uids = TornUids(n)
  <2>1. PICK c \in CutFiles : d.uids = c.uids /\ d.bak = c.bak
    BY <1>2
  <2>2. CASE c = disk
    BY <2>1, <2>2
  <2>3. CASE \E f : c = [disk EXCEPT !.files[job.pkg] = f]
    BY <2>1, <2>3 DEF DiskOK
  <2>4. CASE job.step = "backUp" /\ c = [disk EXCEPT !.bak = TornUids(0)]
    BY <2>1, <2>4 DEF DiskOK
  <2>5. CASE job.step = "writeUids" /\ \E n \in {0, mFreeUid} : c = [disk EXCEPT !.uids = TornUids(n)]
    BY <2>1, <2>5 DEF DiskOK
  <2> QED
    BY <2>2, <2>3, <2>4, <2>5 DEF CutFiles, At
<1>5. SoundList(d.uids) /\ SoundList(d.bak)
  BY <1>4 DEF ListsSound, SoundList, TornUids
<1>6. ListsSound'
  BY <1>1, <1>2, <1>3, <1>5, InitUidListSound DEF ListsSound
<1>7. owed.uidCuts \in 0..2 /\ owed'.uidCuts = IF /\ job.step = "writeUids" \/ (job.step = "backUp" /\ owed.uidCuts > 0)
                                                  /\ owed.uidCuts < 2
                                               THEN owed.uidCuts + 1 ELSE owed.uidCuts
  BY <1>1 DEF OwedAfter, History, At
<1>8. ASSUME owed'.uidCuts < 2
      PROVE  Settled(InitUidList(d).map)
  <2>1. CASE ~Saving
    <3>1. InitUidList(d).map = mSharedUserIdMap /\ Settled(mSharedUserIdMap)
      BY <1>4, <1>7, <1>8, <2>1 DEF Recoverable, AllBacked, Found, InitUidList, Saving
    <3> QED
      BY <3>1
  <2>2. CASE Saving
    <3>1. owed.uidCuts = 0
      BY <1>7, <1>8, <2>2 DEF Saving
    <3>2. Settled(Found)
      BY <2>2, <3>1 DEF Recoverable
    <3>3. InitUidList(d).map = Found
      BY <1>4, <3>1 DEF Recoverable, Found, InitUidList, TornUids, ListsSound, SoundList, DiskOK, IsUidList
    <3> QED
      BY <3>2, <3>3
  <2> QED
    BY <2>1, <2>2
<1>9. ASSUME owed'.uidCuts < 2
      PROVE  Settled(mSharedUserIdMap)'
  <2>1. Backed(d.list, mSharedUserIdMap')
    <3>1. \A f, map : Backed(f, map) => \A l \in CutOff(f) : Backed(l, map)
      BY RestrictBacked DEF CutOff
    <3> QED
      BY <1>1, <1>2, <1>8, <1>9, <3>1 DEF CutLists, Settled
  <2>2. Backed(cache', mSharedUserIdMap')
    BY <1>1, <2>1, RestrictBacked DEF Loadable
  <2> QED
    BY <1>3, <2>1, <2>2, EmptyBacked DEF Settled
<1>10. AllBacked'
  BY <1>3, <1>9 DEF AllBacked
<1>11. Recoverable'
  <2>1. Found' = mSharedUserIdMap'
    BY <1>1, <1>3 DEF Found, InitUidList
  <2>2. owed'.uidCuts = 0 /\ ~d.uids.ok => ~d.bak.ok
    BY <1>4, <1>7 DEF Recoverable, TornUids
  <2> QED
    BY <1>3, <2>1, <2>2 DEF Recoverable
<1> QED
  BY <1>6, <1>10, <1>11

\* Every step keeps the invariant.
LEMMA NextIInv == IInv /\ [Next]_vars => IInv'
<1> SUFFICES ASSUME IInv, [Next]_vars PROVE IInv'
  OBVIOUS
<1>1. TypeInv'
  BY NextTypeInv DEF IInv
<1>2. UidInv'
  <2>1. CASE UNCHANGED vars
    BY <2>1 DEF IInv, UidInv, ListsSound, AllBacked, Settled, Recoverable, HasUid, Saving,
                Found, InitUidList, vars, uids
  <2>2. CASE Next
    BY <2>2, QuietSteps, GetOrCreateUidUids, BackUpUids, WriteUidsUids, WriteUidsFailsUids,
       WriteIniUids, RestartUids
       DEF Next
  <2> QED
    BY <2>1, <2>2
<1> QED
  BY <1>1, <1>2 DEF IInv

\* Two packages that do not share a uid never have the same, whatever the
\* packages are and however often the server dies (UidSystem): one save of the
\* uids that is cut off is made up for by the backup.
THEOREM UidsAlwaysDistinct == Spec => []UidsDistinct
<1>1. IInv => UidsDistinct
  BY DEF IInv, UidInv, AllBacked, Settled, Backed, ListsSound, Sound, UidsDistinct
<1> QED
  BY InitIInv, NextIInv, <1>1, PTL DEF Spec
-----------------------------------------------------------------------------
(* What is installed                                                       *)

\* The settings of a package outside the cache are the job's.
Installed(p) ==
    IF p \in DOMAIN cache THEN cache[p].installed
    ELSE IF HasUid /\ p = job.pkg THEN job.setting.installed ELSE {}
OnList(l, p) == IF p \in DOMAIN l THEN l[p].installed ELSE {}

\* An installation or a removal has the package at hand.
InHand(p) == p = job.pkg /\ job.op = "install"
First == job.op = "install" /\ ~job.update
LastSteps == {"snapshot", "write", "start"}

\* When an operation has its package in the cache.
JobPlanned ==
    /\ job.step = "idle" => job = Idle
    /\ job.step \notin {"idle", "snapshot", "write"} => job.op = "install"
    /\ job.update => job.op = "install" /\ job.step \notin {"deleteFiles", "uncache"}
    /\ job.step \in {"copyLibs", "copyApk", "uid"} /\ ~job.update => job.pkg \notin DOMAIN cache
    /\ HasUid => job.pkg \notin DOMAIN cache
    /\ job.step \in LastSteps \cup {"deleteFiles", "uncache"} => job.pkg \in DOMAIN cache
    /\ HasUid /\ ~job.update => job.setting.installed = {0}
    /\ First /\ job.step \in LastSteps => 0 \in cache[job.pkg].installed

GrantedHeld ==
    /\ \A p \in Package : owed.granted[p] \subseteq Installed(p) \ removing
    /\ First /\ job.step # "idle" => owed.granted[job.pkg] = {}

Registered ==
    \A p \in Package : p \in DOMAIN cache \/ (p = job.pkg /\ job.update) =>
        receivers[p] > 0 \/ (p = job.pkg /\ First)

\* Files are complete, or gone, but for those in hand.
FilesWhole ==
    \A p \in Package \ owed.broken :
        /\ ~InHand(p) => /\ disk.files[p] \in {AllFiles, NoFiles}
                         /\ p \in DOMAIN cache => disk.files[p] = AllFiles
        /\ InHand(p) =>
              /\ job.step \notin {"copyLibs", "deleteFiles", "uncache"} => disk.files[p].lib
              /\ job.step = "uid" \/ HasUid \/ job.step \in LastSteps => disk.files[p].apk
              /\ job.step \in LastSteps => disk.files[p].ini
              /\ job.step = "uncache" => disk.files[p] = NoFiles

\* A list that has all there is in memory.
Covers(l) == \A p \in DOMAIN cache : p \in DOMAIN l /\ cache[p].installed \subseteq l[p].installed

SnapsCover ==
    /\ job.step = "write" => Covers(job.snap)
    /\ saver.on /\ ~owed.mixed => ~Exposed /\ Covers(saver.snap)

GrantedSaved ==
    ~owed.cut /\ ~owed.mixed => \A p \in Package \ owed.broken :
        /\ ~InHand(p) \/ job.step = "start" => owed.granted[p] \subseteq OnList(disk.list, p)
        /\ InHand(p) /\ job.step = "start" => job.update \/ 0 \in OnList(disk.list, p)

StayInv == JobPlanned /\ GrantedHeld /\ Registered /\ FilesWhole /\ SnapsCover /\ GrantedSaved

Own(p, S) == S \subseteq users /\ S \ {0} \subseteq owed.asked[p]

\* A list without anything that is not known in memory.
Good(l) ==
    \A p \in DOMAIN l : Own(p, l[p].installed) /\ (p \in DOMAIN cache \/ (HasUid /\ p = job.pkg))

OwnerStays == 0 \in users \ removing
LessGone ==
    job.op = "less" => owed.unsaved /\ job.user \notin cache[job.pkg].installed
InMemoryOwn ==
    ~owed.revived => /\ \A p \in DOMAIN cache : Own(p, cache[p].installed)
                     /\ HasUid => Own(job.pkg, job.setting.installed)
ListsOwn ==
    ~owed.revived /\ ~owed.unsaved /\ ~owed.mixed =>
        /\ Good(disk.list)
        /\ job.step = "write" => Good(job.snap)
        /\ saver.on => Good(saver.snap)
OwnInv == OwnerStays /\ LessGone /\ InMemoryOwn /\ ListsOwn

PackagesInv == TypeInv /\ StayInv /\ OwnInv

\* What the proofs use of the types.
LEMMA Types ==
    ASSUME TypeInv
    PROVE  /\ DOMAIN cache \subseteq Package /\ cache \in [DOMAIN cache -> Setting]
           /\ DOMAIN disk.list \subseteq Package /\ disk.list \in [DOMAIN disk.list -> Setting]
           /\ DOMAIN job.snap \subseteq Package /\ job.snap \in [DOMAIN job.snap -> Setting]
           /\ DOMAIN saver.snap \subseteq Package /\ saver.snap \in [DOMAIN saver.snap -> Setting]
           /\ job.setting \in Setting /\ job.user \in UserId /\ job.update \in BOOLEAN
           /\ job.op \in {"install", "user", "less"} /\ job.step \in Steps
           /\ job.step # "idle" => job.pkg \in Package
           /\ owed.granted \in [Package -> SUBSET UserId] /\ owed.asked \in [Package -> SUBSET UserId]
           /\ owed.broken \subseteq Package
           /\ receivers \in [Package -> Nat]
           /\ users \subseteq UserId /\ removing \subseteq users
           /\ disk.files \in [Package -> [apk : BOOLEAN, lib : BOOLEAN, ini : BOOLEAN]]
  BY DEF TypeInv, TypeOK, DiskOK, MemoryOK, JobOK, SaverOK, History, AreSettings, JobKnown

\* Steps of an installation that only reach the files and the uids.
LEMMA AtWork ==
    ASSUME TypeInv, StayInv, UNCHANGED <<people, cache, receivers, saver>>,
           disk'.list = disk.list,
           owed'.granted = owed.granted, owed'.cut = owed.cut, owed'.mixed = owed.mixed,
           owed.broken \subseteq owed'.broken,
           \A p \in Package : p # job.pkg => disk'.files[p] = disk.files[p],
           \/ job.step = "copyLibs" /\ job'.step = "copyApk"
           \/ job.step = "copyApk" /\ job'.step = "uid"
           \/ job.step = "backUp" /\ job'.step = "writeUids"
           \/ job.step = "writeUids" /\ job'.step = "writeIni",
           job'.pkg = job.pkg, job'.op = job.op, job'.update = job.update, job'.setting = job.setting,
           job.pkg \notin owed'.broken =>
              disk'.files[job.pkg].lib /\ (job'.step # "copyApk" => disk'.files[job.pkg].apk)
    PROVE  StayInv'
<1>1. /\ cache' = cache /\ receivers' = receivers /\ saver' = saver /\ users' = users /\ removing' = removing
  BY DEF people
<1>2. job.op = "install" /\ job'.op = "install" /\ job.pkg \in Package
  BY Types DEF StayInv, JobPlanned
<1>3. HasUid' = HasUid /\ job.step # "idle" /\ job'.step \notin LastSteps \cup {"deleteFiles", "uncache", "idle"}
  BY DEF HasUid, Saving, LastSteps
<1>4. \A p : /\ Installed(p)' = Installed(p) /\ InHand(p)' = InHand(p)
             /\ OnList(disk.list, p)' = OnList(disk.list, p)
  BY <1>1, <1>3 DEF Installed, InHand, OnList
<1>5. JobPlanned'
  BY <1>1, <1>2, <1>3 DEF StayInv, JobPlanned, HasUid, Saving, LastSteps, First
<1>6. GrantedHeld'
  BY <1>1, <1>3, <1>4 DEF StayInv, GrantedHeld, First
<1>7. Registered'
  BY <1>1, <1>2 DEF StayInv, Registered, First
<1>8. FilesWhole'
  <2> SUFFICES ASSUME NEW p \in Package \ owed'.broken
               PROVE  /\ ~InHand(p) => /\ disk'.files[p] \in {AllFiles, NoFiles}
                                       /\ p \in DOMAIN cache => disk'.files[p] = AllFiles
                      /\ InHand(p) => disk'.files[p].lib /\ (job'.step # "copyApk" => disk'.files[p].apk)
    <3>1. (job'.step = "uid" \/ HasUid' => job'.step # "copyApk") /\ job'.step # "uncache"
      BY DEF HasUid, Saving
    <3> QED BY <1>1, <1>3, <1>4, <3>1 DEF FilesWhole
  <2>1. ~InHand(p) => p # job.pkg
    BY <1>2 DEF InHand
  <2> QED BY <2>1 DEF StayInv, FilesWhole, InHand
<1>9. SnapsCover'
  <2>1. job'.step # "write"
    BY <1>3 DEF LastSteps
  <2>2. saver.on /\ ~owed.mixed => ~Exposed /\ Covers(saver.snap)
    BY DEF StayInv, SnapsCover
  <2>3. ~Exposed => ~Exposed'
    BY DEF Exposed, ExposedSteps
  <2>4. Covers(saver.snap)' = Covers(saver.snap)
    BY <1>1 DEF Covers
  <2> QED BY <1>1, <2>1, <2>2, <2>3, <2>4 DEF SnapsCover
<1>10. GrantedSaved'
  <2>1. job.step # "start" /\ job'.step # "start"
    BY <1>3 DEF LastSteps
  <2> QED BY <1>4, <2>1 DEF StayInv, GrantedSaved
<1> QED BY <1>5, <1>6, <1>7, <1>8, <1>9, <1>10 DEF StayInv

\* An installation that is given up before the package leaves the cache.
LEMMA GivenUp ==
    ASSUME TypeInv, StayInv, UNCHANGED <<people, cache, receivers, saver>>,
           disk'.list = disk.list,
           owed'.granted = owed.granted, owed'.cut = owed.cut, owed'.mixed = owed.mixed,
           owed.broken \cup {job.pkg} \subseteq owed'.broken,
           \A p \in Package : p # job.pkg => disk'.files[p] = disk.files[p],
           job.step \in {"copyLibs", "copyApk"}, job' = Idle
    PROVE  StayInv'
<1>1. /\ cache' = cache /\ receivers' = receivers /\ saver' = saver /\ users' = users /\ removing' = removing
  BY DEF people
<1>2. job.op = "install" /\ job.pkg \in Package
  BY Types DEF StayInv, JobPlanned
<1>3. /\ job'.step = "idle" /\ job'.pkg = NoPackage /\ job'.op = "install" /\ ~job'.update
      /\ NoPackage \notin Package
  BY PackageStoreAssumption DEF Idle
<1>4. ~HasUid /\ ~HasUid'
  BY <1>3 DEF HasUid, Saving
<1>5. \A p \in Package : /\ Installed(p)' = Installed(p) /\ ~InHand(p)'
                         /\ OnList(disk.list, p)' = OnList(disk.list, p)
  BY <1>1, <1>3, <1>4 DEF Installed, InHand, OnList
<1>6. JobPlanned'
  BY <1>3, <1>4 DEF JobPlanned, LastSteps
<1>7. GrantedHeld'
  BY <1>1, <1>3, <1>5 DEF StayInv, GrantedHeld
<1>8. Registered'
  BY <1>1, <1>2, <1>3 DEF StayInv, Registered, First, JobPlanned
<1>9. FilesWhole'
  <2> SUFFICES ASSUME NEW p \in Package \ owed'.broken
               PROVE  /\ disk'.files[p] \in {AllFiles, NoFiles}
                      /\ p \in DOMAIN cache => disk'.files[p] = AllFiles
    BY <1>1, <1>5 DEF FilesWhole
  <2>1. p # job.pkg /\ ~InHand(p)
    BY DEF InHand
  <2> QED BY <2>1 DEF StayInv, FilesWhole
<1>10. SnapsCover'
  <2>1. saver.on /\ ~owed.mixed => Covers(saver.snap)
    BY DEF StayInv, SnapsCover
  <2>2. ~Exposed'
    BY <1>3 DEF Exposed, ExposedSteps
  <2>3. Covers(saver.snap)' = Covers(saver.snap)
    BY <1>1 DEF Covers
  <2> QED BY <1>1, <1>3, <2>1, <2>2, <2>3 DEF SnapsCover
<1>11. GrantedSaved'
  <2> SUFFICES ASSUME ~owed.cut, ~owed.mixed, NEW p \in Package \ owed'.broken
               PROVE  owed.granted[p] \subseteq OnList(disk.list, p)
    BY <1>3, <1>5 DEF GrantedSaved
  <2>1. ~InHand(p)
    BY DEF InHand
  <2> QED BY <2>1 DEF StayInv, GrantedSaved
<1> QED BY <1>6, <1>7, <1>8, <1>9, <1>10, <1>11 DEF StayInv

LEMMA CopyLibsStay == ASSUME TypeInv, StayInv, CopyLibs PROVE StayInv'
<1>1. /\ UNCHANGED <<people, cache, receivers, saver>> /\ owed' = owed
      /\ job.step = "copyLibs" /\ job' = [job EXCEPT !.step = "copyApk"]
      /\ disk' = [disk EXCEPT !.files[job.pkg].lib = TRUE]
  BY DEF CopyLibs, At, Goto
<1>2. /\ disk'.list = disk.list /\ disk'.files[job.pkg].lib
      /\ \A p \in Package : p # job.pkg => disk'.files[p] = disk.files[p]
      /\ job'.step = "copyApk" /\ job'.pkg = job.pkg /\ job'.op = job.op
      /\ job'.update = job.update /\ job'.setting = job.setting
  BY <1>1, Types DEF TypeInv, TypeOK, DiskOK, JobOK
<1> QED BY <1>1, <1>2, AtWork

LEMMA CopyLibsFailsStay == ASSUME TypeInv, StayInv, CopyLibsFails PROVE StayInv'
<1>1. /\ UNCHANGED <<people, cache, receivers, saver, disk>>
      /\ job.step = "copyLibs" /\ job.pkg \in Package
      /\ owed' = [owed EXCEPT !.broken = owed.broken \cup {job.pkg}]
  BY Types DEF CopyLibsFails, At, Broken
<1>2. /\ owed'.granted = owed.granted /\ owed'.cut = owed.cut /\ owed'.mixed = owed.mixed
      /\ owed'.broken = owed.broken \cup {job.pkg}
  BY <1>1 DEF TypeInv, TypeOK, History
<1>3. CASE job' = Idle
  BY <1>1, <1>2, <1>3, GivenUp
<1>4. CASE Goto("copyApk")
  <2>1. /\ job'.step = "copyApk" /\ job'.pkg = job.pkg /\ job'.op = job.op
        /\ job'.update = job.update /\ job'.setting = job.setting
    BY <1>4 DEF Goto, TypeInv, TypeOK, JobOK
  <2> QED BY <1>1, <1>2, <2>1, AtWork
<1> QED BY <1>3, <1>4 DEF CopyLibsFails

LEMMA CopyApkStay == ASSUME TypeInv, StayInv, CopyApk PROVE StayInv'
<1>1. /\ UNCHANGED <<people, cache, receivers, saver>> /\ owed' = owed
      /\ job.step = "copyApk" /\ job' = [job EXCEPT !.step = "uid"]
      /\ disk' = [disk EXCEPT !.files[job.pkg].apk = TRUE]
  BY DEF CopyApk, At, Goto
<1>2. /\ disk'.list = disk.list
      /\ disk'.files[job.pkg].apk /\ disk'.files[job.pkg].lib = disk.files[job.pkg].lib
      /\ \A p \in Package : p # job.pkg => disk'.files[p] = disk.files[p]
      /\ job'.step = "uid" /\ job'.pkg = job.pkg /\ job'.op = job.op
      /\ job'.update = job.update /\ job'.setting = job.setting
  BY <1>1, Types DEF TypeInv, TypeOK, DiskOK, JobOK
<1>3. job.pkg \notin owed.broken => disk.files[job.pkg].lib
  BY <1>1, Types DEF StayInv, FilesWhole, InHand, JobPlanned
<1> QED BY <1>1, <1>2, <1>3, AtWork

LEMMA CopyApkFailsStay == ASSUME TypeInv, StayInv, CopyApkFails PROVE StayInv'
<1>1. /\ UNCHANGED <<people, cache, receivers, saver>>
      /\ job.step = "copyApk" /\ job.pkg \in Package /\ job' = Idle
      /\ owed' = [owed EXCEPT !.broken = owed.broken \cup {job.pkg}]
      /\ disk' = [disk EXCEPT !.files[job.pkg].apk = FALSE]
  BY Types DEF CopyApkFails, At, Broken
<1>2. /\ owed'.granted = owed.granted /\ owed'.cut = owed.cut /\ owed'.mixed = owed.mixed
      /\ owed'.broken = owed.broken \cup {job.pkg}
  BY <1>1 DEF TypeInv, TypeOK, History
<1>3. /\ disk'.list = disk.list /\ \A p \in Package : p # job.pkg => disk'.files[p] = disk.files[p]
  BY <1>1, Types DEF TypeInv, TypeOK, DiskOK
<1> QED BY <1>1, <1>2, <1>3, GivenUp

\* What is in hand between getOrCreateUid and the end of writeIni.
LEMMA HandFiles ==
    ASSUME TypeInv, StayInv, job.step = "uid" \/ HasUid, job.pkg \notin owed.broken
    PROVE  disk.files[job.pkg].lib /\ disk.files[job.pkg].apk
  BY Types DEF StayInv, FilesWhole, InHand, JobPlanned, HasUid, Saving

LEMMA BackUpStay == ASSUME TypeInv, StayInv, BackUp PROVE StayInv'
<1>1. /\ UNCHANGED <<people, cache, receivers, saver>>
      /\ job.step = "backUp" /\ job' = [job EXCEPT !.step = "writeUids"]
      /\ disk'.list = disk.list /\ disk'.files = disk.files
      /\ owed'.granted = owed.granted /\ owed'.cut = owed.cut /\ owed'.mixed = owed.mixed
      /\ owed'.broken = owed.broken
  BY DEF BackUp, At, Goto, TypeInv, TypeOK, DiskOK, History
<1>2. /\ job'.step = "writeUids" /\ job'.pkg = job.pkg /\ job'.op = job.op
      /\ job'.update = job.update /\ job'.setting = job.setting
  BY <1>1 DEF TypeInv, TypeOK, JobOK
<1> QED BY <1>1, <1>2, HandFiles, AtWork DEF HasUid, Saving

LEMMA WriteUidsStay == ASSUME TypeInv, StayInv, WriteUids \/ WriteUidsFails PROVE StayInv'
<1>1. /\ UNCHANGED <<people, cache, receivers, saver>>
      /\ job.step = "writeUids" /\ job' = [job EXCEPT !.step = "writeIni"]
      /\ disk'.list = disk.list /\ disk'.files = disk.files
      /\ owed'.granted = owed.granted /\ owed'.cut = owed.cut /\ owed'.mixed = owed.mixed
      /\ owed'.broken = owed.broken
  BY DEF WriteUids, WriteUidsFails, At, Goto, TypeInv, TypeOK, DiskOK, History
<1>2. /\ job'.step = "writeIni" /\ job'.pkg = job.pkg /\ job'.op = job.op
      /\ job'.update = job.update /\ job'.setting = job.setting
  BY <1>1 DEF TypeInv, TypeOK, JobOK
<1> QED BY <1>1, <1>2, HandFiles, AtWork DEF HasUid, Saving

\* Between two operations.
LEMMA AtRest ==
    ASSUME TypeInv, StayInv, job.step = "idle"
    PROVE  /\ job = Idle /\ job.pkg = NoPackage /\ NoPackage \notin Package /\ ~job.update
           /\ ~HasUid /\ ~Exposed
           /\ \A p \in Package :
                 /\ ~InHand(p)
                 /\ Installed(p) = (IF p \in DOMAIN cache THEN cache[p].installed ELSE {})
                 /\ p \in DOMAIN cache => receivers[p] > 0
<1>1. job = Idle /\ job.pkg = NoPackage /\ NoPackage \notin Package /\ ~job.update
  BY PackageStoreAssumption DEF StayInv, JobPlanned, Idle
<1>2. ~HasUid /\ ~Exposed
  BY DEF HasUid, Saving, Exposed, ExposedSteps
<1> QED BY <1>1, <1>2 DEF InHand, Installed, StayInv, Registered

\* What Idle says of a job that begins or ends.
LEMMA IdleFields ==
    /\ Idle.step = "idle" /\ Idle.pkg = NoPackage /\ Idle.op = "install" /\ Idle.user = 0
    /\ ~Idle.update /\ Idle.setting = NoSetting /\ Idle.snap = Empty
  BY DEF Idle

LEMMA InstallPackageStay ==
    ASSUME TypeInv, StayInv, NEW p \in Package, InstallPackage(p)
    PROVE  StayInv'
<1>1. /\ UNCHANGED <<people, cache, receivers, saver>>
      /\ cache' = cache /\ receivers' = receivers /\ saver' = saver /\ users' = users /\ removing' = removing
      /\ job.step = "idle"
      /\ job' = [Idle EXCEPT !.step = "copyLibs", !.pkg = p, !.update = p \in DOMAIN cache]
  BY DEF InstallPackage, At, people
<1>2. /\ disk'.list = disk.list
      /\ \A q \in Package : q # p => disk'.files[q] = disk.files[q]
  BY DEF InstallPackage, TypeInv, TypeOK, DiskOK
<1>3. /\ owed'.granted = owed.granted /\ owed'.cut = owed.cut /\ owed'.mixed = owed.mixed
      /\ owed'.broken = owed.broken \ {p}
  BY DEF InstallPackage, TypeInv, TypeOK, History
<1>4. /\ job'.step = "copyLibs" /\ job'.pkg = p /\ job'.op = "install"
      /\ job'.update = (p \in DOMAIN cache)
  BY <1>1 DEF Idle
<1>5. ~HasUid' /\ ~Exposed' /\ job'.step \notin LastSteps
  BY <1>4 DEF HasUid, Saving, Exposed, ExposedSteps, LastSteps
<1>6. \A q \in Package : /\ Installed(q)' = Installed(q) /\ InHand(q)' = (q = p)
                         /\ OnList(disk.list, q)' = OnList(disk.list, q)
  BY <1>1, <1>2, <1>4, <1>5, AtRest DEF Installed, InHand, OnList
<1>7. JobPlanned'
  BY <1>1, <1>4, <1>5 DEF JobPlanned, First
<1>8. GrantedHeld'
  <2>1. \A q \in Package : owed'.granted[q] \subseteq Installed(q)' \ removing'
    BY <1>1, <1>3, <1>6 DEF StayInv, GrantedHeld
  <2>2. p \notin DOMAIN cache => Installed(p)' = {}
    BY <1>1, <1>6, AtRest
  <2> QED BY <1>4, <2>1, <2>2 DEF GrantedHeld, First
<1>9. Registered'
  BY <1>1, <1>4, AtRest DEF Registered, First
<1>10. FilesWhole'
  <2> SUFFICES ASSUME NEW q \in Package \ owed'.broken
               PROVE  q # p => /\ disk'.files[q] \in {AllFiles, NoFiles}
                               /\ q \in DOMAIN cache => disk'.files[q] = AllFiles
    BY <1>1, <1>4, <1>5, <1>6 DEF FilesWhole
  <2> QED BY <1>1, <1>2, <1>3, AtRest DEF StayInv, FilesWhole
<1>11. SnapsCover'
  <2>1. Covers(saver.snap)' = Covers(saver.snap)
    BY <1>1 DEF Covers
  <2> QED BY <1>1, <1>3, <1>4, <1>5, <2>1 DEF StayInv, SnapsCover
<1>12. GrantedSaved'
  <2> SUFFICES ASSUME ~owed.cut, ~owed.mixed, NEW q \in Package \ owed'.broken, q # p
               PROVE  owed.granted[q] \subseteq OnList(disk.list, q)
    BY <1>3, <1>4, <1>6 DEF GrantedSaved
  <2> QED BY <1>1, <1>3, AtRest DEF StayInv, GrantedSaved
<1> QED BY <1>7, <1>8, <1>9, <1>10, <1>11, <1>12 DEF StayInv

LEMMA GetOrCreateUidStay == ASSUME TypeInv, StayInv, GetOrCreateUid PROVE StayInv'
<1> DEFINE p == job.pkg
<1>1. /\ receivers' = receivers /\ saver' = saver /\ users' = users /\ removing' = removing
      /\ disk' = disk /\ job.step = "uid" /\ p \in Package /\ job.op = "install"
  BY Types DEF GetOrCreateUid, At, people, StayInv, JobPlanned
<1>2. /\ DOMAIN cache' = DOMAIN cache \ {p}
      /\ \A q \in DOMAIN cache : q # p => cache'[q] = cache[q]
  BY DEF GetOrCreateUid, Without, Restrict
<1>3. /\ owed'.granted = owed.granted /\ owed'.cut = owed.cut /\ owed'.broken = owed.broken
      /\ owed'.mixed = (owed.mixed \/ saver.on)
  BY DEF GetOrCreateUid, TypeInv, TypeOK, History
<1>4. PICK s \in {"writeIni", "backUp"} :
         \E n : job' = [job EXCEPT !.step = s, !.setting = [OldSetting EXCEPT !.appId = n]]
  BY DEF GetOrCreateUid
<1>17. PICK n : job' = [job EXCEPT !.step = s, !.setting = [OldSetting EXCEPT !.appId = n]]
  BY <1>4
<1>5. OldSetting.installed = (IF job.update THEN cache[p].installed ELSE {0})
      /\ [OldSetting EXCEPT !.appId = n].installed = OldSetting.installed
  <2>1. CASE job.update
    <3>1. p \in DOMAIN cache
      BY <1>1, <2>1 DEF TypeInv, JobKnown
    <3>2. OldSetting \in Setting
      BY <2>1, <3>1, Types DEF OldSetting
    <3> QED BY <2>1, <3>2 DEF OldSetting, Setting
  <2>2. CASE ~job.update
    BY <2>2 DEF OldSetting
  <2> QED BY <2>1, <2>2
<1>6. /\ job'.step = s /\ job'.pkg = p /\ job'.op = "install" /\ job'.update = job.update
      /\ job'.setting.installed = (IF job.update THEN cache[p].installed ELSE {0})
  BY <1>1, <1>17, <1>5 DEF TypeInv, TypeOK, JobOK
<1>7. HasUid' /\ ~HasUid /\ s \notin LastSteps /\ s \notin {"idle", "write", "start", "uncache", "copyLibs", "copyApk", "uid"}
  BY <1>1, <1>6 DEF HasUid, Saving, LastSteps
<1>8. job.update <=> p \in DOMAIN cache
  BY <1>1 DEF StayInv, JobPlanned, TypeInv, JobKnown
<1>9. \A q \in Package : InHand(q)' = InHand(q) /\ (~InHand(q) <=> q # p)
                         /\ OnList(disk.list, q)' = OnList(disk.list, q)
  BY <1>1, <1>6 DEF InHand, OnList
<1>10. \A q \in Package : Installed(q) \subseteq Installed(q)'
  BY <1>2, <1>6, <1>7, <1>8 DEF Installed
<1>11. JobPlanned'
  BY <1>2, <1>6, <1>7 DEF JobPlanned, First
<1>12. GrantedHeld'
  BY <1>1, <1>3, <1>6, <1>10 DEF StayInv, GrantedHeld, First
<1>13. Registered'
  BY <1>1, <1>2, <1>6 DEF StayInv, Registered, First
<1>14. FilesWhole'
  BY <1>1, <1>2, <1>3, <1>6, <1>7, <1>9, HandFiles DEF StayInv, FilesWhole
<1>15. SnapsCover'
  BY <1>1, <1>3, <1>6, <1>7 DEF SnapsCover
<1>16. GrantedSaved'
  BY <1>1, <1>3, <1>6, <1>7, <1>9 DEF StayInv, GrantedSaved
<1> QED BY <1>11, <1>12, <1>13, <1>14, <1>15, <1>16 DEF StayInv

LEMMA WriteIniStay == ASSUME TypeInv, StayInv, WriteIni PROVE StayInv'
<1> DEFINE p == job.pkg
<1>1. /\ receivers' = receivers /\ saver' = saver /\ users' = users /\ removing' = removing
      /\ job.step = "writeIni" /\ p \in Package /\ job.op = "install" /\ HasUid /\ p \notin DOMAIN cache
      /\ job' = [job EXCEPT !.step = "snapshot", !.setting = NoSetting]
      /\ cache' = Put(cache, p, job.setting)
  BY Types DEF WriteIni, At, people, StayInv, JobPlanned, HasUid
<1>2. /\ DOMAIN cache' = DOMAIN cache \cup {p} /\ cache'[p] = job.setting
      /\ \A q \in DOMAIN cache : cache'[q] = cache[q]
  BY <1>1 DEF Put
<1>3. /\ owed'.granted = owed.granted /\ owed'.cut = owed.cut /\ owed.broken \subseteq owed'.broken
      /\ owed'.mixed = owed.mixed
  BY DEF WriteIni, Broken, TypeInv, TypeOK, History
<1>4. /\ disk'.list = disk.list /\ \A q \in Package : q # p => disk'.files[q] = disk.files[q]
      /\ disk'.files[p].apk = disk.files[p].apk /\ disk'.files[p].lib = disk.files[p].lib
  BY <1>1, Types, SMTT(30) DEF WriteIni, TypeInv, TypeOK, DiskOK
<1>5. p \notin owed'.broken => disk'.files[p].ini
  BY <1>1, Types DEF WriteIni, TypeInv, TypeOK, DiskOK, Broken, History
<1>6. /\ job'.step = "snapshot" /\ job'.pkg = p /\ job'.op = "install" /\ job'.update = job.update
  BY <1>1 DEF TypeInv, TypeOK, JobOK
<1>7. ~HasUid' /\ job'.step \in LastSteps
  BY <1>6 DEF HasUid, Saving, LastSteps
<1>9. \A q \in Package : InHand(q)' = InHand(q) /\ (~InHand(q) <=> q # p)
                         /\ OnList(disk.list, q)' = OnList(disk.list, q)
  BY <1>1, <1>4, <1>6 DEF InHand, OnList
<1>10. \A q \in Package : Installed(q)' = Installed(q)
  BY <1>1, <1>2, <1>7 DEF Installed
<1>11. JobPlanned'
  BY <1>1, <1>2, <1>6, <1>7 DEF StayInv, JobPlanned, First
<1>12. GrantedHeld'
  BY <1>1, <1>3, <1>6, <1>10 DEF StayInv, GrantedHeld, First
<1>13. Registered'
  BY <1>1, <1>2, <1>6 DEF StayInv, Registered, First
<1>14. FilesWhole'
  <2> SUFFICES ASSUME NEW q \in Package \ owed'.broken
               PROVE  /\ q # p => /\ disk'.files[q] \in {AllFiles, NoFiles}
                                  /\ q \in DOMAIN cache => disk'.files[q] = AllFiles
                      /\ q = p => disk'.files[p].lib /\ disk'.files[p].apk /\ disk'.files[p].ini
    BY <1>2, <1>6, <1>7, <1>9 DEF FilesWhole
  <2>1. q \in Package \ owed.broken
    BY <1>3
  <2>2. q # p => /\ disk'.files[q] \in {AllFiles, NoFiles}
                 /\ q \in DOMAIN cache => disk'.files[q] = AllFiles
    BY <1>4, <1>9, <2>1 DEF StayInv, FilesWhole
  <2> QED BY <1>1, <1>4, <1>5, <2>1, <2>2, HandFiles
<1>15. SnapsCover'
  BY <1>1, <1>3, <1>6 DEF StayInv, SnapsCover, Exposed, ExposedSteps
<1>16. GrantedSaved'
  <2> SUFFICES ASSUME ~owed.cut, ~owed.mixed, NEW q \in Package \ owed'.broken, q # p
               PROVE  owed.granted[q] \subseteq OnList(disk.list, q)
    BY <1>3, <1>6, <1>9 DEF GrantedSaved
  <2> QED BY <1>3, <1>9 DEF StayInv, GrantedSaved
<1> QED BY <1>11, <1>12, <1>13, <1>14, <1>15, <1>16 DEF StayInv

LEMMA StartAppStay == ASSUME TypeInv, StayInv, OwnerStays, StartApp PROVE StayInv'
<1> DEFINE p == job.pkg
<1>1. /\ disk' = disk /\ cache' = cache /\ saver' = saver /\ users' = users /\ removing' = removing
      /\ job.step = "start" /\ job' = Idle /\ job.op = "install" /\ p \in Package /\ p \in DOMAIN cache
      /\ ~HasUid /\ job.step \in LastSteps
      /\ receivers' = [receivers EXCEPT ![p] = @ + 1]
  BY Types DEF StartApp, At, people, StayInv, JobPlanned, HasUid, Saving, LastSteps
<1>2. /\ owed'.cut = owed.cut /\ owed'.mixed = owed.mixed /\ owed'.broken = owed.broken
      /\ owed'.granted = IF job.update THEN owed.granted ELSE [owed.granted EXCEPT ![p] = {0}]
  BY DEF StartApp, TypeInv, TypeOK, History
<1>3. /\ ~HasUid' /\ ~Exposed'
      /\ First => 0 \in cache[p].installed
      /\ \A q \in Package : /\ Installed(q)' = Installed(q) /\ ~InHand(q)' /\ InHand(q) = (q = p)
                            /\ OnList(disk.list, q)' = OnList(disk.list, q)
  BY <1>1, IdleFields, PackageStoreAssumption
     DEF HasUid, Saving, Exposed, ExposedSteps, Installed, InHand, OnList, StayInv, JobPlanned
<1>10. /\ job' = Idle /\ job'.step = "idle" /\ job'.pkg = NoPackage /\ job'.op = "install"
       /\ ~job'.update /\ ~HasUid' /\ ~Exposed'
  BY <1>1, <1>3 DEF Idle
<1>4. JobPlanned'
  BY <1>10 DEF JobPlanned, LastSteps
<1>5. GrantedHeld'
  <2> SUFFICES ASSUME NEW q \in Package PROVE owed'.granted[q] \subseteq Installed(q) \ removing
    BY <1>1, <1>3, IdleFields DEF GrantedHeld
  <2>1. owed.granted[q] \subseteq Installed(q) \ removing
    BY DEF StayInv, GrantedHeld
  <2>2. ~job.update => 0 \in Installed(p) \ removing
    BY <1>1, <1>3 DEF Installed, First, OwnerStays
  <2> QED BY <1>2, <2>1, <2>2, Types
<1>6. Registered'
  BY <1>1, <1>3, IdleFields, Types, PackageStoreAssumption DEF StayInv, Registered, First
<1>7. FilesWhole'
  <2> SUFFICES ASSUME NEW q \in Package \ owed.broken
               PROVE  /\ disk.files[q] \in {AllFiles, NoFiles}
                      /\ q \in DOMAIN cache => disk.files[q] = AllFiles
    BY <1>1, <1>2, <1>3 DEF FilesWhole
  <2>1. CASE q = p
    <3>1. disk.files[p].apk /\ disk.files[p].lib /\ disk.files[p].ini
      BY <1>1, <1>3, <2>1 DEF StayInv, FilesWhole
    <3> QED BY <2>1, <3>1, Types DEF AllFiles
  <2>2. CASE q # p
    BY <1>3, <2>2 DEF StayInv, FilesWhole
  <2> QED BY <2>1, <2>2
<1>8. SnapsCover'
  <2>1. Covers(saver.snap)' = Covers(saver.snap)
    BY <1>1 DEF Covers
  <2>2. saver' = saver /\ owed'.mixed = owed.mixed
    BY <1>1, <1>2
  <2> QED BY <1>10, <2>1, <2>2 DEF StayInv, SnapsCover
<1>9. GrantedSaved'
  <2> SUFFICES ASSUME ~owed.cut, ~owed.mixed, NEW q \in Package \ owed.broken
               PROVE  owed'.granted[q] \subseteq OnList(disk.list, q)
    BY <1>1, <1>2, <1>3, IdleFields DEF GrantedSaved
  <2>1. owed.granted[q] \subseteq OnList(disk.list, q)
    BY <1>1 DEF StayInv, GrantedSaved
  <2>2. q = p /\ ~job.update => 0 \in OnList(disk.list, q)
    BY <1>1, <1>3 DEF StayInv, GrantedSaved
  <2> QED BY <1>2, <2>1, <2>2, Types
<1> QED BY <1>4, <1>5, <1>6, <1>7, <1>8, <1>9 DEF StayInv

LEMMA SnapshotStay == ASSUME TypeInv, StayInv, Snapshot PROVE StayInv'
<1>1. /\ disk' = disk /\ cache' = cache /\ saver' = saver /\ users' = users /\ removing' = removing
      /\ owed' = owed /\ receivers' = receivers
      /\ job.step = "snapshot" /\ job' = [job EXCEPT !.step = "write", !.snap = cache]
  BY DEF Snapshot, At, people
<1>2. /\ job'.step = "write" /\ job'.snap = cache /\ job'.pkg = job.pkg /\ job'.op = job.op
      /\ job'.update = job.update /\ job'.setting = job.setting
  BY <1>1 DEF TypeInv, TypeOK, JobOK
<1>3. /\ ~HasUid /\ ~HasUid' /\ Exposed /\ Exposed'
      /\ job.step \in LastSteps /\ job'.step \in LastSteps
  BY <1>1, <1>2 DEF HasUid, Saving, Exposed, ExposedSteps, LastSteps
<1>4. \A q : /\ Installed(q)' = Installed(q) /\ InHand(q)' = InHand(q)
             /\ OnList(disk.list, q)' = OnList(disk.list, q)
  BY <1>1, <1>2, <1>3 DEF Installed, InHand, OnList
<1>5. JobPlanned'
  BY <1>1, <1>2, <1>3 DEF StayInv, JobPlanned, First
<1>6. GrantedHeld'
  BY <1>1, <1>2, <1>4 DEF StayInv, GrantedHeld, First
<1>7. Registered'
  BY <1>1, <1>2 DEF StayInv, Registered, First
<1>8. FilesWhole'
  BY <1>1, <1>2, <1>3, <1>4 DEF StayInv, FilesWhole
<1>9. SnapsCover'
  <2>1. Covers(job.snap)'
    BY <1>1, <1>2 DEF Covers
  <2> QED BY <1>1, <1>3, <2>1 DEF StayInv, SnapsCover
<1>10. GrantedSaved'
  BY <1>1, <1>2, <1>4 DEF StayInv, GrantedSaved
<1> QED BY <1>5, <1>6, <1>7, <1>8, <1>9, <1>10 DEF StayInv

\* What is granted is on a list that covers the memory.
LEMMA CoveredHasGranted ==
    ASSUME TypeInv, StayInv, ~HasUid, NEW l, Covers(l), NEW q \in Package
    PROVE  Installed(q) \subseteq OnList(l, q) /\ owed.granted[q] \subseteq OnList(l, q)
<1>1. Installed(q) \subseteq OnList(l, q)
  BY DEF Covers, Installed, OnList
<1> QED BY <1>1 DEF StayInv, GrantedHeld

LEMMA SnapshotOutsideStay == ASSUME TypeInv, StayInv, SnapshotOutside PROVE StayInv'
<1>1. /\ disk' = disk /\ cache' = cache /\ job' = job /\ users' = users /\ removing' = removing
      /\ receivers' = receivers /\ saver'.snap = cache
  BY DEF SnapshotOutside, people
<1>2. /\ owed'.cut = owed.cut /\ owed'.broken = owed.broken /\ owed'.granted = owed.granted
      /\ owed'.mixed = (owed.mixed \/ Exposed)
  BY DEF SnapshotOutside, TypeInv, TypeOK, History
<1>3. SnapsCover'
  <2>1. Covers(saver.snap)' /\ Covers(job.snap)' = Covers(job.snap)
    BY <1>1 DEF Covers
  <2> QED BY <1>1, <1>2, <2>1 DEF StayInv, SnapsCover, Exposed
<1> QED BY <1>1, <1>2, <1>3, ZenonT(40)
        DEF StayInv, JobPlanned, GrantedHeld, Registered, FilesWhole, GrantedSaved, Installed, InHand,
            OnList, HasUid, Saving, First, LastSteps

LEMMA WriteOutsideStay == ASSUME TypeInv, StayInv, WriteOutside PROVE StayInv'
<1>1. /\ cache' = cache /\ job' = job /\ users' = users /\ removing' = removing
      /\ receivers' = receivers /\ saver.on /\ ~saver'.on
  BY DEF WriteOutside, people, NoSave
<1>2. /\ owed'.broken = owed.broken /\ owed'.granted = owed.granted
      /\ owed'.mixed => owed.mixed
      /\ ~owed'.mixed => ~owed.mixed \/ (saver.snap = cache /\ ~Exposed)
  BY DEF WriteOutside, Written, TypeInv, TypeOK, History
<1>3. disk'.list = saver.snap /\ disk'.files = disk.files
  BY DEF WriteOutside, TypeInv, TypeOK, DiskOK
<1>4. SnapsCover'
  <2>1. Covers(job.snap)' = Covers(job.snap)
    BY <1>1 DEF Covers
  <2> QED BY <1>1, <2>1 DEF StayInv, SnapsCover
<1>5. GrantedSaved'
  <2> SUFFICES ASSUME ~owed'.mixed PROVE GrantedSaved'
    BY DEF GrantedSaved
  <2>1. Covers(saver.snap) /\ ~Exposed
    BY <1>1, <1>2 DEF StayInv, SnapsCover, Covers
  <2>2. ~HasUid
    BY <2>1 DEF Exposed, ExposedSteps, HasUid, Saving
  <2>3. \A q \in Package : /\ owed'.granted[q] \subseteq OnList(disk'.list, q)
                           /\ Installed(q) \subseteq OnList(disk'.list, q)
    BY <1>2, <1>3, <2>1, <2>2, CoveredHasGranted
  <2>4. job.step = "start" => job.update \/ 0 \in Installed(job.pkg)
    BY DEF StayInv, JobPlanned, First, LastSteps, Installed
  <2>5. InHand(job.pkg) /\ job.step = "start" => job.update \/ 0 \in OnList(disk'.list, job.pkg)
    BY <2>3, <2>4, Types
  <2>6. \A q : OnList(disk.list, q)' = OnList(disk'.list, q)
    BY DEF OnList
  <2> QED BY <1>1, <2>3, <2>5, <2>6 DEF GrantedSaved, InHand
<1> QED BY <1>1, <1>2, <1>3, <1>4, <1>5
        DEF StayInv, JobPlanned, GrantedHeld, Registered, FilesWhole, Installed, InHand,
            OnList, HasUid, Saving, First, LastSteps

LEMMA WriteStay == ASSUME TypeInv, StayInv, Write PROVE StayInv'
<1> DEFINE p == job.pkg
<1>1. /\ cache' = cache /\ saver' = saver /\ users' = users /\ removing' = removing
      /\ receivers' = receivers /\ job.step = "write" /\ p \in Package /\ p \in DOMAIN cache
      /\ ~HasUid /\ Exposed /\ job.step \in LastSteps /\ Covers(job.snap)
      /\ job' = IF job.op = "install" THEN [job EXCEPT !.step = "start", !.snap = Empty] ELSE Idle
  BY Types DEF Write, At, people, StayInv, JobPlanned, HasUid, Saving, LastSteps, SnapsCover,
               Exposed, ExposedSteps
<1>2. /\ job.op = "install" =>
            /\ job'.step = "start" /\ job'.pkg = p /\ job'.op = "install" /\ job'.update = job.update
      /\ job.op # "install" => /\ job' = Idle /\ job'.step = "idle" /\ job'.pkg = NoPackage
                               /\ job'.op = "install" /\ ~job'.update /\ ~job.update
  BY <1>1, IdleFields DEF TypeInv, TypeOK, JobOK, StayInv, JobPlanned
<1>3. /\ ~HasUid' /\ ~Exposed' /\ job'.step \notin {"copyLibs", "copyApk", "uid", "deleteFiles", "uncache"}
      /\ job'.step \in LastSteps => job'.step = "start" /\ job.op = "install"
      /\ NoPackage \notin Package
  BY <1>2, PackageStoreAssumption DEF HasUid, Saving, Exposed, ExposedSteps, LastSteps
<1>4. /\ owed'.broken = owed.broken
      /\ \/ owed'.granted = owed.granted
         \/ /\ job.op = "user"
            /\ owed'.granted = [owed.granted EXCEPT ![p] =
                                  @ \cup (({job.user} \cap cache[p].installed) \ removing)]
  <2>1. \A h \in History :
           /\ EndOfWrite(h).broken = h.broken /\ EndOfWrite(h).cut = h.cut /\ EndOfWrite(h).mixed = h.mixed
           /\ \/ EndOfWrite(h).granted = h.granted
              \/ /\ job.op = "user"
                 /\ EndOfWrite(h).granted = [h.granted EXCEPT ![p] =
                                       @ \cup (({job.user} \cap cache[p].installed) \ removing)]
    BY Types DEF EndOfWrite, History
  <2>2. [owed EXCEPT !.cut = TRUE] \in History /\ Written(job.snap, saver.on, owed) \in History
    BY DEF TypeInv, TypeOK, History, Written
  <2>3. \E h \in History : /\ owed' = EndOfWrite(h)
                           /\ h.broken = owed.broken /\ h.granted = owed.granted
    BY <2>2 DEF Write, Written, TypeInv, TypeOK, History
  <2> QED
    BY <2>1, <2>3
<1>5. \/ disk'.list = job.snap /\ (~owed'.mixed => ~owed.mixed \/ ~saver.on)
      \/ owed'.cut /\ owed'.mixed = owed.mixed
  <2>1. \A h \in History : EndOfWrite(h).cut = h.cut /\ EndOfWrite(h).mixed = h.mixed
    BY Types DEF EndOfWrite, History
  <2>2. [owed EXCEPT !.cut = TRUE] \in History /\ Written(job.snap, saver.on, owed) \in History
    BY DEF TypeInv, TypeOK, History, Written
  <2>3. /\ ~Written(job.snap, saver.on, owed).mixed => ~owed.mixed \/ ~saver.on
        /\ [owed EXCEPT !.cut = TRUE].cut /\ [owed EXCEPT !.cut = TRUE].mixed = owed.mixed
    BY DEF TypeInv, TypeOK, History, Written
  <2>4. \/ disk' = [disk EXCEPT !.list = job.snap] /\ owed' = EndOfWrite(Written(job.snap, saver.on, owed))
        \/ owed' = EndOfWrite([owed EXCEPT !.cut = TRUE])
    BY DEF Write
  <2>5. [disk EXCEPT !.list = job.snap].list = job.snap
    BY DEF TypeInv, TypeOK, DiskOK
  <2> QED BY <2>1, <2>2, <2>3, <2>4, <2>5
<1>6. disk'.files = disk.files
  BY DEF Write, TypeInv, TypeOK, DiskOK
<1>7. \A q \in Package : Installed(q)' = Installed(q) /\ InHand(q)' = InHand(q)
  BY <1>1, <1>2, <1>3 DEF Installed, InHand
<1>8. JobPlanned'
  BY <1>1, <1>2, <1>3 DEF StayInv, JobPlanned, First
<1>9. GrantedHeld'
  <2>1. \A q \in Package : owed'.granted[q] \subseteq Installed(q) \ removing
    BY <1>1, <1>4, Types DEF StayInv, GrantedHeld, Installed
  <2>2. First' /\ job'.step # "idle" => job.op = "install" /\ owed.granted[p] = {} /\ job'.pkg = p
    BY <1>1, <1>2 DEF First, StayInv, GrantedHeld
  <2> QED BY <1>1, <1>4, <1>7, <2>1, <2>2 DEF GrantedHeld
<1>10. Registered'
  BY <1>1, <1>2, <1>3 DEF StayInv, Registered, First
<1>11. FilesWhole'
  <2>1. \A q \in Package : InHand(q) => job'.step = "start"
    BY <1>2 DEF InHand
  <2> QED BY <1>1, <1>3, <1>4, <1>6, <1>7, <2>1 DEF StayInv, FilesWhole
<1>12. SnapsCover'
  <2>1. saver.on => owed'.mixed
    BY <1>1, <1>5 DEF StayInv, SnapsCover
  <2> QED BY <1>1, <1>2, <2>1 DEF SnapsCover
<1>13. GrantedSaved'
  <2> SUFFICES ASSUME ~owed'.cut PROVE GrantedSaved'
    BY DEF GrantedSaved
  <2>1. \A q \in Package : Installed(q) \subseteq OnList(disk.list, q)'
    BY <1>1, <1>5, CoveredHasGranted DEF OnList
  <2>2. \A q \in Package : owed'.granted[q] \subseteq OnList(disk.list, q)'
    BY <1>7, <1>9, <2>1 DEF GrantedHeld
  <2>3. First => 0 \in Installed(p)
    BY <1>1 DEF StayInv, JobPlanned, Installed
  <2> QED BY <1>1, <1>2, <1>7, <2>1, <2>2, <2>3 DEF GrantedSaved, InHand, First
<1> QED BY <1>8, <1>9, <1>10, <1>11, <1>12, <1>13 DEF StayInv

\* An operation of one user on a package that is in the cache.
LEMMA ForUserStay ==
    ASSUME TypeInv, StayInv, job.step = "idle", NEW p \in DOMAIN cache, NEW op \in {"user", "less"},
           disk' = disk, receivers' = receivers, saver' = saver, removing' = removing,
           job'.step = "snapshot", job'.pkg = p, job'.op = op, ~job'.update,
           DOMAIN cache' = DOMAIN cache, \A q \in DOMAIN cache : q # p => cache'[q] = cache[q],
           owed'.cut = owed.cut, owed'.broken = owed.broken, owed'.mixed = (owed.mixed \/ saver.on),
           \A q \in Package : owed'.granted[q] \subseteq owed.granted[q],
           owed'.granted[p] \subseteq cache'[p].installed \ removing
    PROVE  StayInv'
<1>1. p \in Package
  BY Types
<1>2. /\ ~HasUid' /\ ~First' /\ job'.step \notin {"idle", "write", "start"}
      /\ \A q : OnList(disk.list, q)' = OnList(disk.list, q) /\ ~InHand(q)'
  BY DEF HasUid, Saving, First, OnList, InHand
<1>3. JobPlanned'
  BY <1>2 DEF JobPlanned
<1>4. GrantedHeld'
  <2> SUFFICES ASSUME NEW q \in Package PROVE owed'.granted[q] \subseteq Installed(q)' \ removing
    BY <1>2 DEF GrantedHeld
  <2>1. owed.granted[q] \subseteq Installed(q) \ removing
    BY DEF StayInv, GrantedHeld
  <2>2. q # p => Installed(q)' = Installed(q)
    BY <1>2, AtRest DEF Installed
  <2>3. q = p => Installed(q)' = cache'[p].installed
    BY DEF Installed
  <2> QED BY <2>1, <2>2, <2>3
<1>5. Registered'
  BY AtRest DEF Registered
<1>6. FilesWhole'
  BY <1>2, AtRest DEF StayInv, FilesWhole
<1>7. SnapsCover'
  BY <1>2 DEF SnapsCover
<1>8. GrantedSaved'
  <2> SUFFICES ASSUME ~owed.cut, ~owed.mixed, NEW q \in Package \ owed.broken
               PROVE  owed'.granted[q] \subseteq OnList(disk.list, q)
    BY <1>2 DEF GrantedSaved
  <2>1. owed.granted[q] \subseteq OnList(disk.list, q)
    BY AtRest DEF StayInv, GrantedSaved
  <2> QED BY <2>1
<1> QED BY <1>3, <1>4, <1>5, <1>6, <1>7, <1>8 DEF StayInv

LEMMA InstallPackageAsUserStay ==
    ASSUME TypeInv, StayInv, NEW p \in Package, NEW u \in UserId, InstallPackageAsUser(p, u)
    PROVE  StayInv'
<1>1. /\ job.step = "idle" /\ p \in DOMAIN cache
      /\ disk' = disk /\ receivers' = receivers /\ saver' = saver /\ removing' = removing
      /\ job' = [Idle EXCEPT !.step = "snapshot", !.pkg = p, !.op = "user", !.user = u]
      /\ cache' = [cache EXCEPT ![p].installed = @ \cup {u}]
  BY DEF InstallPackageAsUser, At, people
<1>2. job'.step = "snapshot" /\ job'.pkg = p /\ job'.op = "user" /\ ~job'.update
  BY <1>1 DEF Idle
<1>3. /\ DOMAIN cache' = DOMAIN cache /\ \A q \in DOMAIN cache : q # p => cache'[q] = cache[q]
      /\ cache[p].installed \subseteq cache'[p].installed
  BY <1>1, Types DEF Setting
<1>4. /\ owed'.granted = owed.granted /\ owed'.cut = owed.cut /\ owed'.broken = owed.broken
      /\ owed'.mixed = (owed.mixed \/ saver.on)
  BY DEF InstallPackageAsUser, TypeInv, TypeOK, History
<1>5. owed.granted[p] \subseteq cache[p].installed \ removing
  BY <1>1, AtRest DEF StayInv, GrantedHeld
<1> QED BY <1>1, <1>2, <1>3, <1>4, <1>5, ForUserStay

LEMMA UninstallFullyStay ==
    ASSUME TypeInv, StayInv, job.step = "idle", NEW p \in DOMAIN cache, UninstallPackageFully(p)
    PROVE  StayInv'
<1>1. /\ disk' = disk /\ cache' = cache /\ saver' = saver /\ removing' = removing
      /\ receivers' = [receivers EXCEPT ![p] = 0]
      /\ job' = [Idle EXCEPT !.step = "deleteFiles", !.pkg = p] /\ p \in Package
  BY Types DEF UninstallPackageFully, people
<1>2. job'.step = "deleteFiles" /\ job'.pkg = p /\ job'.op = "install" /\ ~job'.update
  BY <1>1 DEF Idle
<1>3. /\ owed'.cut = owed.cut /\ owed'.broken = owed.broken /\ owed'.mixed = owed.mixed
      /\ owed'.granted = [owed.granted EXCEPT ![p] = {}]
  BY DEF UninstallPackageFully, TypeInv, TypeOK, History
<1>4. /\ ~HasUid' /\ First' /\ job'.step \notin LastSteps /\ ~Exposed'
      /\ job'.step \notin {"idle", "write", "start", "uncache", "uid"}
      /\ \A q : OnList(disk.list, q)' = OnList(disk.list, q) /\ InHand(q)' = (q = p)
  BY <1>1, <1>2 DEF HasUid, Saving, First, OnList, InHand, LastSteps, Exposed, ExposedSteps
<1>5. JobPlanned'
  BY <1>1, <1>2, <1>4 DEF JobPlanned
<1>6. GrantedHeld'
  <2>1. \A q \in Package : owed'.granted[q] \subseteq owed.granted[q] /\ owed'.granted[p] = {}
    BY <1>1, <1>3, Types
  <2>2. \A q \in Package : Installed(q)' = Installed(q)
    BY <1>1, <1>4, AtRest DEF Installed
  <2> QED BY <1>1, <1>2, <2>1, <2>2 DEF StayInv, GrantedHeld
<1>7. Registered'
  BY <1>1, <1>2, <1>4, AtRest, Types DEF Registered
<1>8. FilesWhole'
  BY <1>1, <1>2, <1>3, <1>4, AtRest DEF StayInv, FilesWhole
<1>9. SnapsCover'
  <2>1. Covers(saver.snap)' = Covers(saver.snap)
    BY <1>1 DEF Covers
  <2>2. saver' = saver /\ owed'.mixed = owed.mixed
    BY <1>1, <1>3
  <2> QED BY <1>4, <2>1, <2>2 DEF StayInv, SnapsCover
<1>10. GrantedSaved'
  <2> SUFFICES ASSUME ~owed.cut, ~owed.mixed, NEW q \in Package \ owed.broken, q # p
               PROVE  owed'.granted[q] \subseteq OnList(disk.list, q)
    BY <1>3, <1>4 DEF GrantedSaved
  <2>1. owed.granted[q] \subseteq OnList(disk.list, q)
    BY AtRest DEF StayInv, GrantedSaved
  <2> QED BY <1>3, <2>1, Types
<1> QED BY <1>5, <1>6, <1>7, <1>8, <1>9, <1>10 DEF StayInv

LEMMA UninstallPackageStay ==
    ASSUME TypeInv, StayInv, NEW p \in Package, UninstallPackage(p)
    PROVE  StayInv'
  BY UninstallFullyStay DEF UninstallPackage, At

LEMMA UninstallPackageAsUserStay ==
    ASSUME TypeInv, StayInv, NEW p \in Package, NEW u \in UserId, UninstallPackageAsUser(p, u)
    PROVE  StayInv'
<1>1. job.step = "idle" /\ p \in DOMAIN cache
  BY DEF UninstallPackageAsUser, At
<1>2. CASE UninstallPackageFully(p)
  BY <1>1, <1>2, UninstallFullyStay
<1>3. CASE ~UninstallPackageFully(p)
  <2>1. /\ disk' = disk /\ receivers' = receivers /\ saver' = saver /\ removing' = removing
        /\ job' = [Idle EXCEPT !.step = "snapshot", !.pkg = p, !.op = "less", !.user = u]
        /\ cache' = [cache EXCEPT ![p].installed = @ \ {u}]
        /\ owed' = [owed EXCEPT !.granted[p] = @ \ {u}, !.unsaved = TRUE, !.mixed = @ \/ saver.on]
    BY <1>3 DEF UninstallPackageAsUser, people
  <2>2. job'.step = "snapshot" /\ job'.pkg = p /\ job'.op = "less" /\ ~job'.update
    BY <2>1 DEF Idle
  <2>3. /\ DOMAIN cache' = DOMAIN cache /\ \A q \in DOMAIN cache : q # p => cache'[q] = cache[q]
        /\ cache'[p].installed = cache[p].installed \ {u}
    BY <1>1, <2>1, Types DEF Setting
  <2>4. /\ owed'.cut = owed.cut /\ owed'.broken = owed.broken
        /\ owed'.mixed = (owed.mixed \/ saver.on)
        /\ owed'.granted = [owed.granted EXCEPT ![p] = @ \ {u}]
    BY <2>1 DEF TypeInv, TypeOK, History
  <2>5. owed.granted[p] \subseteq cache[p].installed \ removing
    BY <1>1, AtRest DEF StayInv, GrantedHeld
  <2>6. /\ \A q \in Package : owed'.granted[q] \subseteq owed.granted[q]
        /\ owed'.granted[p] = owed.granted[p] \ {u}
    BY <2>4, Types
  <2> QED BY <1>1, <2>1, <2>2, <2>3, <2>4, <2>5, <2>6, ForUserStay
<1> QED BY <1>2, <1>3

LEMMA DeleteFilesStay == ASSUME TypeInv, StayInv, DeleteFiles PROVE StayInv'
<1> DEFINE p == job.pkg
<1>1. /\ cache' = cache /\ saver' = saver /\ removing' = removing /\ receivers' = receivers
      /\ owed' = owed /\ job.step = "deleteFiles" /\ p \in Package /\ p \in DOMAIN cache
      /\ job.op = "install" /\ ~job.update
      /\ job' = [job EXCEPT !.step = "uncache"]
  BY Types DEF DeleteFiles, At, Goto, people, StayInv, JobPlanned
<1>2. /\ job'.step = "uncache" /\ job'.pkg = p /\ job'.op = "install" /\ ~job'.update
  BY <1>1 DEF TypeInv, TypeOK, JobOK
<1>3. /\ disk'.list = disk.list /\ disk'.files[p] = NoFiles
      /\ \A q \in Package : q # p => disk'.files[q] = disk.files[q]
  BY <1>1, Types DEF DeleteFiles, TypeInv, TypeOK, DiskOK
<1>4. /\ ~HasUid /\ ~HasUid' /\ First /\ First' /\ job'.step \notin LastSteps /\ ~Exposed /\ ~Exposed'
      /\ \A q : OnList(disk.list, q)' = OnList(disk.list, q) /\ InHand(q)' = (q = p) /\ InHand(q) = (q = p)
  BY <1>1, <1>2, <1>3 DEF HasUid, Saving, First, OnList, InHand, LastSteps, Exposed, ExposedSteps
<1>5. JobPlanned'
  BY <1>1, <1>2, <1>4 DEF JobPlanned
<1>6. GrantedHeld'
  BY <1>1, <1>2, <1>4 DEF StayInv, GrantedHeld, Installed
<1>7. Registered'
  BY <1>1, <1>2, <1>4 DEF StayInv, Registered
<1>8. FilesWhole'
  BY <1>1, <1>2, <1>3, <1>4 DEF StayInv, FilesWhole
<1>9. SnapsCover'
  <2>1. Covers(saver.snap)' = Covers(saver.snap)
    BY <1>1 DEF Covers
  <2> QED BY <1>1, <1>2, <1>4, <2>1 DEF StayInv, SnapsCover
<1>10. GrantedSaved'
  BY <1>1, <1>2, <1>4 DEF StayInv, GrantedSaved
<1> QED BY <1>5, <1>6, <1>7, <1>8, <1>9, <1>10 DEF StayInv

LEMMA UncacheStay == ASSUME TypeInv, StayInv, Uncache PROVE StayInv'
<1> DEFINE p == job.pkg
<1>1. /\ disk' = disk /\ saver' = saver /\ removing' = removing /\ receivers' = receivers
      /\ job.step = "uncache" /\ p \in Package /\ job.op = "install" /\ ~job.update
      /\ DOMAIN cache' = DOMAIN cache \ {p} /\ \A q \in DOMAIN cache : q # p => cache'[q] = cache[q]
  BY Types DEF Uncache, At, people, StayInv, JobPlanned, Without, Restrict
<1>2. /\ job' = Idle /\ job'.step = "idle" /\ job'.pkg = NoPackage /\ job'.op = "install" /\ ~job'.update
      /\ NoPackage \notin Package
  BY PackageStoreAssumption DEF Idle, Uncache
<1>3. /\ owed'.granted = owed.granted /\ owed'.cut = owed.cut /\ owed'.broken = owed.broken
      /\ owed'.mixed = owed.mixed
  BY DEF Uncache, TypeInv, TypeOK, History
<1>4. /\ ~HasUid /\ ~HasUid' /\ First /\ ~Exposed' /\ job'.step \notin LastSteps
      /\ job'.step \notin {"deleteFiles", "uncache", "write", "start"}
      /\ \A q \in Package : OnList(disk.list, q)' = OnList(disk.list, q) /\ ~InHand(q)' /\ InHand(q) = (q = p)
  BY <1>1, <1>2 DEF HasUid, Saving, First, OnList, InHand, LastSteps, Exposed, ExposedSteps
<1>5. JobPlanned'
  BY <1>2, <1>4 DEF JobPlanned
<1>6. owed.granted[p] = {}
  BY <1>1, <1>4 DEF StayInv, GrantedHeld
<1>7. GrantedHeld'
  <2>1. \A q \in Package : q # p => Installed(q)' = Installed(q)
    BY <1>1, <1>4 DEF Installed
  <2> QED BY <1>1, <1>2, <1>3, <1>6, <2>1 DEF StayInv, GrantedHeld
<1>8. Registered'
  <2>1. ~job'.update
    BY <1>2
  <2> QED BY <1>1, <2>1 DEF StayInv, Registered
<1>9. FilesWhole'
  <2> SUFFICES ASSUME NEW q \in Package \ owed.broken
               PROVE  /\ disk.files[q] \in {AllFiles, NoFiles}
                      /\ q \in DOMAIN cache' => disk.files[q] = AllFiles
    BY <1>1, <1>3, <1>4 DEF FilesWhole
  <2> QED BY <1>1, <1>4 DEF StayInv, FilesWhole
<1>10. SnapsCover'
  <2>1. Covers(saver.snap) => Covers(saver.snap)'
    BY <1>1 DEF Covers
  <2>2. saver' = saver /\ owed'.mixed = owed.mixed
    BY <1>1, <1>3
  <2> QED BY <1>4, <2>1, <2>2 DEF StayInv, SnapsCover
<1>11. GrantedSaved'
  <2> SUFFICES ASSUME ~owed.cut, ~owed.mixed, NEW q \in Package \ owed.broken
               PROVE  owed.granted[q] \subseteq OnList(disk.list, q)
    BY <1>3, <1>4 DEF GrantedSaved
  <2> QED BY <1>4, <1>6 DEF StayInv, GrantedSaved
<1> QED BY <1>5, <1>7, <1>8, <1>9, <1>10, <1>11 DEF StayInv

LEMMA CreateUserStay ==
    ASSUME TypeInv, StayInv, NEW u \in User, CreateUser(u)
    PROVE  StayInv'
<1>1. /\ disk' = disk /\ cache' = cache /\ job' = job /\ saver' = saver /\ receivers' = receivers
      /\ removing' = removing
  BY DEF CreateUser
<1>2. /\ owed'.granted = owed.granted /\ owed'.cut = owed.cut /\ owed'.broken = owed.broken
      /\ owed'.mixed = owed.mixed
  BY DEF CreateUser, TypeInv, TypeOK, History
<1> QED BY <1>1, <1>2
        DEF StayInv, JobPlanned, GrantedHeld, Registered, FilesWhole, SnapsCover, GrantedSaved,
            Installed, InHand, OnList, HasUid, Saving, First, LastSteps, Covers, Exposed

\* Less is granted and more users are going.
LEMMA RemoveUserStay ==
    ASSUME TypeInv, StayInv, NEW u \in User, RemoveUser(u)
    PROVE  StayInv'
<1>1. /\ disk' = disk /\ cache' = cache /\ job' = job /\ saver' = saver /\ receivers' = receivers
      /\ removing' = removing \cup {u}
  BY DEF RemoveUser
<1>2. /\ owed'.cut = owed.cut /\ owed'.broken = owed.broken
      /\ owed'.mixed = owed.mixed /\ owed'.granted = [p \in Package |-> owed.granted[p] \ {u}]
  BY DEF RemoveUser, TypeInv, TypeOK, History
<1>3. \A p \in Package : owed'.granted[p] = owed.granted[p] \ {u}
  BY <1>2
<1>4. \A p : Installed(p)' = Installed(p) /\ InHand(p)' = InHand(p)
             /\ OnList(disk.list, p)' = OnList(disk.list, p)
  BY <1>1 DEF Installed, InHand, OnList, HasUid, Saving
<1>5. First' = First
  BY <1>1 DEF First
<1>6. GrantedHeld'
  <2>1. First' /\ job'.step # "idle" => owed'.granted[job'.pkg] = {}
    BY <1>1, <1>3, <1>5, Types DEF StayInv, GrantedHeld
  <2> QED BY <1>1, <1>3, <1>4, <2>1 DEF StayInv, GrantedHeld
<1>7. GrantedSaved'
  BY <1>1, <1>2, <1>3, <1>4 DEF StayInv, GrantedSaved
<1> QED BY <1>1, <1>2, <1>4, <1>5, <1>6, <1>7
        DEF StayInv, JobPlanned, Registered, FilesWhole, SnapsCover,
            HasUid, Saving, LastSteps, Covers, Exposed

LEMMA RemoveUserStateStay ==
    ASSUME TypeInv, StayInv, NEW u \in User, RemoveUserState(u)
    PROVE  StayInv'
<1>1. /\ disk' = disk /\ job' = job /\ saver' = saver /\ receivers' = receivers
      /\ removing' = removing \ {u} /\ u \in removing /\ u # 0
      /\ DOMAIN cache' = DOMAIN cache
      /\ \A p \in DOMAIN cache : cache'[p].installed = cache[p].installed \ {u}
  BY Types, PackageStoreAssumption DEF RemoveUserState, StillRemoving, CleanUpUser, Setting
<1>2. /\ owed'.granted = owed.granted /\ owed'.cut = owed.cut /\ owed'.broken = owed.broken
      /\ owed'.mixed = owed.mixed
  BY DEF RemoveUserState, TypeInv, TypeOK, History
<1>3. \A p : InHand(p)' = InHand(p) /\ OnList(disk.list, p)' = OnList(disk.list, p)
  BY <1>1 DEF InHand, OnList
<1>4. HasUid' = HasUid /\ First' = First
  BY <1>1 DEF HasUid, Saving, First
<1>5. \A p : Installed(p) \ {u} \subseteq Installed(p)'
  BY <1>1, <1>4 DEF Installed
<1>6. GrantedHeld'
  BY <1>1, <1>2, <1>4, <1>5 DEF StayInv, GrantedHeld
<1>7. JobPlanned'
  BY <1>1, <1>4 DEF StayInv, JobPlanned
<1>8. SnapsCover'
  <2>1. \A l : Covers(l) => Covers(l)'
    BY <1>1 DEF Covers
  <2> QED BY <1>1, <1>2, <2>1 DEF StayInv, SnapsCover, Exposed
<1>9. GrantedSaved'
  BY <1>1, <1>2, <1>3 DEF StayInv, GrantedSaved
<1>10. Registered' /\ FilesWhole'
  BY <1>1, <1>2, <1>3, <1>4 DEF StayInv, Registered, FilesWhole
<1> QED BY <1>6, <1>7, <1>8, <1>9, <1>10 DEF StayInv

\* A death touches the files of the package in hand, and no others.
LEMMA CutShortFiles ==
    ASSUME TypeInv, StayInv, NEW d \in CutShort, NEW p \in Package, ~InHand(p)
    PROVE  d.files[p] = disk.files[p]
<1>1. PICK c \in CutFiles, l \in CutLists : d = [c EXCEPT !.list = l]
  BY DEF CutShort
<1>2. job.step \in {"copyApk", "writeIni", "deleteFiles"} => p # job.pkg
  BY DEF InHand, StayInv, JobPlanned
<1>3. CASE c = disk
  BY <1>1, <1>3 DEF TypeInv, TypeOK, DiskOK
<1>4. CASE c = [disk EXCEPT !.bak = TornUids(0)] \/ \E n : c = [disk EXCEPT !.uids = TornUids(n)]
  BY <1>1, <1>4 DEF TypeInv, TypeOK, DiskOK
<1>5. CASE p # job.pkg /\ \E f : c = [disk EXCEPT !.files[job.pkg] = f]
  BY <1>1, <1>5 DEF TypeInv, TypeOK, DiskOK
<1> QED
  BY <1>1, <1>2, <1>3, <1>4, <1>5 DEF CutFiles, At

LEMMA RestartStay == ASSUME TypeInv, StayInv, Restart PROVE StayInv'
<1>1. PICK d \in CutShort :
        /\ disk' = [d EXCEPT !.files = CleanedUp(d)]
        /\ cache' = Restrict(d.list, Loadable(d))
        /\ receivers' = [p \in Package |-> IF p \in Loadable(d) THEN 1 ELSE 0]
        /\ owed' = OwedAfter(d)
  BY DEF Restart
<1>2. /\ d = [list |-> d.list, uids |-> d.uids, bak |-> d.bak, files |-> d.files]
      /\ AreSettings(d.list)
      /\ d.files \in [Package -> [apk : BOOLEAN, lib : BOOLEAN, ini : BOOLEAN]]
  BY CutShortType
<1>3. /\ job' = Idle /\ job'.step = "idle" /\ job'.pkg = NoPackage /\ job'.op = "install" /\ ~job'.update
      /\ NoPackage \notin Package /\ removing' = {} /\ ~saver'.on
  BY PackageStoreAssumption DEF Restart, Idle, NoSave
<1>4. ~HasUid' /\ job'.step \notin LastSteps
  BY <1>3 DEF HasUid, Saving, LastSteps
<1> DEFINE found(p) == IF p \in Loadable(d) THEN d.list[p].installed ELSE {}
           lost(p) == owed.cut \/ d.list # disk.list \/ owed.mixed \/ p \in BrokenNow
<1>5. disk'.list = d.list /\ disk'.files = CleanedUp(d)
  BY <1>1, <1>2
<1>6. /\ Loadable(d) = {p \in DOMAIN d.list : d.files[p].ini}
      /\ DOMAIN cache' = Loadable(d) /\ \A p \in Loadable(d) : cache'[p] = d.list[p]
  BY <1>1, <1>2 DEF Restrict, Loadable
<1>7. /\ owed'.broken = BrokenNow
      /\ owed'.granted = [p \in Package |-> IF lost(p) THEN owed.granted[p] \cap found(p)
                                            ELSE owed.granted[p]]
  BY <1>1 DEF OwedAfter, TypeInv, TypeOK, History
<1>8. \A p \in Package : p \notin BrokenNow => p \notin owed.broken /\ ~InHand(p)
  BY PackageStoreAssumption DEF BrokenNow, InHand
<1>9. \A p \in Package : p \notin BrokenNow =>
         d.files[p] = disk.files[p] /\ d.files[p] \in {AllFiles, NoFiles}
  BY <1>8, CutShortFiles DEF StayInv, FilesWhole
<1>10. \A p \in Package : Installed(p)' = found(p) /\ ~InHand(p)'
                          /\ OnList(disk.list, p)' = OnList(d.list, p)
  BY <1>3, <1>4, <1>5, <1>6 DEF Installed, InHand, OnList
<1>11. \A p \in Package : owed'.granted[p] \subseteq found(p)
  <2> SUFFICES ASSUME NEW p \in Package, ~lost(p), NEW u \in owed.granted[p]
               PROVE  u \in found(p)
    BY <1>7
  <2>1. ~InHand(p) /\ p \notin owed.broken
    BY <1>8
  <2>2. u \in OnList(disk.list, p) /\ u \in Installed(p)
    BY <2>1 DEF StayInv, GrantedSaved, GrantedHeld
  <2>3. HasUid => p # job.pkg
    BY <2>1 DEF InHand, StayInv, JobPlanned, HasUid, Saving
  <2>4. p \in DOMAIN cache
    BY <2>2, <2>3 DEF Installed
  <2>5. d.files[p] = AllFiles
    BY <1>9, <2>1, <2>4 DEF StayInv, FilesWhole
  <2> QED BY <1>6, <2>2, <2>5 DEF OnList, AllFiles
<1>12. JobPlanned'
  BY <1>3, <1>4 DEF JobPlanned
<1>13. GrantedHeld'
  BY <1>3, <1>10, <1>11 DEF GrantedHeld
<1>14. Registered'
  <2>1. DOMAIN cache' \subseteq Package
    BY <1>2, <1>6 DEF AreSettings
  <2> QED BY <1>1, <1>3, <1>6, <2>1 DEF Registered
<1>15. FilesWhole'
  <2> SUFFICES ASSUME NEW p \in Package, p \notin BrokenNow
               PROVE  /\ disk'.files[p] \in {AllFiles, NoFiles}
                      /\ p \in DOMAIN cache' => disk'.files[p] = AllFiles
    BY <1>7, <1>10 DEF FilesWhole
  <2>1. disk'.files[p] = IF p \in DOMAIN d.list \ Loadable(d) THEN NoFiles ELSE d.files[p]
    BY <1>5 DEF CleanedUp
  <2>2. d.files[p] \in {AllFiles, NoFiles} /\ (d.files[p].ini => d.files[p] = AllFiles)
    BY <1>9 DEF NoFiles
  <2>3. p \in DOMAIN cache' => p \in Loadable(d) /\ d.files[p].ini
    BY <1>6
  <2> QED BY <2>1, <2>2, <2>3
<1>16. SnapsCover'
  BY <1>3 DEF SnapsCover
<1>17. GrantedSaved'
  BY <1>3, <1>6, <1>10, <1>11 DEF GrantedSaved, OnList
<1> QED BY <1>12, <1>13, <1>14, <1>15, <1>16, <1>17 DEF StayInv

LEMMA InitStay == Init => StayInv
<1> SUFFICES ASSUME Init PROVE StayInv
  OBVIOUS
<1>1. /\ job = Idle /\ job.step = "idle" /\ job.pkg = NoPackage /\ job.op = "install" /\ ~job.update
      /\ NoPackage \notin Package /\ ~saver.on /\ DOMAIN cache = {}
      /\ \A p \in Package : owed.granted[p] = {} /\ disk.files[p] = NoFiles
  BY PackageStoreAssumption DEF Init, Idle, NoSave, Empty
<1>2. ~HasUid /\ job.step \notin LastSteps /\ \A p \in Package : ~InHand(p)
  BY <1>1 DEF HasUid, Saving, LastSteps, InHand
<1>3. JobPlanned /\ GrantedHeld
  BY <1>1, <1>2 DEF JobPlanned, GrantedHeld
<1>4. Registered /\ FilesWhole
  BY <1>1, <1>2 DEF Registered, FilesWhole
<1>5. SnapsCover /\ GrantedSaved
  BY <1>1, <1>2 DEF SnapsCover, GrantedSaved
<1> QED BY <1>3, <1>4, <1>5 DEF StayInv

\* Every step keeps what is granted.
LEMMA NextStay == ASSUME TypeInv, StayInv, OwnerStays, [Next]_vars PROVE StayInv'
<1>1. CASE UNCHANGED vars
  BY <1>1 DEF vars, people, uids, StayInv, JobPlanned, GrantedHeld, Registered, FilesWhole, SnapsCover,
              GrantedSaved, Installed, InHand, OnList, HasUid, Saving, First, LastSteps, Covers, Exposed
<1>2. CASE Next
  BY <1>2, InstallPackageStay, CopyLibsStay, CopyLibsFailsStay, CopyApkStay, CopyApkFailsStay,
     GetOrCreateUidStay, BackUpStay, WriteUidsStay, WriteIniStay, StartAppStay, SnapshotStay, WriteStay,
     SnapshotOutsideStay, WriteOutsideStay, InstallPackageAsUserStay, UninstallPackageStay,
     UninstallPackageAsUserStay, DeleteFilesStay, UncacheStay, CreateUserStay, RemoveUserStay,
     RemoveUserStateStay, RestartStay
     DEF Next
<1> QED BY <1>1, <1>2

\* Steps that leave the settings, the lists and the users alone.
LEMMA OwnKept ==
    ASSUME TypeInv, OwnInv, cache' = cache, users' = users, 0 \notin removing', disk'.list = disk.list,
           \A p \in Package : owed.asked[p] \subseteq owed'.asked[p],
           owed.unsaved => owed'.unsaved, owed.mixed => owed'.mixed, owed.revived => owed'.revived,
           saver'.on => saver.on /\ saver'.snap = saver.snap,
           HasUid' = HasUid, HasUid => job'.pkg = job.pkg /\ job'.setting = job.setting,
           job'.step = "write" => job.step = "write" /\ job'.snap = job.snap,
           job'.op = "less" => job.op = "less" /\ job'.user = job.user /\ job'.pkg = job.pkg
    PROVE  OwnInv'
<1>1. \A p \in Package : \A S : Own(p, S) => Own(p, S)'
  BY DEF Own
<1>2. HasUid => job.pkg \in Package
  BY Types DEF HasUid, Saving
<1>3. \A l : DOMAIN l \subseteq Package /\ Good(l) => Good(l)'
  BY <1>1 DEF Good
<1>4. OwnerStays' /\ LessGone'
  BY DEF OwnInv, OwnerStays, LessGone
<1>5. InMemoryOwn'
  BY <1>1, <1>2, Types DEF OwnInv, InMemoryOwn
<1>6. ListsOwn'
  <2> SUFFICES ASSUME ~owed.revived, ~owed.unsaved, ~owed.mixed
               PROVE  /\ Good(disk.list)'
                      /\ job'.step = "write" => Good(job.snap)'
                      /\ saver'.on => Good(saver.snap)'
    BY DEF ListsOwn
  <2>1. /\ Good(disk.list) /\ (job.step = "write" => Good(job.snap))
        /\ saver.on => Good(saver.snap)
    BY DEF OwnInv, ListsOwn
  <2>2. Good(disk.list)'
    BY <1>3, <2>1, Types DEF Good
  <2>3. job'.step = "write" => Good(job.snap)'
    BY <1>3, <2>1, Types DEF Good
  <2>4. saver'.on => Good(saver.snap)'
    BY <1>3, <2>1, Types DEF Good
  <2> QED BY <2>2, <2>3, <2>4
<1> QED BY <1>4, <1>5, <1>6 DEF OwnInv

\* Steps of an installation that leave the settings alone.
LEMMA QuietOwn ==
    ASSUME TypeInv, StayInv, OwnInv,
           \/ CopyLibs \/ CopyLibsFails \/ CopyApk \/ CopyApkFails \/ BackUp \/ WriteUids \/ WriteUidsFails
    PROVE  OwnInv'
<1>1. /\ cache' = cache /\ users' = users /\ removing' = removing /\ saver' = saver
      /\ disk'.list = disk.list
  BY DEF CopyLibs, CopyLibsFails, CopyApk, CopyApkFails, BackUp, WriteUids, WriteUidsFails, people,
         TypeInv, TypeOK, DiskOK
<1>2. /\ owed'.asked = owed.asked /\ owed'.unsaved = owed.unsaved /\ owed'.mixed = owed.mixed
      /\ owed'.revived = owed.revived
  BY DEF CopyLibs, CopyLibsFails, CopyApk, CopyApkFails, BackUp, WriteUids, WriteUidsFails, Broken,
         TypeInv, TypeOK, History
<1>3. \/ /\ job.step \in {"copyLibs", "copyApk"}
         /\ job' = Idle
      \/ \E s \in {"copyApk", "uid", "writeUids", "writeIni"} :
            /\ job' = [job EXCEPT !.step = s]
            /\ s \in {"copyApk", "uid"} => job.step \in {"copyLibs", "copyApk"}
            /\ s \in {"writeUids", "writeIni"} => job.step \in {"backUp", "writeUids"}
  BY DEF CopyLibs, CopyLibsFails, CopyApk, CopyApkFails, BackUp, WriteUids, WriteUidsFails, At, Goto
<1>4. /\ HasUid' = HasUid /\ (HasUid => job'.pkg = job.pkg /\ job'.setting = job.setting)
      /\ job'.step # "write"
      /\ job'.op = "less" => job.op = "less" /\ job'.user = job.user /\ job'.pkg = job.pkg
  <2>1. CASE job.step \in {"copyLibs", "copyApk"} /\ job' = Idle
    BY <2>1 DEF Idle, HasUid, Saving
  <2>2. ASSUME NEW s \in {"copyApk", "uid", "writeUids", "writeIni"}, job' = [job EXCEPT !.step = s],
               s \in {"copyApk", "uid"} => job.step \in {"copyLibs", "copyApk"},
               s \in {"writeUids", "writeIni"} => job.step \in {"backUp", "writeUids"}
        PROVE  /\ HasUid' = HasUid /\ (HasUid => job'.pkg = job.pkg /\ job'.setting = job.setting)
               /\ job'.step # "write"
               /\ job'.op = "less" => job.op = "less" /\ job'.user = job.user /\ job'.pkg = job.pkg
    BY <2>2 DEF HasUid, Saving, TypeInv, TypeOK, JobOK
  <2> QED BY <1>3, <2>1, <2>2
<1> QED BY <1>1, <1>2, <1>4, OwnKept DEF OwnInv, OwnerStays

LEMMA InstallPackageOwn ==
    ASSUME TypeInv, StayInv, OwnInv, NEW p \in Package, InstallPackage(p)
    PROVE  OwnInv'
<1>1. /\ cache' = cache /\ users' = users /\ removing' = removing /\ saver' = saver
      /\ disk'.list = disk.list /\ job.step = "idle" /\ ~HasUid
  BY AtRest DEF InstallPackage, At, people, TypeInv, TypeOK, DiskOK
<1>2. /\ owed'.unsaved = owed.unsaved /\ owed'.mixed = owed.mixed /\ owed'.revived = owed.revived
      /\ owed'.asked = [owed.asked EXCEPT ![p] = IF p \in DOMAIN cache THEN @ ELSE {}]
  BY DEF InstallPackage, TypeInv, TypeOK, History
<1>3. job'.step = "copyLibs" /\ job'.op = "install" /\ ~HasUid'
  BY DEF InstallPackage, Idle, HasUid, Saving
<1>4. \A q \in DOMAIN cache : owed'.asked[q] = owed.asked[q]
  BY <1>2, Types
<1>5. \A l : Good(l) => Good(l)'
  BY <1>1, <1>3, <1>4 DEF Good, Own
<1>6. OwnerStays' /\ LessGone'
  BY <1>1, <1>3 DEF OwnInv, OwnerStays, LessGone
<1>7. InMemoryOwn'
  BY <1>1, <1>2, <1>3, <1>4 DEF OwnInv, InMemoryOwn, Own
<1>8. ListsOwn'
  <2> SUFFICES ASSUME ~owed.revived, ~owed.unsaved, ~owed.mixed
               PROVE  Good(disk.list)' /\ (saver.on => Good(saver.snap)')
    BY <1>1, <1>2, <1>3 DEF ListsOwn
  <2>1. Good(disk.list) /\ (saver.on => Good(saver.snap))
    BY DEF OwnInv, ListsOwn
  <2> QED BY <1>1, <1>5, <2>1 DEF Good
<1> QED BY <1>6, <1>7, <1>8 DEF OwnInv

\* The package leaves the cache with its setting in the job's hands.
LEMMA GetOrCreateUidOwn == ASSUME TypeInv, StayInv, OwnInv, GetOrCreateUid PROVE OwnInv'
<1> DEFINE p == job.pkg
<1>1. /\ saver' = saver /\ users' = users /\ removing' = removing
      /\ disk' = disk /\ job.step = "uid" /\ p \in Package /\ job.op = "install" /\ ~HasUid
  BY Types DEF GetOrCreateUid, At, people, StayInv, JobPlanned, HasUid, Saving
<1>2. /\ DOMAIN cache' = DOMAIN cache \ {p}
      /\ \A q \in DOMAIN cache : q # p => cache'[q] = cache[q]
  BY DEF GetOrCreateUid, Without, Restrict
<1>3. /\ owed'.asked = owed.asked /\ owed'.unsaved = owed.unsaved /\ owed'.revived = owed.revived
      /\ owed.mixed => owed'.mixed
  BY DEF GetOrCreateUid, TypeInv, TypeOK, History
<1>4. PICK s \in {"writeIni", "backUp"} :
         \E n : job' = [job EXCEPT !.step = s, !.setting = [OldSetting EXCEPT !.appId = n]]
  BY DEF GetOrCreateUid
<1>5. PICK n : job' = [job EXCEPT !.step = s, !.setting = [OldSetting EXCEPT !.appId = n]]
  BY <1>4
<1>6. [OldSetting EXCEPT !.appId = n].installed = (IF job.update THEN cache[p].installed ELSE {0})
      /\ (job.update => p \in DOMAIN cache)
  <2>1. CASE job.update
    <3>1. p \in DOMAIN cache
      BY <1>1, <2>1 DEF TypeInv, JobKnown
    <3>2. OldSetting \in Setting
      BY <2>1, <3>1, Types DEF OldSetting
    <3> QED BY <2>1, <3>1, <3>2 DEF OldSetting, Setting
  <2>2. CASE ~job.update
    BY <2>2 DEF OldSetting
  <2> QED BY <2>1, <2>2
<1>7. /\ job'.step = s /\ job'.pkg = p /\ job'.op = "install"
      /\ job'.setting.installed = (IF job.update THEN cache[p].installed ELSE {0})
  BY <1>1, <1>5, <1>6 DEF TypeInv, TypeOK, JobOK
<1>8. HasUid' /\ job'.step # "write"
  BY <1>4, <1>7 DEF HasUid, Saving
<1>9. OwnerStays' /\ LessGone'
  BY <1>1, <1>7 DEF OwnInv, OwnerStays, LessGone
<1>10. InMemoryOwn'
  BY <1>1, <1>2, <1>3, <1>6, <1>7 DEF OwnInv, OwnerStays, InMemoryOwn, Own
<1>11. \A l : Good(l) => Good(l)'
  BY <1>1, <1>2, <1>3, <1>7, <1>8 DEF Good, Own
<1>12. ListsOwn'
  <2> SUFFICES ASSUME ~owed.revived, ~owed.unsaved, ~owed.mixed
               PROVE  Good(disk.list)' /\ (saver.on => Good(saver.snap)')
    BY <1>1, <1>3, <1>8 DEF ListsOwn
  <2>1. Good(disk.list) /\ (saver.on => Good(saver.snap))
    BY DEF OwnInv, ListsOwn
  <2> QED BY <1>1, <1>11, <2>1 DEF Good
<1> QED BY <1>9, <1>10, <1>12 DEF OwnInv

LEMMA WriteIniOwn == ASSUME TypeInv, StayInv, OwnInv, WriteIni PROVE OwnInv'
<1> DEFINE p == job.pkg
<1>1. /\ saver' = saver /\ users' = users /\ removing' = removing
      /\ job.step = "writeIni" /\ p \in Package /\ job.op = "install" /\ HasUid
      /\ job' = [job EXCEPT !.step = "snapshot", !.setting = NoSetting]
      /\ cache' = Put(cache, p, job.setting)
  BY Types DEF WriteIni, At, people, StayInv, JobPlanned, HasUid
<1>2. /\ DOMAIN cache' = DOMAIN cache \cup {p} /\ cache'[p] = job.setting
      /\ \A q \in DOMAIN cache : q # p => cache'[q] = cache[q]
  BY <1>1 DEF Put
<1>3. /\ owed'.asked = owed.asked /\ owed'.unsaved = owed.unsaved /\ owed'.revived = owed.revived
      /\ owed'.mixed = owed.mixed
  BY DEF WriteIni, Broken, TypeInv, TypeOK, History
<1>4. disk'.list = disk.list
  BY DEF WriteIni, TypeInv, TypeOK, DiskOK
<1>5. job'.step = "snapshot" /\ job'.op = "install" /\ ~HasUid'
  BY <1>1 DEF TypeInv, TypeOK, JobOK, HasUid, Saving
<1>6. OwnerStays' /\ LessGone'
  BY <1>1, <1>5 DEF OwnInv, OwnerStays, LessGone
<1>7. InMemoryOwn'
  BY <1>1, <1>2, <1>3, <1>5 DEF OwnInv, InMemoryOwn, Own
<1>8. \A l : Good(l) => Good(l)'
  BY <1>1, <1>2, <1>3 DEF Good, Own
<1>9. ListsOwn'
  <2> SUFFICES ASSUME ~owed.revived, ~owed.unsaved, ~owed.mixed
               PROVE  Good(disk.list)' /\ (saver.on => Good(saver.snap)')
    BY <1>1, <1>3, <1>5 DEF ListsOwn
  <2>1. Good(disk.list) /\ (saver.on => Good(saver.snap))
    BY DEF OwnInv, ListsOwn
  <2> QED BY <1>1, <1>4, <1>8, <2>1 DEF Good
<1> QED BY <1>6, <1>7, <1>9 DEF OwnInv

LEMMA StartAppOwn == ASSUME TypeInv, StayInv, OwnInv, StartApp PROVE OwnInv'
<1>1. /\ cache' = cache /\ users' = users /\ removing' = removing /\ saver' = saver /\ disk' = disk
      /\ job.step = "start" /\ job' = Idle
  BY DEF StartApp, At, people
<1>2. /\ owed'.unsaved = owed.unsaved /\ owed'.mixed = owed.mixed
      /\ owed'.revived = owed.revived
      /\ owed'.asked = IF job.update THEN owed.asked
                       ELSE [owed.asked EXCEPT ![job.pkg] = @ \cup {0}]
  BY DEF StartApp, TypeInv, TypeOK, History
<1>3. \A p \in Package : owed.asked[p] \subseteq owed'.asked[p]
  BY <1>2, Types
<1>4. HasUid' = HasUid /\ ~HasUid /\ job'.step # "write" /\ job'.op = "install"
  BY <1>1 DEF HasUid, Saving, Idle
<1>5. /\ cache' = cache /\ users' = users /\ 0 \notin removing' /\ disk'.list = disk.list
      /\ owed.unsaved => owed'.unsaved
      /\ owed.mixed => owed'.mixed
      /\ owed.revived => owed'.revived
      /\ saver'.on => saver.on /\ saver'.snap = saver.snap
  BY <1>1, <1>2 DEF OwnInv, OwnerStays
<1> QED BY <1>3, <1>4, <1>5, OwnKept

LEMMA SnapshotOwn == ASSUME TypeInv, StayInv, OwnInv, Snapshot PROVE OwnInv'
<1>1. /\ disk' = disk /\ cache' = cache /\ saver' = saver /\ users' = users /\ removing' = removing
      /\ owed' = owed
      /\ job.step = "snapshot" /\ job' = [job EXCEPT !.step = "write", !.snap = cache]
  BY DEF Snapshot, At, people
<1>2. /\ job'.snap = cache /\ job'.pkg = job.pkg /\ job'.op = job.op /\ job'.user = job.user
      /\ ~HasUid /\ ~HasUid'
  BY <1>1 DEF TypeInv, TypeOK, JobOK, HasUid, Saving
<1>3. OwnerStays' /\ LessGone'
  BY <1>1, <1>2 DEF OwnInv, OwnerStays, LessGone
<1>4. InMemoryOwn'
  BY <1>1, <1>2 DEF OwnInv, InMemoryOwn, Own
<1>5. \A l : Good(l) => Good(l)'
  BY <1>1, <1>2 DEF Good, Own
<1>6. ListsOwn'
  <2> SUFFICES ASSUME ~owed.revived, ~owed.unsaved, ~owed.mixed
               PROVE  Good(disk.list)' /\ Good(job.snap)' /\ (saver.on => Good(saver.snap)')
    BY <1>1 DEF ListsOwn
  <2>1. Good(disk.list) /\ (saver.on => Good(saver.snap))
    BY DEF OwnInv, ListsOwn
  <2>2. Good(cache)
    BY DEF OwnInv, InMemoryOwn, Good
  <2>3. Good(job.snap)'
    BY <1>2, <1>5, <2>2 DEF Good
  <2> QED BY <1>1, <1>5, <2>1, <2>3 DEF Good
<1> QED BY <1>3, <1>4, <1>6 DEF OwnInv

\* A list that a write leaves behind has nothing that the settings had not.
LEMMA CutOffGood == ASSUME NEW l, NEW m \in CutOff(l) PROVE Good(l) => Good(m)
<1>1. DOMAIN m \subseteq DOMAIN l /\ \A p \in DOMAIN m : m[p] = l[p]
  BY DEF CutOff, Restrict
<1> QED BY <1>1 DEF Good

LEMMA WriteOwn == ASSUME TypeInv, StayInv, OwnInv, Write PROVE OwnInv'
<1> DEFINE p == job.pkg
<1>1. /\ cache' = cache /\ saver' = saver /\ users' = users /\ removing' = removing
      /\ job.step = "write" /\ p \in Package /\ p \in DOMAIN cache /\ ~HasUid
      /\ job' = IF job.op = "install" THEN [job EXCEPT !.step = "start", !.snap = Empty] ELSE Idle
  BY Types DEF Write, At, people, StayInv, JobPlanned, HasUid, Saving, LastSteps
<1>2. job'.step \in {"start", "idle"} /\ job'.op = "install"
  BY <1>1 DEF TypeInv, TypeOK, JobOK, Idle
<1>3. ~HasUid' /\ job'.step # "write"
  BY <1>2 DEF HasUid, Saving
<1>4. \A h \in History :
         /\ EndOfWrite(h).unsaved = h.unsaved /\ EndOfWrite(h).mixed = h.mixed
         /\ EndOfWrite(h).revived = h.revived
         /\ EndOfWrite(h).asked =
               IF job.op = "less" THEN [h.asked EXCEPT ![p] = @ \ {job.user}] ELSE h.asked
  BY Types DEF EndOfWrite, History
<1>5. [owed EXCEPT !.cut = TRUE] \in History /\ Written(job.snap, saver.on, owed) \in History
  BY DEF TypeInv, TypeOK, History, Written
<1>6. \E h \in History : owed' = EndOfWrite(h) /\ h.asked = owed.asked /\ h.revived = owed.revived
  <2>1. owed \in History
    BY DEF TypeInv, TypeOK
  <2>2. CASE owed' = EndOfWrite(Written(job.snap, saver.on, owed))
    <3>1. /\ Written(job.snap, saver.on, owed).asked = owed.asked
          /\ Written(job.snap, saver.on, owed).revived = owed.revived
      BY <2>1 DEF Written, History
    <3> QED BY <1>5, <2>2, <3>1
  <2>3. CASE owed' = EndOfWrite([owed EXCEPT !.cut = TRUE])
    <3>1. /\ [owed EXCEPT !.cut = TRUE].asked = owed.asked
          /\ [owed EXCEPT !.cut = TRUE].revived = owed.revived
      BY <2>1 DEF History
    <3> QED BY <1>5, <2>3, <3>1
  <2> QED BY <2>2, <2>3 DEF Write
<1>7. /\ owed'.revived = owed.revived
      /\ owed'.asked = IF job.op = "less" THEN [owed.asked EXCEPT ![p] = @ \ {job.user}] ELSE owed.asked
  BY <1>4, <1>6
<1>8. \/ /\ disk'.list = job.snap
         /\ ~owed'.unsaved /\ ~owed'.mixed => \/ ~owed.unsaved /\ ~owed.mixed
                                              \/ job.snap = cache /\ ~saver.on
      \/ /\ disk'.list \in CutOff(job.snap)
         /\ owed'.unsaved = owed.unsaved /\ owed'.mixed = owed.mixed
  <2>1. CASE owed' = EndOfWrite(Written(job.snap, saver.on, owed)) /\ disk' = [disk EXCEPT !.list = job.snap]
    <3>1. /\ owed'.unsaved = Written(job.snap, saver.on, owed).unsaved
          /\ owed'.mixed = Written(job.snap, saver.on, owed).mixed
      BY <1>4, <1>5, <2>1
    <3>2. /\ ~Written(job.snap, saver.on, owed).unsaved =>
                ~owed.unsaved \/ (job.snap = cache /\ ~saver.on)
          /\ ~Written(job.snap, saver.on, owed).mixed =>
                ~owed.mixed \/ (job.snap = cache /\ ~saver.on)
      BY DEF Written, TypeInv, TypeOK, History
    <3>3. disk'.list = job.snap
      BY <2>1 DEF TypeInv, TypeOK, DiskOK
    <3> QED BY <3>1, <3>2, <3>3
  <2>2. CASE /\ owed' = EndOfWrite([owed EXCEPT !.cut = TRUE])
             /\ \E l \in CutOff(job.snap) : disk' = [disk EXCEPT !.list = l]
    <3>1. disk'.list \in CutOff(job.snap)
      BY <2>2 DEF TypeInv, TypeOK, DiskOK
    <3>2. owed'.unsaved = [owed EXCEPT !.cut = TRUE].unsaved /\ owed'.mixed = [owed EXCEPT !.cut = TRUE].mixed
      BY <1>4, <1>5, <2>2
    <3>3. [owed EXCEPT !.cut = TRUE].unsaved = owed.unsaved /\ [owed EXCEPT !.cut = TRUE].mixed = owed.mixed
      BY DEF TypeInv, TypeOK, History
    <3> QED BY <3>1, <3>2, <3>3
  <2> QED BY <2>1, <2>2 DEF Write
<1>9. OwnerStays' /\ LessGone'
  BY <1>1, <1>2 DEF OwnInv, OwnerStays, LessGone
<1>10. InMemoryOwn'
  <2>1. job.op = "less" => job.user \notin cache[p].installed
    BY DEF OwnInv, LessGone
  <2>2. \A q \in DOMAIN cache : Own(q, cache[q].installed) => Own(q, cache[q].installed)'
    BY <1>1, <1>7, <2>1, Types DEF Own
  <2> QED BY <1>1, <1>3, <1>7, <2>2 DEF OwnInv, InMemoryOwn
<1>11. ListsOwn'
  <2> SUFFICES ASSUME ~owed'.revived, ~owed'.unsaved, ~owed'.mixed
               PROVE  Good(disk.list)' /\ (saver.on => Good(saver.snap)')
    BY <1>1, <1>3 DEF ListsOwn
  <2>1. CASE ~owed.unsaved /\ ~owed.mixed
    <3>1. Good(job.snap) /\ (saver.on => Good(saver.snap))
      BY <1>1, <1>7, <2>1 DEF OwnInv, ListsOwn
    <3>2. job.op # "less"
      BY <2>1 DEF OwnInv, LessGone
    <3>3. \A l : Good(l) => Good(l)'
      BY <1>1, <1>3, <1>7, <3>2 DEF Good, Own
    <3>4. Good(disk'.list)
      BY <1>8, <3>1, CutOffGood
    <3> QED BY <1>1, <3>1, <3>3, <3>4 DEF Good
  <2>2. CASE disk'.list = cache /\ ~saver.on
    BY <1>1, <1>10, <2>2 DEF InMemoryOwn, Good
  <2> QED BY <1>8, <2>1, <2>2
<1> QED BY <1>9, <1>10, <1>11 DEF OwnInv

LEMMA SnapshotOutsideOwn == ASSUME TypeInv, StayInv, OwnInv, SnapshotOutside PROVE OwnInv'
<1>1. /\ disk' = disk /\ cache' = cache /\ job' = job /\ users' = users /\ removing' = removing
      /\ saver'.snap = cache
  BY DEF SnapshotOutside, people
<1>2. /\ owed'.asked = owed.asked /\ owed'.unsaved = owed.unsaved /\ owed'.revived = owed.revived
      /\ owed.mixed => owed'.mixed
  BY DEF SnapshotOutside, TypeInv, TypeOK, History
<1>3. HasUid' = HasUid
  BY <1>1 DEF HasUid, Saving
<1>4. OwnerStays' /\ LessGone'
  BY <1>1, <1>2 DEF OwnInv, OwnerStays, LessGone
<1>5. InMemoryOwn'
  BY <1>1, <1>2, <1>3 DEF OwnInv, InMemoryOwn, Own
<1>6. \A l : Good(l) => Good(l)'
  BY <1>1, <1>2, <1>3 DEF Good, Own
<1>7. ListsOwn'
  <2> SUFFICES ASSUME ~owed.revived, ~owed.unsaved, ~owed.mixed
               PROVE  Good(disk.list)' /\ (job.step = "write" => Good(job.snap)') /\ Good(saver.snap)'
    BY <1>1, <1>2 DEF ListsOwn
  <2>1. Good(disk.list) /\ (job.step = "write" => Good(job.snap))
    BY DEF OwnInv, ListsOwn
  <2>2. Good(cache)
    BY DEF OwnInv, InMemoryOwn, Good
  <2> QED BY <1>1, <1>6, <2>1, <2>2 DEF Good
<1> QED BY <1>4, <1>5, <1>7 DEF OwnInv

LEMMA WriteOutsideOwn == ASSUME TypeInv, StayInv, OwnInv, WriteOutside PROVE OwnInv'
<1>1. /\ cache' = cache /\ job' = job /\ users' = users /\ removing' = removing
      /\ saver.on /\ ~saver'.on
  BY DEF WriteOutside, people, NoSave
<1>2. /\ owed'.asked = owed.asked /\ owed'.revived = owed.revived
      /\ ~owed'.unsaved => ~owed.unsaved \/ (saver.snap = cache /\ ~Exposed)
      /\ ~owed'.mixed => ~owed.mixed \/ (saver.snap = cache /\ ~Exposed)
  BY DEF WriteOutside, Written, TypeInv, TypeOK, History
<1>3. disk'.list = saver.snap
  BY DEF WriteOutside, TypeInv, TypeOK, DiskOK
<1>4. HasUid' = HasUid
  BY <1>1 DEF HasUid, Saving
<1>5. job.op = "less" => Exposed
  BY Types DEF StayInv, JobPlanned, Exposed, ExposedSteps, Idle
<1>6. OwnerStays' /\ LessGone'
  BY <1>1, <1>2, <1>5 DEF OwnInv, OwnerStays, LessGone
<1>7. InMemoryOwn'
  BY <1>1, <1>2, <1>4 DEF OwnInv, InMemoryOwn, Own
<1>8. \A l : Good(l) => Good(l)'
  BY <1>1, <1>2, <1>4 DEF Good, Own
<1>9. ListsOwn'
  <2> SUFFICES ASSUME ~owed.revived, ~owed'.unsaved, ~owed'.mixed
               PROVE  Good(disk.list)' /\ (job.step = "write" => Good(job.snap)')
    BY <1>1, <1>2 DEF ListsOwn
  <2>1. CASE ~owed.unsaved /\ ~owed.mixed
    <3>1. Good(saver.snap) /\ (job.step = "write" => Good(job.snap))
      BY <1>1, <2>1 DEF OwnInv, ListsOwn
    <3> QED BY <1>1, <1>3, <1>8, <3>1 DEF Good
  <2>2. CASE saver.snap = cache /\ ~Exposed
    <3>1. job.step # "write"
      BY <2>2 DEF Exposed, ExposedSteps
    <3>2. Good(cache)
      BY DEF OwnInv, InMemoryOwn, Good
    <3> QED BY <1>3, <1>8, <2>2, <3>1, <3>2 DEF Good
  <2> QED BY <1>2, <2>1, <2>2
<1> QED BY <1>6, <1>7, <1>9 DEF OwnInv

LEMMA InstallPackageAsUserOwn ==
    ASSUME TypeInv, StayInv, OwnInv, NEW p \in Package, NEW u \in UserId, InstallPackageAsUser(p, u)
    PROVE  OwnInv'
<1>1. /\ job.step = "idle" /\ p \in DOMAIN cache /\ u \in users /\ ~HasUid
      /\ disk' = disk /\ users' = users /\ saver' = saver /\ removing' = removing
      /\ cache' = [cache EXCEPT ![p].installed = @ \cup {u}]
  BY AtRest DEF InstallPackageAsUser, At, people
<1>2. job'.step = "snapshot" /\ job'.op = "user" /\ ~HasUid'
  BY DEF InstallPackageAsUser, Idle, HasUid, Saving
<1>3. /\ DOMAIN cache' = DOMAIN cache /\ \A q \in DOMAIN cache : q # p => cache'[q] = cache[q]
      /\ cache'[p].installed = cache[p].installed \cup {u}
  BY <1>1, Types DEF Setting
<1>4. /\ owed'.unsaved = owed.unsaved /\ owed'.revived = owed.revived
      /\ owed.mixed => owed'.mixed
      /\ owed'.asked = [owed.asked EXCEPT ![p] = @ \cup {u}]
  BY DEF InstallPackageAsUser, TypeInv, TypeOK, History
<1>5. \A q \in Package : owed'.asked[q] = IF q = p THEN owed.asked[p] \cup {u} ELSE owed.asked[q]
  BY <1>4, Types
<1>6. OwnerStays' /\ LessGone'
  BY <1>1, <1>2 DEF OwnInv, OwnerStays, LessGone
<1>7. InMemoryOwn'
  BY <1>1, <1>2, <1>3, <1>4, <1>5, Types DEF OwnInv, InMemoryOwn, Own
<1>8. \A l : Good(l) => Good(l)'
  BY <1>1, <1>2, <1>3, <1>5, Types DEF Good, Own
<1>9. ListsOwn'
  <2> SUFFICES ASSUME ~owed.revived, ~owed.unsaved, ~owed.mixed
               PROVE  Good(disk.list)' /\ (saver.on => Good(saver.snap)')
    BY <1>1, <1>2, <1>4 DEF ListsOwn
  <2>1. Good(disk.list) /\ (saver.on => Good(saver.snap))
    BY DEF OwnInv, ListsOwn
  <2> QED BY <1>1, <1>8, <2>1 DEF Good
<1> QED BY <1>6, <1>7, <1>9 DEF OwnInv

LEMMA UninstallFullyOwn ==
    ASSUME TypeInv, StayInv, OwnInv, job.step = "idle", NEW p \in DOMAIN cache, UninstallPackageFully(p)
    PROVE  OwnInv'
<1>1. /\ cache' = cache /\ users' = users /\ removing' = removing /\ saver' = saver /\ disk' = disk
  BY DEF UninstallPackageFully, people
<1>2. /\ owed'.unsaved = owed.unsaved /\ owed'.mixed = owed.mixed
      /\ owed'.revived = owed.revived /\ owed'.asked = owed.asked
  BY DEF UninstallPackageFully, TypeInv, TypeOK, History
<1>3. HasUid' = HasUid /\ ~HasUid /\ job'.step # "write" /\ job'.op = "install"
  BY DEF UninstallPackageFully, HasUid, Saving, Idle
<1>4. /\ cache' = cache /\ users' = users /\ 0 \notin removing' /\ disk'.list = disk.list
      /\ owed.unsaved => owed'.unsaved
      /\ owed.mixed => owed'.mixed
      /\ owed.revived => owed'.revived
      /\ saver'.on => saver.on /\ saver'.snap = saver.snap
  BY <1>1, <1>2 DEF OwnInv, OwnerStays
<1>5. \A q \in Package : owed.asked[q] \subseteq owed'.asked[q]
  BY <1>2
<1> QED BY <1>3, <1>4, <1>5, OwnKept

LEMMA UninstallPackageOwn ==
    ASSUME TypeInv, StayInv, OwnInv, NEW p \in Package, UninstallPackage(p)
    PROVE  OwnInv'
  BY UninstallFullyOwn DEF UninstallPackage, At

LEMMA UninstallPackageAsUserOwn ==
    ASSUME TypeInv, StayInv, OwnInv, NEW p \in Package, NEW u \in UserId, UninstallPackageAsUser(p, u)
    PROVE  OwnInv'
<1>1. job.step = "idle" /\ p \in DOMAIN cache
  BY DEF UninstallPackageAsUser, At
<1>2. CASE UninstallPackageFully(p)
  BY <1>1, <1>2, UninstallFullyOwn
<1>3. CASE ~UninstallPackageFully(p)
  <2>1. /\ users' = users /\ removing' = removing
        /\ job' = [Idle EXCEPT !.step = "snapshot", !.pkg = p, !.op = "less", !.user = u]
        /\ cache' = [cache EXCEPT ![p].installed = @ \ {u}]
    BY <1>3 DEF UninstallPackageAsUser, people
  <2>2. job'.pkg = p /\ job'.user = u /\ ~HasUid'
    BY <2>1 DEF Idle, HasUid, Saving
  <2>3. /\ DOMAIN cache' = DOMAIN cache /\ \A q \in DOMAIN cache : q # p => cache'[q] = cache[q]
        /\ cache'[p].installed = cache[p].installed \ {u}
    BY <1>1, <2>1, Types DEF Setting
  <2>4. owed'.unsaved /\ owed'.asked = owed.asked /\ owed'.revived = owed.revived
    BY <1>3 DEF UninstallPackageAsUser, TypeInv, TypeOK, History
  <2>5. OwnerStays' /\ LessGone'
    BY <2>1, <2>2, <2>3, <2>4 DEF OwnInv, OwnerStays, LessGone
  <2>6. InMemoryOwn'
    BY <1>1, <2>1, <2>2, <2>3, <2>4 DEF OwnInv, InMemoryOwn, Own
  <2> QED BY <2>4, <2>5, <2>6 DEF OwnInv, ListsOwn
<1> QED BY <1>2, <1>3

LEMMA DeleteFilesOwn == ASSUME TypeInv, StayInv, OwnInv, DeleteFiles PROVE OwnInv'
<1>1. /\ cache' = cache /\ users' = users /\ removing' = removing /\ saver' = saver
      /\ owed' = owed /\ disk'.list = disk.list
      /\ job.step = "deleteFiles" /\ job' = [job EXCEPT !.step = "uncache"]
  BY DEF DeleteFiles, At, Goto, people, TypeInv, TypeOK, DiskOK
<1>2. HasUid' = HasUid /\ ~HasUid /\ job'.step # "write" /\ job'.op = job.op
      /\ job'.pkg = job.pkg /\ job'.user = job.user
  BY <1>1 DEF HasUid, Saving, TypeInv, TypeOK, JobOK
<1> QED BY <1>1, <1>2, OwnKept DEF OwnInv, OwnerStays

LEMMA UncacheOwn == ASSUME TypeInv, StayInv, OwnInv, Uncache PROVE OwnInv'
<1>1. /\ users' = users /\ removing' = removing
      /\ DOMAIN cache' = DOMAIN cache \ {job.pkg}
      /\ \A q \in DOMAIN cache : q # job.pkg => cache'[q] = cache[q]
  BY DEF Uncache, people, Without, Restrict
<1>2. ~HasUid' /\ job'.op = "install"
  BY DEF Uncache, Idle, HasUid, Saving
<1>3. /\ owed'.unsaved /\ owed'.revived = owed.revived
      /\ owed'.asked = [owed.asked EXCEPT ![job.pkg] = {}]
  BY DEF Uncache, TypeInv, TypeOK, History
<1>4. OwnerStays' /\ LessGone'
  BY <1>1, <1>2 DEF OwnInv, OwnerStays, LessGone
<1>5. \A q \in DOMAIN cache' : owed'.asked[q] = owed.asked[q]
  BY <1>1, <1>3, Types
<1>6. InMemoryOwn'
  BY <1>1, <1>2, <1>3, <1>5 DEF OwnInv, InMemoryOwn, Own
<1> QED BY <1>3, <1>4, <1>6 DEF OwnInv, ListsOwn

\* The id is of no one, so nothing can be installed for it.
LEMMA CreateUserOwn ==
    ASSUME TypeInv, StayInv, OwnInv, NEW u \in User, CreateUser(u)
    PROVE  OwnInv'
<1>1. /\ disk' = disk /\ cache' = cache /\ job' = job /\ saver' = saver
      /\ removing' = removing /\ users' = users \cup {u} /\ u \notin users
  BY DEF CreateUser, IsNextId
<1>2. /\ owed'.unsaved = owed.unsaved /\ owed'.mixed = owed.mixed /\ owed'.revived = owed.revived
      /\ owed'.asked = [p \in Package |-> owed.asked[p] \ {u}]
  BY DEF CreateUser, TypeInv, TypeOK, History
<1>3. HasUid' = HasUid
  BY <1>1 DEF HasUid, Saving
<1>4. \A p \in Package : \A S : Own(p, S) => Own(p, S)'
  BY <1>1, <1>2 DEF Own
<1>5. OwnerStays' /\ LessGone'
  BY <1>1, <1>2 DEF OwnInv, OwnerStays, LessGone
<1>6. InMemoryOwn'
  <2>1. HasUid => job.pkg \in Package
    BY Types DEF HasUid, Saving
  <2>2. ~owed.revived => /\ \A p \in DOMAIN cache : Own(p, cache[p].installed)'
                         /\ HasUid => Own(job.pkg, job.setting.installed)'
    BY <1>1, <1>4, <2>1, Types DEF OwnInv, InMemoryOwn
  <2> QED BY <1>1, <1>2, <1>3, <2>2 DEF InMemoryOwn
<1>7. \A l : DOMAIN l \subseteq Package /\ Good(l) => Good(l)'
  BY <1>1, <1>3, <1>4 DEF Good
<1>8. ListsOwn'
  <2> SUFFICES ASSUME ~owed.revived, ~owed.unsaved, ~owed.mixed
               PROVE  /\ Good(disk.list)' /\ (job.step = "write" => Good(job.snap)')
                      /\ saver.on => Good(saver.snap)'
    BY <1>1, <1>2 DEF ListsOwn
  <2>1. /\ Good(disk.list) /\ (job.step = "write" => Good(job.snap))
        /\ saver.on => Good(saver.snap)
    BY DEF OwnInv, ListsOwn
  <2> QED BY <1>1, <1>7, <2>1, Types DEF Good
<1> QED BY <1>5, <1>6, <1>8 DEF OwnInv

LEMMA RemoveUserOwn ==
    ASSUME TypeInv, StayInv, OwnInv, NEW u \in User, RemoveUser(u)
    PROVE  OwnInv'
<1>1. /\ disk' = disk /\ cache' = cache /\ job' = job /\ saver' = saver /\ users' = users
      /\ removing' = removing \cup {u} /\ u # 0
  BY DEF RemoveUser
<1>2. /\ owed'.unsaved = owed.unsaved /\ owed'.mixed = owed.mixed /\ owed'.revived = owed.revived
      /\ owed'.asked = owed.asked
  BY DEF RemoveUser, TypeInv, TypeOK, History
<1>3. HasUid' = HasUid
  BY <1>1 DEF HasUid, Saving
<1> QED BY <1>1, <1>2, <1>3, OwnKept DEF OwnInv, OwnerStays

LEMMA RemoveUserStateOwn ==
    ASSUME TypeInv, StayInv, OwnInv, NEW u \in User, RemoveUserState(u)
    PROVE  OwnInv'
<1>1. /\ job' = job /\ removing' = removing \ {u} /\ users' = users \ {u} /\ u # 0
      /\ DOMAIN cache' = DOMAIN cache
      /\ \A p \in DOMAIN cache : cache'[p].installed = cache[p].installed \ {u}
  BY Types, PackageStoreAssumption DEF RemoveUserState, StillRemoving, CleanUpUser, Setting
<1>2. /\ owed'.unsaved /\ owed'.asked = owed.asked
      /\ ~owed'.revived => ~owed.revived /\ ~(Updating /\ u \in job.setting.installed)
  BY DEF RemoveUserState, TypeInv, TypeOK, History
<1>3. HasUid' = HasUid
  BY <1>1 DEF HasUid, Saving
<1>4. job.op = "less" => job.pkg \in DOMAIN cache
  BY Types DEF StayInv, JobPlanned, LastSteps, Idle
<1>5. OwnerStays' /\ LessGone'
  BY <1>1, <1>2, <1>4 DEF OwnInv, OwnerStays, LessGone
<1>6. HasUid /\ ~owed'.revived => u \notin job.setting.installed
  BY <1>1, <1>2 DEF HasUid, Saving, Updating, StayInv, JobPlanned
<1>7. InMemoryOwn'
  BY <1>1, <1>2, <1>3, <1>6 DEF OwnInv, InMemoryOwn, Own
<1> QED BY <1>2, <1>5, <1>7 DEF OwnInv, ListsOwn

\* A start that finds nothing old of anyone.
LEMMA RestartOwn == ASSUME TypeInv, StayInv, OwnInv, Restart PROVE OwnInv'
<1>1. PICK d \in CutShort :
        /\ disk' = [d EXCEPT !.files = CleanedUp(d)]
        /\ cache' = Restrict(d.list, Loadable(d))
        /\ owed' = OwedAfter(d)
  BY DEF Restart
<1>2. /\ d = [list |-> d.list, uids |-> d.uids, bak |-> d.bak, files |-> d.files]
      /\ AreSettings(d.list) /\ d.list \in CutLists
  BY CutShortType
<1>3. /\ job'.step = "idle" /\ job'.op = "install" /\ removing' = {} /\ ~saver'.on
      /\ users' = users \ removing
  BY DEF Restart, Idle, NoSave
<1>4. ~HasUid'
  BY <1>3 DEF HasUid, Saving
<1>5. disk'.list = d.list
  BY <1>1, <1>2
<1>6. DOMAIN cache' = Loadable(d) /\ Loadable(d) \subseteq DOMAIN d.list
      /\ \A p \in Loadable(d) : cache'[p] = d.list[p]
  BY <1>1, <1>2 DEF Restrict, Loadable
<1>7. /\ owed'.asked = owed.asked
      /\ owed'.unsaved = (Loadable(d) # DOMAIN d.list)
      /\ owed'.revived = (\/ owed.revived \/ owed.unsaved \/ owed.mixed
                          \/ \E p \in Loadable(d) : d.list[p].installed \cap removing # {})
  BY <1>1 DEF OwedAfter, TypeInv, TypeOK, History
<1>8. OwnerStays' /\ LessGone'
  BY <1>3 DEF OwnInv, OwnerStays, LessGone
<1>9. ~owed'.revived => Good(d.list)
  <2> SUFFICES ASSUME ~owed.revived, ~owed.unsaved, ~owed.mixed PROVE Good(d.list)
    BY <1>7
  <2>1. /\ Good(disk.list) /\ (job.step = "write" => Good(job.snap))
        /\ saver.on => Good(saver.snap)
    BY DEF OwnInv, ListsOwn
  <2> QED BY <1>2, <2>1, CutOffGood DEF CutLists, At
<1>10. ~owed'.revived => \A p \in Loadable(d) : Own(p, d.list[p].installed)'
  <2> SUFFICES ASSUME ~owed'.revived, NEW p \in Loadable(d)
               PROVE  d.list[p].installed \subseteq users' /\ d.list[p].installed \ {0} \subseteq owed'.asked[p]
    BY <1>1 DEF Own
  <2>1. Own(p, d.list[p].installed)
    BY <1>6, <1>9 DEF Good
  <2>2. d.list[p].installed \cap removing = {}
    BY <1>7
  <2> QED BY <1>3, <1>7, <2>1, <2>2 DEF Own
<1>11. InMemoryOwn'
  BY <1>4, <1>6, <1>10 DEF InMemoryOwn, Own
<1>12. ListsOwn'
  BY <1>3, <1>4, <1>5, <1>6, <1>7, <1>10 DEF ListsOwn, Good, Own
<1> QED BY <1>8, <1>11, <1>12 DEF OwnInv

LEMMA InitOwn == Init => OwnInv
<1> SUFFICES ASSUME Init PROVE OwnInv
  OBVIOUS
<1>1. /\ users = {0} /\ removing = {} /\ DOMAIN cache = {} /\ DOMAIN disk.list = {} /\ ~saver.on
      /\ job.step = "idle" /\ job.op = "install"
  BY DEF Init, Empty, NoSave, Idle
<1>2. ~HasUid
  BY <1>1 DEF HasUid, Saving
<1> QED BY <1>1, <1>2 DEF OwnInv, OwnerStays, LessGone, InMemoryOwn, ListsOwn, Good

\* Every step keeps everyone's packages their own.
LEMMA NextOwn == ASSUME TypeInv, StayInv, OwnInv, [Next]_vars PROVE OwnInv'
<1>1. CASE UNCHANGED vars
  <2>1. /\ cache' = cache /\ users' = users /\ removing' = removing /\ saver' = saver /\ disk' = disk
        /\ job' = job /\ owed' = owed
    BY <1>1 DEF vars, people
  <2>2. HasUid' = HasUid
    BY <2>1 DEF HasUid, Saving
  <2> QED BY <2>1, <2>2, OwnKept DEF OwnInv, OwnerStays
<1>2. CASE Next
  BY <1>2, QuietOwn, InstallPackageOwn, GetOrCreateUidOwn, WriteIniOwn, StartAppOwn, SnapshotOwn, WriteOwn,
     SnapshotOutsideOwn, WriteOutsideOwn, InstallPackageAsUserOwn, UninstallPackageOwn,
     UninstallPackageAsUserOwn, DeleteFilesOwn, UncacheOwn, CreateUserOwn, RemoveUserOwn,
     RemoveUserStateOwn, RestartOwn
     DEF Next
<1> QED BY <1>1, <1>2

\* The invariant of what is installed.
LEMMA PackagesInvInductive == Spec => []PackagesInv
<1>1. Init => PackagesInv
  BY InitTypeInv, InitStay, InitOwn DEF PackagesInv
<1>2. PackagesInv /\ [Next]_vars => PackagesInv'
  BY NextTypeInv, NextStay, NextOwn DEF PackagesInv, OwnInv
<1> QED BY <1>1, <1>2, PTL DEF Spec

\* What an operation has installed for a user stays, with its files and its
\* receivers, whatever else is installed, removed or saved and wherever the
\* server dies, until someone takes it away (VAppManagerService,
\* PackagePersistenceLayer): it is lost only with the excuses of
\* InstalledStays.
THEOREM InstalledAlwaysStays == Spec => []InstalledStays
<1>1. PackagesInv => InstalledStays
  <2> SUFFICES ASSUME PackagesInv, job.step = "idle", NEW p \in Package, owed.granted[p] # {}
               PROVE  /\ p \in DOMAIN cache
                      /\ owed.granted[p] \subseteq cache[p].installed
                      /\ receivers[p] > 0
                      /\ p \notin owed.broken => disk.files[p] = AllFiles
    BY DEF InstalledStays, At
  <2>1. /\ p \in DOMAIN cache /\ owed.granted[p] \subseteq cache[p].installed
        /\ receivers[p] > 0 /\ ~InHand(p)
    BY AtRest DEF PackagesInv, StayInv, GrantedHeld
  <2> QED BY <2>1 DEF PackagesInv, StayInv, FilesWhole
<1> QED BY <1>1, PackagesInvInductive, PTL

\* No user ever has a package that nobody has installed for it, not even after
\* an id has been given out again or a package has come back, unless a start
\* read a list that was not up to date or a user was removed while an update
\* had the package out of the cache (VAppManagerService, VUserManagerService).
THEOREM ForeignStateNever == Spec => []NoForeignState
<1>1. PackagesInv => NoForeignState
  BY DEF PackagesInv, OwnInv, InMemoryOwn, Own, NoForeignState
<1> QED BY <1>1, PackagesInvInductive, PTL
=============================================================================
