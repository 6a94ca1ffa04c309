------------------------------ MODULE UserManager ------------------------------
(***************************************************************************)
(* server/pm/VUserManagerService: the users in memory, userlist.xml and the *)
(* <id>.xml of each user, the directories of the users, and the server      *)
(* process that may die between any two changes on disk and is then started *)
(* again.                                                                   *)
(*                                                                         *)
(* Every operation runs under mPackagesLock, so its effect on the fields is *)
(* one step; what it does to the disk is left in todo and done one file at a *)
(* time before the lock is free again. A file cut off in the middle is as    *)
(* AtomicFiles says. Writes that fail are not modelled here.                *)
(***************************************************************************)
EXTENDS AtomicFiles, Integers, Sequences, FiniteSetsExt, SequencesExt

CONSTANTS
    ListFile,     \* userlist.xml; the other files are named by the user's id
    MaxId,        \* bound: the largest user id
    MaxCreated,   \* bound: how many users are created
    MaxRemovals,  \* bound: removals of one user that wait for the broadcast
    MaxCrashes    \* bound: how often the process dies

Ids == 0..MaxId
User == [serial : Nat, partial : BOOLEAN, made : 0..MaxCreated]
UserList == [ids : SUBSET Ids, next : Nat, version : 0..1]

ASSUME UserAssumption ==
    /\ {MaxId, MaxCreated, MaxRemovals, MaxCrashes} \subseteq Nat
    /\ None # Torn /\ ListFile \notin Nat
    /\ {None, Torn} \cap (User \cup UserList) = {}

VARIABLES
    phase,              \* "down", "booting" or "up"
    todo,               \* what the operation that has the lock still does
    mUsers,             \* id -> [serial, partial, made]; made stands for creationTime
    mRemovingUserIds, mUserIds, mNextSerialNumber, mNextUserId, mUserVersion,
    removals,           \* id -> removals between finishRemoveUser and its thread
    disk,               \* ListFile or id -> file
    userDir,            \* id -> the users (by made) whose data is in the directory
    created, crashes,   \* counters
    promised,           \* history: <<id, made>> of users returned and not removed since
    removed,            \* history: users whose removeUser returned
    wiped,              \* history: a list that was there was not found
    leftover,           \* history: ids whose directory was to be deleted at a crash
    reissued            \* history: ids given out while a removal of theirs was under way

memory == <<mUsers, mRemovingUserIds, mUserIds, mNextSerialNumber, mNextUserId, mUserVersion>>
history == <<promised, removed, wiped, leftover, reissued>>
vars == <<phase, todo, memory, removals, disk, userDir, created, crashes, history>>

MIN_USER_ID == 1
Nobody == [id \in {} |-> None]
Owner == [serial |-> 0, partial |-> FALSE, made |-> 0]

Complete(users) == {id \in DOMAIN users : ~users[id].partial}
Without(users, ids) == [id \in DOMAIN users \ ids |-> users[id]]

\* getUserInfoLocked returns a user.
Known(id) == id \in DOMAIN mUsers /\ (mUsers[id].partial => id \in mRemovingUserIds)

-----------------------------------------------------------------------------
(* What an operation leaves to do                                          *)

Step(kind, name, value) == [kind |-> kind, file |-> name, value |-> value]
Read(name) == Step("read", name, None)
WriteUser(id, user) == Step("write", id, user)
WriteUserList(users, serial, version) ==
    Step("write", ListFile, [ids |-> DOMAIN users, next |-> serial, version |-> version])

\* Faulty variant: the directory stays.
RemoveUserState_KeepsDir(id, users, serial, version) ==
    <<Step("delete", id, None), WriteUserList(users, serial, version)>>

\* removeUserStateLocked on disk; users is what is left without id.
RemoveUserState(id, users, serial, version) ==
    <<Step("delete", id, None), WriteUserList(users, serial, version), Step("wipe", id, None)>>

Forget ==
    /\ mUsers' = Nobody /\ mRemovingUserIds' = {} /\ mUserIds' = {}
    /\ mNextSerialNumber' = 0 /\ mNextUserId' = MIN_USER_ID /\ mUserVersion' = 0
    /\ removals' = [id \in Ids |-> 0]

Init ==
    /\ phase = "down" /\ todo = <<>>
    /\ mUsers = Nobody /\ mRemovingUserIds = {} /\ mUserIds = {}
    /\ mNextSerialNumber = 0 /\ mNextUserId = MIN_USER_ID /\ mUserVersion = 0
    /\ removals = [id \in Ids |-> 0]
    /\ disk = [f \in Ids \cup {ListFile} |-> NoFile]
    /\ userDir = [id \in Ids |-> {}]
    /\ created = 0 /\ crashes = 0
    /\ promised = {} /\ removed = {} /\ wiped = FALSE /\ leftover = {} /\ reissued = {}

-----------------------------------------------------------------------------
(* The disk, and the death of the process                                  *)

Head1 == todo[1]
Does(kind) == todo # <<>> /\ Head1.kind = kind /\ todo' = Tail(todo)
StillHere == UNCHANGED <<memory, removals, created, crashes>>

WriteFile ==
    /\ Does("write")
    /\ disk' = [disk EXCEPT ![Head1.file] = Written(Head1.value)]
    /\ StillHere /\ UNCHANGED <<phase, userDir, history>>

ReadFile ==
    /\ Does("read")
    /\ disk' = [disk EXCEPT ![Head1.file] = RolledBack(@)]
    /\ StillHere /\ UNCHANGED <<phase, userDir, history>>

DeleteFile ==
    /\ Does("delete")
    /\ disk' = [disk EXCEPT ![Head1.file] = NoFile]
    /\ StillHere /\ UNCHANGED <<phase, userDir, history>>

\* removeDirectoryRecursive
WipeDir ==
    /\ Does("wipe")
    /\ userDir' = [userDir EXCEPT ![Head1.file] = {}]
    /\ StillHere /\ UNCHANGED <<phase, disk, history>>

\* The call returns to its caller.
ReturnUser ==
    /\ Does("created")
    /\ promised' = promised \cup {<<Head1.file, Head1.value>>}
    /\ StillHere /\ UNCHANGED <<phase, disk, userDir, removed, wiped, leftover, reissued>>
ReturnRemoved ==
    /\ Does("removed")
    /\ removed' = removed \cup {Head1.value}
    /\ StillHere /\ UNCHANGED <<phase, disk, userDir, promised, wiped, leftover, reissued>>
\* The states of the file at hand when the process dies.
CutShort(f) ==
    IF todo = <<>> \/ Head1.file # f THEN {disk[f]}
    ELSE CASE Head1.kind = "write"  -> MidWrite(disk[f], Head1.value)
           [] Head1.kind = "read"   -> MidRead(disk[f])
           [] Head1.kind = "delete" -> MidDelete(disk[f])
           [] OTHER                 -> {disk[f]}

Crash ==
    /\ phase # "down" /\ crashes < MaxCrashes
    /\ crashes' = crashes + 1
    /\ \E f \in DOMAIN disk : \E found \in CutShort(f) :
          disk' = [disk EXCEPT ![f] = found]
    /\ leftover' = leftover \cup {todo[i].file : i \in {j \in DOMAIN todo : todo[j].kind = "wipe"}}
    /\ phase' = "down" /\ todo' = <<>>
    /\ Forget
    /\ UNCHANGED <<userDir, created, promised, removed, wiped, reissued>>

-----------------------------------------------------------------------------
(* The constructor                                                         *)

OnList == Visible(disk[ListFile])
Readable == {id \in OnList.ids : Visible(disk[id]) \notin {None, Torn}}

\* mUserListFile.exists() asks for the base file only.
ListFound == disk[ListFile].base # None /\ OnList # Torn

\* fallbackToSingleUserLocked
BootSingleUser ==
    /\ phase = "down" /\ ~ListFound
    /\ phase' = "booting"
    /\ mUsers' = [id \in {0} |-> Owner] /\ mUserIds' = {0}
    /\ mNextSerialNumber' = MIN_USER_ID
    /\ todo' = (IF disk[ListFile].base # None THEN <<Read(ListFile)>> ELSE <<>>)
               \o <<WriteUserList(mUsers', MIN_USER_ID, 0), WriteUser(0, Owner)>>
    /\ wiped' = (wiped \/ OnList \notin {None, Torn})
    /\ UNCHANGED <<mRemovingUserIds, mNextUserId, mUserVersion, removals, disk, userDir>>
    /\ UNCHANGED <<created, crashes, promised, removed, leftover, reissued>>

\* Faulty variant: only the ids of the users that are there are looked at.
NextSerial_OfIds(next, ids) == Max({0} \cup {id + 1 : id \in ids})

NextSerial(next, ids) == Max({next} \cup {id + 1 : id \in ids})

\* Faulty variant: users that were being removed are not looked for.
Partials_Ignored(users) == {}

\* The partial users that the constructor prunes: not the one at index 0.
Partials(users) ==
    {id \in DOMAIN users : users[id].partial /\ \E other \in DOMAIN users : other < id}

\* upgradeIfNecessary asks user 0 for its name if the list has no version.
Broken == ListFound /\ OnList.version < 1 /\ 0 \notin Readable

\* readUserListLocked and upgradeIfNecessary.
BootFromList ==
    LET users  == [id \in Readable |-> Visible(disk[id])]
        serial == NextSerial(OnList.next, Readable)
        reads  == SetToSeq(OnList.ids)
    IN /\ phase = "down" /\ ListFound /\ ~Broken
       /\ phase' = "booting"
       /\ mUsers' = users /\ mUserIds' = Complete(users)
       /\ mNextSerialNumber' = serial /\ mUserVersion' = 1
       /\ todo' = <<Read(ListFile)>> \o [i \in DOMAIN reads |-> Read(reads[i])]
                  \o <<WriteUserList(users, serial, 1)>>
       /\ UNCHANGED <<mRemovingUserIds, mNextUserId, removals, disk, userDir>>
       /\ UNCHANGED <<created, crashes, history>>

\* The loop over the partial users, in the order of their ids.
Prune(id) ==
    /\ phase = "booting" /\ todo = <<>>
    /\ id \in Partials(mUsers) /\ \A other \in Partials(mUsers) : id <= other
    /\ mUsers' = Without(mUsers, {id}) /\ mUserIds' = Complete(mUsers')
    /\ todo' = RemoveUserState(id, mUsers', mNextSerialNumber, mUserVersion)
    /\ UNCHANGED <<phase, mRemovingUserIds, mNextSerialNumber, mNextUserId, mUserVersion>>
    /\ UNCHANGED <<removals, disk, userDir, created, crashes, history>>

\* The service is there, and clients get through to it.
Ready ==
    /\ phase = "booting" /\ todo = <<>> /\ Partials(mUsers) = {}
    /\ phase' = "up"
    /\ UNCHANGED <<todo, memory, removals, disk, userDir, created, crashes, history>>

\* A NullPointerException, and so at every start to come.
BootFails ==
    /\ phase = "down" /\ Broken
    /\ disk' = [f \in DOMAIN disk |->
                  IF f = ListFile \/ f \in OnList.ids THEN RolledBack(disk[f]) ELSE disk[f]]
    /\ UNCHANGED <<phase, todo, memory, removals, userDir, created, crashes, history>>

-----------------------------------------------------------------------------
(* Operations                                                              *)

Idle == phase = "up" /\ todo = <<>>

\* Ids that users had earlier in the session are not avoided, only those that
\* were given out in it.
NextAvailableId ==
    Min({i \in mNextUserId..(mNextUserId + MaxId + 1) : i \notin DOMAIN mUsers \cup mRemovingUserIds})

\* Faulty variant: the user is not saved again when it is complete.
CreateSteps_Once(id, user, users, serial) ==
    <<WriteUserList(users, serial, mUserVersion),
      WriteUser(id, [user EXCEPT !.partial = TRUE]), Step("created", id, user.made)>>

CreateSteps(id, user, users, serial) ==
    <<WriteUserList(users, serial, mUserVersion),
      WriteUser(id, [user EXCEPT !.partial = TRUE]), WriteUser(id, user),
      Step("created", id, user.made)>>

\* The new directory of the user is left out: it is empty, or there already.
CreateUser ==
    LET id   == NextAvailableId
        user == [serial |-> mNextSerialNumber, partial |-> FALSE, made |-> created + 1]
    IN /\ Idle /\ created < MaxCreated /\ id <= MaxId
       /\ created' = created + 1
       /\ mUsers' = [i \in DOMAIN mUsers \cup {id} |-> IF i = id THEN user ELSE mUsers[i]]
       /\ mUserIds' = Complete(mUsers')
       /\ mNextSerialNumber' = mNextSerialNumber + 1 /\ mNextUserId' = id + 1
       /\ todo' = CreateSteps(id, user, mUsers', mNextSerialNumber')
       /\ reissued' = IF removals[id] > 0 THEN reissued \cup {id} ELSE reissued
       /\ UNCHANGED <<phase, mRemovingUserIds, mUserVersion, removals, disk, userDir>>
       /\ UNCHANGED <<crashes, promised, removed, wiped, leftover>>

\* An app of the user puts something into its data directory.
UseUser(id) ==
    /\ Idle /\ id \in mUserIds \ {0}
    /\ userDir' = [userDir EXCEPT ![id] = @ \cup {mUsers[id].made}]
    /\ UNCHANGED <<phase, todo, memory, removals, disk, created, crashes, history>>

\* setUserName, setUserIcon, makeInitialized and userForeground save the user.
ChangeUser(id) ==
    /\ Idle /\ id \in Complete(mUsers)
    /\ todo' = <<WriteUser(id, mUsers[id])>>
    /\ UNCHANGED <<phase, memory, removals, disk, userDir, created, crashes, history>>

\* Faulty variant: the owner can be removed.
Removable_Owner(id) == id \in DOMAIN mUsers

\* A user that is being removed can be removed again.
Removable(id) == id # 0 /\ id \in DOMAIN mUsers

Removing(id) == mRemovingUserIds \cup {id}

\* Faulty variant: the mark is not saved.
RemoveSteps_NotSaved(id, user) == <<Step("removed", id, user.made)>>

RemoveSteps(id, user) == <<WriteUser(id, user), Step("removed", id, user.made)>>

\* The broadcast to wait for is sent when the lock is free.
RemoveUser(id) ==
    /\ Idle /\ Removable(id) /\ removals[id] < MaxRemovals
    /\ mRemovingUserIds' = Removing(id)
    /\ mUsers' = [mUsers EXCEPT ![id].partial = TRUE]
    /\ promised' = promised \ {<<id, mUsers[id].made>>}
    /\ todo' = RemoveSteps(id, mUsers'[id])
    /\ removals' = [removals EXCEPT ![id] = @ + 1]
    /\ UNCHANGED <<phase, mUserIds, mNextSerialNumber, mNextUserId, mUserVersion>>
    /\ UNCHANGED <<disk, userDir, created, crashes, removed, wiped, leftover, reissued>>

\* USER_REMOVED has gone round, and the thread that was started for it runs.
RemovalThread(id) ==
    /\ Idle /\ removals[id] > 0
    /\ removals' = [removals EXCEPT ![id] = @ - 1]
    /\ mUsers' = Without(mUsers, {id}) /\ mRemovingUserIds' = mRemovingUserIds \ {id}
    /\ mUserIds' = Complete(mUsers')
    /\ todo' = RemoveUserState(id, mUsers', mNextSerialNumber, mUserVersion)
    /\ UNCHANGED <<phase, mNextSerialNumber, mNextUserId, mUserVersion>>
    /\ UNCHANGED <<disk, userDir, created, crashes, history>>

Boot == BootSingleUser \/ BootFromList \/ BootFails
DiskStep == WriteFile \/ ReadFile \/ DeleteFile \/ WipeDir \/ ReturnUser \/ ReturnRemoved
Constructor == Ready \/ \E id \in Ids : Prune(id)

Next ==
    \/ Boot \/ Constructor \/ DiskStep \/ Crash \/ CreateUser
    \/ \E id \in Ids : UseUser(id) \/ ChangeUser(id) \/ RemoveUser(id) \/ RemovalThread(id)

\* The server is started again when a client calls it, what holds the lock goes
\* on, and a thread that was started gets the lock at last.
Fairness ==
    /\ WF_vars(Boot) /\ WF_vars(Constructor) /\ WF_vars(DiskStep)
    /\ \A id \in Ids : SF_vars(RemovalThread(id))

Spec == Init /\ [][Next]_vars /\ Fairness

-----------------------------------------------------------------------------
(* Correctness                                                             *)

\* getUserSerialNumber and getUserHandle undo each other on the ids that
\* getUserIds gives out: each of them is one that getUserInfo knows, which both
\* use without a check, and no two users have the same serial number, across
\* removals, restarts and cut off writes, unless the list was lost.
SerialsResolve ==
    /\ \A id \in mUserIds : Known(id)
    /\ ~wiped => \A a, b \in DOMAIN mUsers : mUsers[a].serial = mUsers[b].serial => a = b

\* A user that createUser returned is there, complete, after any number of
\* restarts until someone removes it, unless the list was lost or its id was
\* given out while the removal of an earlier user was still under way.
CreatedSurvives ==
    Idle /\ ~wiped => \A p \in promised : p[1] \notin reissued =>
        p[1] \in mUserIds /\ Known(p[1]) /\ mUsers[p[1]].made = p[2]

\* Without the first exception: "As long as the backup file exists, the original
\* file is considered to be invalid", so a list with a backup is not lost.
CreatedAlwaysSurvives ==
    Idle => \A p \in promised : p[1] \notin reissued =>
        p[1] \in DOMAIN mUsers /\ mUsers[p[1]].made = p[2]

\* A user whose removal was accepted does not come back as a complete user,
\* also if the process died before the removal was over.
RemovedStaysGone ==
    \A id \in DOMAIN mUsers : mUsers[id].made \in removed => mUsers[id].partial

\* The owner is always there, and a store that can no longer be read at start
\* is one of a first start that was cut off: it never held another user.
OwnerThere ==
    /\ phase # "down" => 0 \in Complete(mUsers)
    /\ phase = "down" /\ Broken => created = 0

\* A user finds data of another one in its directory only if the process died
\* while the directory of that id was to be deleted, or the list was lost.
ForeignDataOnlyIf ==
    Idle /\ ~wiped => \A id \in mUserIds \ (leftover \cup {0}) : userDir[id] \subseteq {mUsers[id].made}

\* A removal that was accepted ends, also if the process dies on the way.
RemovalEnds ==
    \A made \in 1..MaxCreated :
        made \in removed ~> Idle /\ \A id \in DOMAIN mUsers : mUsers[id].made # made
=============================================================================
