-------------------------- MODULE Persistence_proofs --------------------------
(***************************************************************************)
(* Theorems about two components that keep what must survive the server.   *)
(*                                                                         *)
(* AtomicFile, in the first part: its type, what it leaves on disk when    *)
(* the process dies, and that it implements the register of its comments.  *)
(*                                                                         *)
(* UserManager, which keeps the users in such files, in the second part,   *)
(* for any number of users, removals and deaths.                           *)
(***************************************************************************)
EXTENDS UserManager, AtomicFile, FiniteSetTheorems, FunctionTheorems, SequenceTheorems, TLAPS

-----------------------------------------------------------------------------
(* AtomicFile                                                              *)

\* What each step finds on disk, given what was there when the operation began.
BaseAtStep ==
    /\ pc \in {"open", "restore", "rollback", "deleteBackup"} => base = None
    /\ pc \in {"write", "fail"} => base = Torn
    /\ pc = "finish" => base = want
    /\ pc = "read" => backup = None
SinceBefore ==
    /\ pc \in {"start", "openRead", "delete"} => File = before
    /\ pc \in {"open", "write", "finish", "fail", "restore"} => backup = Visible(before)
    /\ pc = "rollback" => backup = before.bak /\ before.bak # None
    /\ pc = "read" => File = before \/ File = RolledBack(before)
    /\ pc = "deleteBackup" => backup = before.bak

FileInv == FileTypeOK /\ BaseAtStep /\ SinceBefore

-----------------------------------------------------------------------------
LEMMA InitFileInv == FileInit => FileInv
  BY FileAssumption DEF FileInit, FileInv, FileTypeOK, BaseAtStep, SinceBefore, FileContent, NoFile,
     WriteSteps, ReadSteps, DeleteSteps

\* The type, by action: the operation and the next step go together.
LEMMA NextFileTypeOK == FileTypeOK /\ [FileNext]_fileVars => FileTypeOK'
  <1> SUFFICES ASSUME FileTypeOK, [FileNext]_fileVars PROVE FileTypeOK'
    OBVIOUS
  <1> USE FileAssumption DEF FileTypeOK, WriteSteps, ReadSteps, DeleteSteps, FileContent, File, files
  <1>1. ASSUME NEW v \in Value, Begin("start", v) PROVE FileTypeOK'
    BY <1>1 DEF Begin
  <1>2. CASE Begin("openRead", Keep)
    BY <1>2 DEF Begin
  <1>3. CASE Begin("delete", None)
    BY <1>3 DEF Begin
  <1>4. CASE StartWrite
    BY <1>4 DEF StartWrite, Goto
  <1>5. CASE OpenStream
    BY <1>5 DEF OpenStream, Goto
  <1>6. CASE WriteContent
    BY <1>6 DEF WriteContent, Goto
  <1>7. CASE WriteFails
    BY <1>7 DEF WriteFails, Goto
  <1>8. CASE FailWrite
    BY <1>8 DEF FailWrite, Goto
  <1>9. CASE OpenRead \/ RollBack
    BY <1>9 DEF OpenRead, RollBack, Goto
  <1>10. CASE ReadContent
    BY <1>10 DEF ReadContent
  <1>11. CASE DeleteBase
    BY <1>11 DEF DeleteBase, Goto
  <1>12. CASE OpenFails \/ CloseFails \/ FileCrash
    BY <1>12 DEF OpenFails, CloseFails, FileCrash, End
  <1>13. CASE FinishWrite \/ RestoreBackup \/ DeleteBackup
    BY <1>13 DEF FinishWrite, RestoreBackup, DeleteBackup, End
  <1>14. CASE UNCHANGED fileVars
    BY <1>14 DEF fileVars
  <1>15. QED
    BY <1>1, <1>2, <1>3, <1>4, <1>5, <1>6, <1>7, <1>8, <1>9, <1>10, <1>11, <1>12, <1>13,
       <1>14 DEF FileNext

\* The files at the next step. The steps that end an operation leave pc = "idle",
\* of which nothing is said.
LEMMA NextOnDisk == FileInv /\ [FileNext]_fileVars => (BaseAtStep /\ SinceBefore)'
  <1> SUFFICES ASSUME FileInv, [FileNext]_fileVars PROVE (BaseAtStep /\ SinceBefore)'
    OBVIOUS
  <1> USE FileAssumption DEF FileInv, BaseAtStep, SinceBefore, File, files
  <1>1. ASSUME NEW v \in Value, Begin("start", v) PROVE (BaseAtStep /\ SinceBefore)'
    BY <1>1 DEF Begin
  <1>2. CASE Begin("openRead", Keep) \/ Begin("delete", None)
    BY <1>2 DEF Begin
  <1>3. CASE StartWrite
    BY <1>3 DEF StartWrite, Goto, Visible
  <1>4. CASE OpenStream \/ WriteContent \/ WriteFails \/ FailWrite
    BY <1>4 DEF OpenStream, WriteContent, WriteFails, FailWrite, Goto
  <1>5. CASE OpenRead
    BY <1>5 DEF OpenRead, Goto
  <1>6. CASE RollBack
    <2>1. base' = Visible(before) /\ backup' = None /\ UNCHANGED before /\ pc' = "read"
      BY <1>6 DEF RollBack, Goto, Visible
    <2>2. QED
      BY <2>1 DEF RolledBack, Written
  <1>7. CASE DeleteBase
    BY <1>7 DEF DeleteBase, Goto
  <1>8. CASE OpenFails \/ FinishWrite \/ CloseFails \/ RestoreBackup \/ DeleteBackup \/ FileCrash
    BY <1>8 DEF OpenFails, FinishWrite, CloseFails, RestoreBackup, DeleteBackup, FileCrash, End
  <1>9. CASE ReadContent
    BY <1>9 DEF ReadContent
  <1>10. CASE UNCHANGED fileVars
    BY <1>10 DEF fileVars
  <1>11. QED
    BY <1>1, <1>2, <1>3, <1>4, <1>5, <1>6, <1>7, <1>8, <1>9, <1>10 DEF FileNext

\* FileInv holds in every reachable state.
THEOREM FileInvariance == FileSpec => []FileInv
  <1>1. FileInv /\ [FileNext]_fileVars => FileInv'
    BY NextFileTypeOK, NextOnDisk DEF FileInv
  <1>2. QED
    BY InitFileInv, <1>1, PTL DEF FileSpec

\* The operation under way, its step and the files stay in their types.
THEOREM FileTypeCorrect == FileSpec => []FileTypeOK
  BY FileInvariance, PTL DEF FileInv

-----------------------------------------------------------------------------
LEMMA CrashStatesFollow == FileInv => CrashStates
  <1> SUFFICES ASSUME FileInv PROVE CrashStates
    OBVIOUS
  <1> USE DEF FileInv, FileTypeOK, BaseAtStep, SinceBefore
  <1>1. ASSUME pc \in WriteSteps PROVE File \in MidWrite(before, want)
    <2>1. CASE pc = "start"
      BY <2>1 DEF MidWrite
    <2>2. CASE pc # "start"
      <3>1. base \in {None, Torn, want} /\ backup = Visible(before)
        BY <1>1, <2>2 DEF WriteSteps
      <3>2. QED
        BY <3>1 DEF MidWrite, File
    <2>3. QED
      BY <2>1, <2>2
  <1>2. ASSUME pc \in ReadSteps PROVE File \in MidRead(before)
    <2>1. CASE pc # "rollback"
      BY <1>2, <2>1 DEF MidRead, ReadSteps
    <2>2. CASE pc = "rollback"
      <3>1. File = [before EXCEPT !.base = None]
        BY <2>2 DEF File
      <3>2. QED
        BY <2>2, <3>1 DEF MidRead
    <2>3. QED
      BY <2>1, <2>2
  <1>3. ASSUME pc \in DeleteSteps PROVE File \in MidDelete(before)
    <2>1. CASE pc = "delete"
      BY <2>1 DEF MidDelete
    <2>2. CASE pc = "deleteBackup"
      <3>1. File = [before EXCEPT !.base = None]
        BY <2>2 DEF File
      <3>2. QED
        BY <3>1 DEF MidDelete
    <2>3. QED
      BY <1>3, <2>1, <2>2 DEF DeleteSteps
  <1>4. QED
    BY <1>1, <1>2, <1>3 DEF CrashStates

\* A process that dies leaves what MidWrite, MidRead and MidDelete say: the
\* files other modules start from after a restart are the right ones.
THEOREM CrashStatesAlways == FileSpec => []CrashStates
  BY FileInvariance, CrashStatesFollow, PTL

-----------------------------------------------------------------------------
(* The register.                                                           *)

LEMMA InitRegister == FileInit => Register!Init
  BY FileAssumption DEF FileInit, Register!Init, Good, Visible, File

\* Each step is a step of the register or leaves it alone. The write takes
\* effect when a first write is complete, and else when the backup goes.
LEMMA StepRegister == FileInv /\ [FileNext]_fileVars => [Register!Next]_Register!vars
  <1> SUFFICES ASSUME FileInv, [FileNext]_fileVars PROVE [Register!Next]_Register!vars
    OBVIOUS
  <1> DEFINE val == Good(Visible(File))
  <1>0. val = IF backup # None THEN Good(backup) ELSE Good(base)
    BY DEF File, Visible
  <1>0a. val' = IF backup' # None THEN Good(backup') ELSE Good(base')
    BY DEF File, Visible
  <1>0b. Good(None) = None /\ Good(Torn) = None /\ \A v \in Value : Good(v) = v
    BY FileAssumption DEF Good
  <1> HIDE DEF val
  <1> USE FileAssumption DEF FileInv, FileTypeOK, BaseAtStep, FileContent, files
  <1>a. ASSUME UNCHANGED <<val, want, got, told>> PROVE UNCHANGED Register!vars
    BY <1>a DEF Register!vars, val
  <1>b. ASSUME want = NoFileOp, want' \in Value \cup {None, Keep}, UNCHANGED <<val, got, told>>
        PROVE Register!Next
    BY <1>b DEF Register!Next, Register!Begin, val
  <1>c. ASSUME want # NoFileOp, want' = NoFileOp, told' = "failed", UNCHANGED <<val, got>>
        PROVE Register!Next
    BY <1>c DEF Register!Next, Register!GiveUp, val
  <1>d. ASSUME want \in Value \cup {None}, val' = want, want' = NoFileOp, told' = "ok", UNCHANGED got
        PROVE Register!Next
    BY <1>d DEF Register!Next, Register!Done, val
  <1>e. ASSUME want \in Value \cup {None}, val' = want, UNCHANGED <<want, got, told>>
        PROVE Register!Next
    BY <1>e DEF Register!Next, Register!Take, val
  <1>1. ASSUME NEW v \in Value, Begin("start", v) PROVE Register!Next
    <2>1. want = NoFileOp /\ want' = v /\ UNCHANGED <<val, got, told>>
      BY <1>1, <1>0, <1>0a DEF Begin
    <2>2. QED
      BY <2>1, <1>b
  <1>2. CASE Begin("openRead", Keep) \/ Begin("delete", None)
    <2>1. want = NoFileOp /\ want' \in {Keep, None} /\ UNCHANGED <<val, got, told>>
      BY <1>2, <1>0, <1>0a DEF Begin
    <2>2. QED
      BY <2>1, <1>b
  <1>3. CASE StartWrite \/ OpenStream \/ WriteFails \/ FailWrite \/ OpenRead \/ RollBack
    <2>1. UNCHANGED <<want, got, told>>
      BY <1>3 DEF StartWrite, OpenStream, WriteFails, FailWrite, OpenRead, RollBack, Goto
    <2>2. val' = val
      BY <1>3, <1>0, <1>0a, <1>0b
         DEF StartWrite, OpenStream, WriteFails, FailWrite, OpenRead, RollBack, Goto, SinceBefore
    <2>3. QED
      BY <2>1, <2>2, <1>a
  <1>4. CASE WriteContent
    <2>1. want \in Value /\ base' = want /\ base = Torn /\ UNCHANGED <<backup, want, got, told>>
      BY <1>4 DEF WriteContent, Goto, WriteSteps
    <2>2. val' = val \/ val' = want
      BY <2>1, <1>0, <1>0a, <1>0b
    <2>3. QED
      BY <2>1, <2>2, <1>a, <1>e
  <1>5. CASE FinishWrite
    <2>1. want \in Value /\ base = want /\ base' = base /\ backup' = None /\ UNCHANGED got
          /\ want' = NoFileOp /\ told' = "ok"
      BY <1>5 DEF FinishWrite, End, WriteSteps
    <2>2. val' = want
      BY <2>1, <1>0a, <1>0b
    <2>3. QED
      BY <2>1, <2>2, <1>d
  <1>6. CASE OpenFails \/ CloseFails \/ FileCrash
    <2>1. want # NoFileOp /\ want' = NoFileOp /\ told' = "failed" /\ UNCHANGED <<files, got>>
      BY <1>6 DEF OpenFails, CloseFails, FileCrash, End
    <2>2. QED
      BY <2>1, <1>0, <1>0a, <1>c
  <1>7. CASE RestoreBackup
    <2>1. want # NoFileOp /\ want' = NoFileOp /\ told' = "failed" /\ UNCHANGED got
      BY <1>7 DEF RestoreBackup, End
    <2>2. val' = val
      BY <1>7, <1>0, <1>0a, <1>0b DEF RestoreBackup
    <2>3. QED
      BY <2>1, <2>2, <1>c
  <1>8. CASE ReadContent
    <2>1. want = Keep /\ want' = NoFileOp /\ told' = "ok" /\ got' = base /\ backup = None
          /\ UNCHANGED files
      BY <1>8 DEF ReadContent, ReadSteps
    <2>2. val' = val /\ Good(got)' = val
      BY <2>1, <1>0, <1>0a DEF Good
    <2>3. QED
      BY <2>1, <2>2 DEF Register!Next, Register!Return, val
  <1>9. CASE DeleteBase
    <2>1. want = None /\ base' = None /\ UNCHANGED <<backup, want, got, told>>
      BY <1>9 DEF DeleteBase, Goto, DeleteSteps
    <2>2. val' = val \/ val' = want
      BY <2>1, <1>0, <1>0a, <1>0b
    <2>3. QED
      BY <2>1, <2>2, <1>a, <1>e
  <1>10. CASE DeleteBackup
    <2>1. want = None /\ base = None /\ base' = base /\ backup' = None /\ UNCHANGED got
          /\ want' = NoFileOp /\ told' = "ok"
      BY <1>10 DEF DeleteBackup, End, DeleteSteps
    <2>2. val' = want
      BY <2>1, <1>0a, <1>0b
    <2>3. QED
      BY <2>1, <2>2, <1>d
  <1>11. CASE UNCHANGED fileVars
    <2>1. UNCHANGED <<want, got, told>> /\ val' = val
      BY <1>11, <1>0, <1>0a DEF fileVars
    <2>2. QED
      BY <2>1, <1>a
  <1>12. QED
    BY <1>1, <1>2, <1>3, <1>4, <1>5, <1>6, <1>7, <1>8, <1>9, <1>10, <1>11 DEF FileNext

\* Whatever errors come and wherever the process dies, the file is the register
\* that the comments of AtomicFile describe.
THEOREM ImplementsRegister == FileSpec => RegisterSpec
  BY FileInvariance, InitRegister, StepRegister, PTL DEF FileSpec, RegisterSpec, Register!Spec

-----------------------------------------------------------------------------
(* UserManager: the inductive invariant                                    *)

\* What the next start reads of a file.
Content(f) == Visible(disk[f])
OnDisk(id) == Content(id) \in User
List == Content(ListFile)

Files == Ids \cup {ListFile}
FileStates == LET c == User \cup UserList \cup {None, Torn} IN [base : c, bak : c]

TodoStep ==
    [kind : {"read"}, file : Files, value : {None}]
    \cup [kind : {"write"}, file : {ListFile}, value : UserList]
    \cup [kind : {"write"}, file : Ids, value : User]
    \cup [kind : {"delete", "wipe"}, file : Ids, value : {None}]
    \cup [kind : {"created", "removed"}, file : Ids, value : 0 .. MaxCreated]

\* The type of each variable, and the empty memory of a process that is dead.
TypeOK ==
    /\ phase \in {"down", "booting", "up"}
    /\ todo \in Seq(TodoStep)
    /\ DOMAIN mUsers \subseteq Ids /\ mUsers \in [DOMAIN mUsers -> User]
    /\ mRemovingUserIds \subseteq Ids /\ mUserIds \subseteq Ids
    /\ mNextSerialNumber \in Nat /\ mNextUserId \in Nat \ {0} /\ mUserVersion \in 0 .. 1
    /\ removals \in [Ids -> Nat] /\ removals[0] = 0
    /\ phase = "down" => /\ todo = <<>> /\ mUsers = Nobody
                         /\ mUserVersion = 0 /\ removals = [id \in Ids |-> 0]
    /\ disk \in [Files -> FileStates]
    /\ \A id \in Ids : Content(id) \in User \cup {None, Torn}
    /\ List \in UserList \cup {None, Torn}
    /\ userDir \in [Ids -> SUBSET Nat]
    /\ created \in 0 .. MaxCreated
    /\ promised \subseteq Ids \X Nat /\ removed \subseteq 1 .. created
    /\ wiped \in BOOLEAN /\ leftover \subseteq Ids /\ reissued \subseteq Ids

\* The list the server would write now.
Current == [ids |-> DOMAIN mUsers, next |-> mNextSerialNumber, version |-> mUserVersion]

\* Place i of what is left to do.
Is(i, kind, f) == i \in DOMAIN todo /\ todo[i].kind = kind /\ todo[i].file = f

\* What is left to be written is what the server knows, or for a user that is
\* being created what it knew a moment before.
ListWrites == \A i \in Nat : Is(i, "write", ListFile) => todo[i].value = Current

UserWrites ==
    \A i \in Nat, id \in Ids : Is(i, "write", id) =>
        /\ id \in DOMAIN mUsers
        /\ todo[i].value.serial = mUsers[id].serial /\ todo[i].value.made = mUsers[id].made
        /\ \/ todo[i].value = mUsers[id]
           \/ /\ todo[i].value.partial
              /\ \E j \in Nat : j > i /\ Is(j, "write", id)
              /\ \E j \in Nat : Is(j, "created", id)
        /\ \A j \in Nat : Is(j, "write", ListFile) => j < i
        /\ \A j \in Nat, other \in Ids : ~Is(j, "delete", other) /\ ~Is(j, "wipe", other)

\* A removal deletes the file first and the directory last.
Removals ==
    \A i \in Nat, id \in Ids :
        /\ Is(i, "delete", id) => i = 1 /\ \E j \in Nat : Is(j, "wipe", id)
        /\ Is(i, "wipe", id) =>
              /\ id \notin DOMAIN mUsers /\ id # 0
              /\ \A j \in Nat, other \in Ids : Is(j, "wipe", other) => other = id

Returns ==
    \A i \in Nat, id \in Ids :
        /\ Is(i, "created", id) =>
              /\ i = Len(todo) /\ id # 0
              /\ id \in Complete(mUsers) \cap mUserIds /\ todo[i].value = mUsers[id].made
              /\ ~wiped => \A p \in promised : p[1] = id => id \in reissued
              /\ removals[id] > 0 => id \in reissued
        /\ Is(i, "removed", id) =>
              /\ i = Len(todo)
              /\ id \in DOMAIN mUsers \ Complete(mUsers) /\ todo[i].value = mUsers[id].made

\* What is not about to be written is on disk.
Synced ==
    phase # "down" =>
        /\ (\E i \in Nat : Is(i, "write", ListFile)) \/ List = Current
        /\ \A id \in DOMAIN mUsers :
              (\E i \in Nat : Is(i, "write", id)) \/ Content(id) = mUsers[id]

\* Users on disk are known, but for one that is about to be deleted.
Loaded ==
    phase # "down" /\ ~wiped => \A id \in Ids : OnDisk(id) =>
        \/ /\ id \in DOMAIN mUsers
           /\ Content(id).serial = mUsers[id].serial /\ Content(id).made = mUsers[id].made
        \/ \E i \in Nat : Is(i, "delete", id)

Serials ==
    ~wiped => \A a \in DOMAIN mUsers :
        /\ mUsers[a].serial < mNextSerialNumber
        /\ \A b \in DOMAIN mUsers : mUsers[a].serial = mUsers[b].serial => a = b

IdsKnown == Complete(mUsers) \subseteq mUserIds /\ \A id \in mUserIds : Known(id)

MadeInMemory ==
    \A a \in DOMAIN mUsers :
        /\ mUsers[a].made <= created /\ (a # 0 => mUsers[a].made # 0)
        /\ \A b \in DOMAIN mUsers : mUsers[a].made = mUsers[b].made => a = b
        /\ \A b \in Ids : OnDisk(b) /\ mUsers[a].made = Content(b).made => a = b

RemovedInMemory == \A id \in DOMAIN mUsers : mUsers[id].made \in removed => mUsers[id].partial

OwnerInMemory ==
    phase # "down" => 0 \in Complete(mUsers) /\ (mUserVersion = 1 \/ phase = "up" => OnDisk(0))

PromisedInMemory ==
    phase # "down" /\ ~wiped => \A p \in promised : p[1] \notin reissued =>
        p[1] \in Complete(mUsers) /\ mUsers[p[1]].made = p[2] /\ removals[p[1]] = 0

\* What a start finds on disk.
ListedOnDisk ==
    ~wiped => \A id \in Ids : OnDisk(id) =>
        List \in UserList /\ id \in List.ids /\ Content(id).serial < List.next

SerialsOnDisk ==
    ~wiped => \A a, b \in Ids :
        OnDisk(a) /\ OnDisk(b) /\ Content(a).serial = Content(b).serial => a = b

MadeOnDisk ==
    \A a \in Ids : OnDisk(a) =>
        /\ Content(a).made <= created /\ (a # 0 => Content(a).made # 0)
        /\ \A b \in Ids : OnDisk(b) /\ Content(a).made = Content(b).made => a = b

RemovedOnDisk == \A id \in Ids : OnDisk(id) /\ Content(id).made \in removed => Content(id).partial

OwnerOnDisk ==
    /\ List \in UserList => 0 \in List.ids /\ (List.version = 1 => OnDisk(0))
    /\ created > 0 => List \in UserList /\ OnDisk(0)
    /\ OnDisk(0) => ~Content(0).partial

PromisedOnDisk ==
    ~wiped => \A p \in promised : p[1] \notin reissued =>
        OnDisk(p[1]) /\ ~Content(p[1]).partial /\ Content(p[1]).made = p[2]

DirsOwned ==
    ~wiped => \A id \in Ids \ (leftover \cup {0}) :
        \/ userDir[id] = {}
        \/ \E i \in Nat : Is(i, "wipe", id)
        \/ OnDisk(id) /\ userDir[id] \subseteq {Content(id).made}

QueueInv == ListWrites /\ UserWrites /\ Removals /\ Returns
MemoryInv ==
    /\ Synced /\ Loaded /\ Serials /\ IdsKnown
    /\ MadeInMemory /\ RemovedInMemory /\ OwnerInMemory /\ PromisedInMemory
StoreInv ==
    /\ ListedOnDisk /\ SerialsOnDisk /\ MadeOnDisk
    /\ RemovedOnDisk /\ OwnerOnDisk /\ PromisedOnDisk

IInv == TypeOK /\ QueueInv /\ MemoryInv /\ StoreInv /\ DirsOwned

-----------------------------------------------------------------------------
(* Natural numbers                                                         *)

\* Induction, from the pigeonhole principle: if n were not in T, the successor
\* would map the members of T up to n one to one into themselves, and so onto 0.
LEMMA Induction ==
    ASSUME NEW T, 0 \in T, \A n \in Nat : n \in T => n + 1 \in T
    PROVE  Nat \subseteq T
<1> SUFFICES ASSUME NEW n \in Nat, n \notin T PROVE FALSE
  OBVIOUS
<1> DEFINE S == T \cap (0 .. n)
<1> DEFINE f == [k \in S |-> k + 1]
<1>1. IsFiniteSet(S)
  <2>1. IsFiniteSet(0 .. n)
    BY FS_Interval
  <2> QED BY <2>1, FS_Subset
<1>2. f \in [S -> S]
  BY SMT
<1>3. f \in Injection(S, S)
  BY <1>2 DEF Injection, IsInjective
<1>4. f \in Surjection(S, S)
  BY <1>1, <1>3, FS_Injection
<1>5. 0 \in S
  OBVIOUS
<1>6. PICK k \in S : f[k] = 0
  BY <1>4, <1>5 DEF Surjection
<1> QED BY <1>6

\* A set of numbers has a least one.
LEMMA MinIsLeast ==
    ASSUME NEW T \in SUBSET Nat, T # {}
    PROVE  Min(T) \in T /\ \A y \in T : Min(T) <= y
<1>1. \E x \in T : \A y \in T : x <= y
  <2> SUFFICES ASSUME \A x \in T : \E y \in T : y < x PROVE FALSE
    OBVIOUS
  <2> DEFINE S == {n \in Nat : \A m \in 0 .. n : m \notin T}
  <2>1. 0 \in S
    <3> SUFFICES 0 \notin T
      OBVIOUS
    <3> QED OBVIOUS
  <2>2. ASSUME NEW n \in Nat, n \in S PROVE n + 1 \in S
    <3>1. n + 1 \notin T
      BY <2>2
    <3> QED BY <2>2, <3>1
  <2>3. Nat \subseteq S
    <3> HIDE DEF S
    <3> QED BY <2>1, <2>2, Induction
  <2>4. \A n \in Nat : n \notin T
    BY <2>3
  <2> QED BY <2>4
<1> QED BY <1>1 DEF Min

\* A set of numbers with a bound has a greatest one.
LEMMA MaxIsGreatest ==
    ASSUME NEW T \in SUBSET Nat, T # {}, NEW b \in Nat, \A y \in T : y <= b
    PROVE  Max(T) \in T /\ \A y \in T : Max(T) >= y
<1> DEFINE U == {n \in Nat : \A y \in T : y <= n}
<1>1. U \in SUBSET Nat /\ U # {}
  OBVIOUS
<1>2. PICK u \in U : \A v \in U : u <= v
  <2> HIDE DEF U
  <2> QED BY <1>1, MinIsLeast
<1>3. u \in T
  <2> SUFFICES ASSUME u \notin T PROVE FALSE
    OBVIOUS
  <2>1. PICK y \in T : TRUE
    OBVIOUS
  <2>2. u - 1 \in U
    BY <1>2, <2>1
  <2> QED BY <1>2, <2>2
<1>4. \E x \in T : \A y \in T : x >= y
  BY <1>2, <1>3
<1> QED BY <1>4 DEF Max

-----------------------------------------------------------------------------
(* The numbers that are given out                                          *)

\* There is an id that is not in use, and getNextAvailableIdLocked finds it.
LEMMA AvailableId ==
    ASSUME TypeOK
    PROVE  /\ NextAvailableId \in Nat \ {0}
           /\ NextAvailableId \notin DOMAIN mUsers /\ NextAvailableId \notin mRemovingUserIds
<1> DEFINE T == {i \in mNextUserId .. (mNextUserId + MaxId + 1) : i \notin DOMAIN mUsers \cup mRemovingUserIds}
<1>0. mNextUserId \in Nat \ {0} /\ MaxId \in Nat /\ DOMAIN mUsers \cup mRemovingUserIds \subseteq 0 .. MaxId
  BY UserAssumption DEF TypeOK, Ids
<1>1. T \in SUBSET Nat
  BY <1>0
<1>2. mNextUserId + MaxId + 1 \in T
  BY <1>0
<1>3. Min(T) \in T
  BY <1>1, <1>2, MinIsLeast
<1>4. NextAvailableId = Min(T)
  BY DEF NextAvailableId
<1>5. \A i \in T : i \in Nat \ {0} /\ i \notin DOMAIN mUsers /\ i \notin mRemovingUserIds
  BY <1>0
<1> HIDE DEF T
<1> QED BY <1>3, <1>4, <1>5

\* The next serial number is not below the one on the list.
LEMMA NextSerialIsNext ==
    ASSUME NEW next \in Nat, NEW ids \in SUBSET Ids
    PROVE  NextSerial(next, ids) \in Nat /\ NextSerial(next, ids) >= next
<1> DEFINE T == {next} \cup {id + 1 : id \in ids}
<1>1. T \in SUBSET Nat /\ next \in T
  BY DEF Ids
<1>2. next + MaxId + 1 \in Nat /\ \A y \in T : y <= next + MaxId + 1
  BY UserAssumption DEF Ids
<1>3. Max(T) \in T /\ \A y \in T : Max(T) >= y
  <2> HIDE DEF T
  <2> QED BY <1>1, <1>2, MaxIsGreatest
<1>4. NextSerial(next, ids) = Max(T)
  BY DEF NextSerial
<1> HIDE DEF T
<1> QED BY <1>1, <1>3, <1>4

\* A finite set as a sequence.
LEMMA SetAsSeq ==
    ASSUME NEW S, IsFiniteSet(S)
    PROVE  Cardinality(S) \in Nat /\ SetToSeq(S) \in [1 .. Cardinality(S) -> S]
<1>1. Cardinality(S) \in Nat
  BY FS_CardinalityType
<1>2. PICK f \in Bijection(1 .. Cardinality(S), S) : TRUE
  BY FS_CardinalityType DEF ExistsBijection
<1>3. f \in [1 .. Cardinality(S) -> S] /\ IsInjective(f)
  BY <1>2 DEF Bijection, Injection
<1>4. \E g \in [1 .. Cardinality(S) -> S] : IsInjective(g)
  BY <1>3
<1>5. SetToSeq(S) \in [1 .. Cardinality(S) -> S]
  BY <1>4 DEF SetToSeq
<1> QED BY <1>1, <1>5

-----------------------------------------------------------------------------
(* The disk                                                                *)

LEMMA NamesDiffer == ListFile \notin Ids /\ 0 \in Ids /\ Ids \subseteq Nat
  BY UserAssumption DEF Ids

LEMMA NotNone == \A c \in User \cup UserList : c # None /\ c # Torn
  BY UserAssumption

\* What is read after a write, a read and a delete.
LEMMA Reads ==
    /\ \A v : Visible(Written(v)) = v
    /\ \A f : Visible(RolledBack(f)) = Visible(f)
    /\ Visible(NoFile) = None
  BY DEF Visible, Written, RolledBack, NoFile

LEMMA FileTypes ==
    LET c == User \cup UserList \cup {None, Torn} IN
    /\ \A v \in c : Written(v) \in FileStates
    /\ \A f \in FileStates : Visible(f) \in c /\ RolledBack(f) \in FileStates
    /\ NoFile \in FileStates
  BY DEF FileStates, Written, RolledBack, Visible, NoFile

LEMMA ContentAfter ==
    ASSUME NEW g \in Files, NEW x \in FileStates, disk \in [Files -> FileStates],
           disk' = [disk EXCEPT ![g] = x]
    PROVE  /\ disk' \in [Files -> FileStates]
           /\ Content(g)' = Visible(x)
           /\ \A f \in Files \ {g} : Content(f)' = Content(f)
<1>1. disk' \in [Files -> FileStates] /\ disk'[g] = x
  OBVIOUS
<1>2. \A f \in Files \ {g} : disk'[f] = disk[f]
  OBVIOUS
<1> QED BY <1>1, <1>2 DEF Content

-----------------------------------------------------------------------------
(* What is left to do                                                      *)

\* The steps by their kind.
LEMMA StepTypes ==
    ASSUME TypeOK, NEW i \in Nat
    PROVE  /\ \A kind, f : Is(i, kind, f) => i \in 1 .. Len(todo) /\ todo[i] \in TodoStep
           /\ Is(i, "write", ListFile) => todo[i].value \in UserList
           /\ \A id \in Ids : Is(i, "write", id) => todo[i].value \in User
           /\ \A id \in Ids : Is(i, "created", id) \/ Is(i, "removed", id) =>
                 todo[i].value \in 0 .. MaxCreated
           /\ \A f : Is(i, "delete", f) \/ Is(i, "wipe", f) \/ Is(i, "created", f) \/ Is(i, "removed", f) =>
                 f \in Ids
           /\ \A f : Is(i, "write", f) \/ Is(i, "read", f) => f \in Files
<1>1. todo \in Seq(TodoStep)
  BY DEF TypeOK
<1>2. DOMAIN todo = 1 .. Len(todo) /\ \A k \in 1 .. Len(todo) : todo[k] \in TodoStep
  BY <1>1, LenProperties, ElementOfSeq
<1>3. \A kind, f : Is(i, kind, f) => i \in 1 .. Len(todo) /\ todo[i] \in TodoStep
  BY <1>2 DEF Is
<1>4. \A s \in TodoStep :
         /\ s.kind = "write" /\ s.file = ListFile => s.value \in UserList
         /\ s.kind = "write" /\ s.file \in Ids => s.value \in User
         /\ s.kind \in {"created", "removed"} => s.value \in 0 .. MaxCreated
         /\ s.kind \in {"delete", "wipe", "created", "removed"} => s.file \in Ids
         /\ s.kind \in {"write", "read"} => s.file \in Files
  BY NamesDiffer DEF TodoStep, Files
<1> QED BY <1>3, <1>4 DEF Is

\* The first step is taken: what is left moves up by one place.
Taken == todo # <<>> /\ todo' = Tail(todo)

LEMMA Popped ==
    ASSUME TypeOK, Taken
    PROVE  /\ todo' \in Seq(TodoStep) /\ Head1 \in TodoStep
           /\ Len(todo') = Len(todo) - 1 /\ Len(todo) \in Nat \ {0}
           /\ \A kind, f : Is(1, kind, f) <=> Head1.kind = kind /\ Head1.file = f
           /\ \A i \in Nat : \A kind, f : Is(i, kind, f)' =>
                 Is(i + 1, kind, f) /\ todo'[i] = todo[i + 1]
           /\ \A i \in Nat : \A kind, f : Is(i, kind, f) /\ i # 1 =>
                 i - 1 \in Nat /\ Is(i - 1, kind, f)' /\ todo'[i - 1] = todo[i]
<1>1. todo \in Seq(TodoStep)
  BY DEF TypeOK
<1>2. /\ todo' \in Seq(TodoStep) /\ Len(todo') = Len(todo) - 1
      /\ \A i \in 1 .. Len(todo') : todo'[i] = todo[i + 1]
  BY <1>1, HeadTailProperties DEF Taken
<1>3. /\ Len(todo) \in Nat \ {0} /\ DOMAIN todo = 1 .. Len(todo) /\ DOMAIN todo' = 1 .. Len(todo')
  BY <1>1, <1>2, LenProperties, EmptySeq DEF Taken
<1>4. Head1 \in TodoStep
  BY <1>1, <1>3, ElementOfSeq DEF Head1
<1>5. \A kind, f : Is(1, kind, f) <=> Head1.kind = kind /\ Head1.file = f
  BY <1>3 DEF Is, Head1
<1>6. ASSUME NEW i \in Nat, NEW kind, NEW f, Is(i, kind, f)'
      PROVE  Is(i + 1, kind, f) /\ todo'[i] = todo[i + 1]
  BY <1>2, <1>3, <1>6 DEF Is
<1>7. ASSUME NEW i \in Nat, NEW kind, NEW f, Is(i, kind, f), i # 1
      PROVE  i - 1 \in Nat /\ Is(i - 1, kind, f)' /\ todo'[i - 1] = todo[i]
  <2>1. i - 1 \in 1 .. Len(todo') /\ i = (i - 1) + 1
    BY <1>2, <1>3, <1>7 DEF Is
  <2>2. todo'[i - 1] = todo[i]
    BY <1>2, <2>1
  <2> QED BY <1>3, <1>7, <2>1, <2>2 DEF Is
<1> QED BY <1>2, <1>3, <1>4, <1>5, <1>6, <1>7

\* Nothing is left to do.
LEMMA NothingLeft ==
    ASSUME todo = <<>>
    PROVE  \A i, kind, f : ~Is(i, kind, f)
  BY DEF Is

\* What is left to do still fits what the server knows when a step is taken.
LEMMA QueuePopped ==
    ASSUME TypeOK, QueueInv, Taken,
           UNCHANGED <<memory, removals, wiped, reissued>>,
           Len(todo) = 1 \/ promised' = promised
    PROVE  QueueInv'
<1>0. /\ UNCHANGED <<mUsers, mUserIds, mNextSerialNumber, mUserVersion>>
      /\ UNCHANGED <<removals, wiped, reissued>>
  BY DEF memory
<1>1. /\ Len(todo') = Len(todo) - 1 /\ Len(todo) \in Nat \ {0}
      /\ \A i \in Nat : \A kind, f : Is(i, kind, f)' =>
            Is(i + 1, kind, f) /\ todo'[i] = todo[i + 1]
      /\ \A i \in Nat : \A kind, f : Is(i, kind, f) /\ i # 1 =>
            i - 1 \in Nat /\ Is(i - 1, kind, f)' /\ todo'[i - 1] = todo[i]
  BY Popped
<1>2. \A i \in Nat : \A kind, f : Is(i, kind, f) => i \in 1 .. Len(todo)
  BY StepTypes
<1>3. ListWrites'
  <2>1. Current' = Current
    BY <1>0 DEF Current
  <2> QED BY <1>1, <2>1 DEF ListWrites, QueueInv
<1>4. UserWrites'
  <2> SUFFICES ASSUME NEW i \in Nat, NEW id \in Ids, Is(i, "write", id)'
               PROVE  /\ id \in DOMAIN mUsers
                      /\ todo'[i].value.serial = mUsers[id].serial
                      /\ todo'[i].value.made = mUsers[id].made
                      /\ \/ todo'[i].value = mUsers[id]
                         \/ /\ todo'[i].value.partial
                            /\ \E j \in Nat : j > i /\ Is(j, "write", id)'
                            /\ \E j \in Nat : Is(j, "created", id)'
                      /\ \A j \in Nat : Is(j, "write", ListFile)' => j < i
                      /\ \A j \in Nat, other \in Ids :
                            ~Is(j, "delete", other)' /\ ~Is(j, "wipe", other)'
    BY <1>0 DEF UserWrites
  <2>1. Is(i + 1, "write", id) /\ todo'[i] = todo[i + 1] /\ i + 1 \in Nat
    <3>1. i + 1 \in Nat
      OBVIOUS
    <3>2. Is(i + 1, "write", id) /\ todo'[i] = todo[i + 1]
      BY <1>1, Zenon
    <3> QED BY <3>1, <3>2
  <2>2. /\ id \in DOMAIN mUsers
        /\ todo[i + 1].value.serial = mUsers[id].serial
        /\ todo[i + 1].value.made = mUsers[id].made
        /\ \/ todo[i + 1].value = mUsers[id]
           \/ /\ todo[i + 1].value.partial
              /\ \E j \in Nat : j > i + 1 /\ Is(j, "write", id)
              /\ \E j \in Nat : Is(j, "created", id)
        /\ \A j \in Nat : Is(j, "write", ListFile) => j < i + 1
        /\ \A j \in Nat, other \in Ids : ~Is(j, "delete", other) /\ ~Is(j, "wipe", other)
    BY <2>1 DEF UserWrites, QueueInv
  <2>3. ASSUME NEW j \in Nat, j > i + 1, Is(j, "write", id)
        PROVE  \E k \in Nat : k > i /\ Is(k, "write", id)'
    BY <1>1, <2>3
  <2>4. ASSUME NEW j \in Nat, Is(j, "created", id)
        PROVE  \E k \in Nat : Is(k, "created", id)'
    <3>1. j = Len(todo)
      BY <2>4 DEF Returns, QueueInv
    <3>2. i + 1 \in 1 .. Len(todo) /\ i # 0
      <4>1. i + 1 \in 1 .. Len(todo)
        BY <1>2, <2>1
      <4>2. i \in 1 .. Len(todo')
        <5>1. todo' \in Seq(TodoStep)
          BY Popped
        <5> QED BY <5>1, LenProperties DEF Is
      <4> QED BY <4>1, <4>2
    <3>3. j # 1
      BY <3>1, <3>2
    <3> QED BY <1>1, <2>4, <3>3
  <2>5. \A j \in Nat : Is(j, "write", ListFile)' => j < i
    BY <1>1, <2>2
  <2>6. \A j \in Nat, other \in Ids : ~Is(j, "delete", other)' /\ ~Is(j, "wipe", other)'
    BY <1>1, <2>2
  <2> QED BY <2>1, <2>2, <2>3, <2>4, <2>5, <2>6
<1>5. Removals'
  <2> SUFFICES ASSUME NEW i \in Nat, NEW id \in Ids
               PROVE  /\ Is(i, "delete", id)' => i = 1 /\ \E j \in Nat : Is(j, "wipe", id)'
                      /\ Is(i, "wipe", id)' =>
                            /\ id \notin DOMAIN mUsers /\ id # 0
                            /\ \A j \in Nat, other \in Ids : Is(j, "wipe", other)' => other = id
    BY <1>0 DEF Removals
  <2>1. ~Is(i, "delete", id)'
    <3> SUFFICES ASSUME Is(i, "delete", id)' PROVE FALSE
      OBVIOUS
    <3>1. Is(i + 1, "delete", id) /\ i + 1 \in Nat
      BY <1>1
    <3>2. i + 1 = 1
      BY <3>1 DEF Removals, QueueInv
    <3>3. i \in 1 .. Len(todo')
      <4>1. todo' \in Seq(TodoStep)
        BY Popped
      <4> QED BY <4>1, LenProperties DEF Is
    <3> QED BY <3>2, <3>3
  <2>2. ASSUME Is(i, "wipe", id)'
        PROVE  /\ id \notin DOMAIN mUsers /\ id # 0
               /\ \A j \in Nat, other \in Ids : Is(j, "wipe", other)' => other = id
    <3>1. Is(i + 1, "wipe", id) /\ i + 1 \in Nat
      BY <1>1, <2>2
    <3>2. /\ id \notin DOMAIN mUsers /\ id # 0
          /\ \A j \in Nat, other \in Ids : Is(j, "wipe", other) => other = id
      BY <3>1 DEF Removals, QueueInv
    <3> QED BY <1>1, <3>2
  <2> QED BY <2>1, <2>2
<1>6. Returns'
  <2> SUFFICES ASSUME NEW i \in Nat, NEW id \in Ids
               PROVE  /\ Is(i, "created", id)' =>
                            /\ i = Len(todo') /\ id # 0
                            /\ id \in Complete(mUsers) \cap mUserIds
                            /\ todo'[i].value = mUsers[id].made
                            /\ ~wiped => \A p \in promised' : p[1] = id => id \in reissued
                            /\ removals[id] > 0 => id \in reissued
                      /\ Is(i, "removed", id)' =>
                            /\ i = Len(todo')
                            /\ id \in DOMAIN mUsers \ Complete(mUsers)
                            /\ todo'[i].value = mUsers[id].made
    BY <1>0 DEF Returns, Complete
  <2>1. CASE Len(todo) = 1
    <3>1. todo' \in Seq(TodoStep) /\ Len(todo') = 0
      BY <1>1, <2>1, Popped
    <3>2. i \notin DOMAIN todo'
      BY <3>1, LenProperties
    <3> QED BY <3>2 DEF Is
  <2>2. CASE promised' = promised
    <3>1. ASSUME Is(i, "created", id)'
          PROVE  /\ i = Len(todo') /\ id # 0
                 /\ id \in Complete(mUsers) \cap mUserIds
                 /\ todo'[i].value = mUsers[id].made
                 /\ ~wiped => \A p \in promised' : p[1] = id => id \in reissued
                 /\ removals[id] > 0 => id \in reissued
      <4>1. Is(i + 1, "created", id) /\ todo'[i] = todo[i + 1] /\ i + 1 \in Nat
        BY <1>1, <3>1
      <4> QED BY <1>1, <2>2, <4>1 DEF Returns, QueueInv
    <3>2. ASSUME Is(i, "removed", id)'
          PROVE  /\ i = Len(todo')
                 /\ id \in DOMAIN mUsers \ Complete(mUsers)
                 /\ todo'[i].value = mUsers[id].made
      <4>1. Is(i + 1, "removed", id) /\ todo'[i] = todo[i + 1] /\ i + 1 \in Nat
        BY <1>1, <3>2
      <4> QED BY <1>1, <4>1 DEF Returns, QueueInv
    <3> QED BY <3>1, <3>2
  <2> QED BY <2>1, <2>2
<1> QED BY <1>3, <1>4, <1>5, <1>6 DEF QueueInv

-----------------------------------------------------------------------------
(* What changes on disk                                                    *)

\* The history that the invariants of the disk speak of stays as it is.
Quiet == UNCHANGED <<wiped, created, removed, promised, reissued>>

\* All files read as before.
SameContent == \A f \in Files : Content(f)' = Content(f)

\* Only the content of file g changes.
OnlyContentOf(g) == \A f \in Files \ {g} : Content(f)' = Content(f)

\* Nothing is lost when all files read as before and promises are withdrawn.
LEMMA StoreKept ==
    ASSUME TypeOK, StoreInv, SameContent, wiped' = wiped \/ wiped', removed' = removed,
           promised' \subseteq promised, reissued \subseteq reissued',
           created' \in Nat, created' >= created,
           created' > 0 => List \in UserList /\ OnDisk(0)
    PROVE  StoreInv'
<1>1. List' = List /\ \A id \in Ids : Content(id)' = Content(id)
  BY DEF SameContent, Files, List
<1>2. \A id \in Ids : OnDisk(id)' = OnDisk(id)
  BY <1>1 DEF OnDisk
<1>3. created \in Nat /\ promised \subseteq Ids \X Nat
  BY UserAssumption DEF TypeOK
<1>4. ListedOnDisk'
  BY <1>1, <1>2 DEF ListedOnDisk, StoreInv
<1>5. SerialsOnDisk'
  BY <1>1, <1>2 DEF SerialsOnDisk, StoreInv
<1>6. MadeOnDisk'
  <2> SUFFICES ASSUME NEW a \in Ids, OnDisk(a)
               PROVE  /\ Content(a).made <= created' /\ (a # 0 => Content(a).made # 0)
                      /\ \A b \in Ids : OnDisk(b) /\ Content(a).made = Content(b).made => a = b
    BY <1>1, <1>2 DEF MadeOnDisk
  <2>1. /\ Content(a).made <= created /\ (a # 0 => Content(a).made # 0)
        /\ \A b \in Ids : OnDisk(b) /\ Content(a).made = Content(b).made => a = b
    BY DEF MadeOnDisk, StoreInv
  <2>2. Content(a).made \in Nat
    BY UserAssumption DEF OnDisk, User
  <2> QED BY <1>3, <2>1, <2>2
<1>7. RemovedOnDisk'
  BY <1>1, <1>2 DEF RemovedOnDisk, StoreInv
<1>8. OwnerOnDisk'
  BY <1>1, <1>2, NamesDiffer DEF OwnerOnDisk, StoreInv
<1>9. PromisedOnDisk'
  <2> SUFFICES ASSUME ~wiped, NEW p \in promised, p[1] \notin reissued
               PROVE  OnDisk(p[1])' /\ ~Content(p[1])'.partial /\ Content(p[1])'.made = p[2]
    BY DEF PromisedOnDisk
  <2>1. p[1] \in Ids
    BY <1>3
  <2> QED BY <1>1, <1>2, <2>1 DEF PromisedOnDisk, StoreInv
<1> QED BY <1>4, <1>5, <1>6, <1>7, <1>8, <1>9 DEF StoreInv

\* Users on disk while none is about to be deleted.
LEMMA LoadedUsers ==
    ASSUME Loaded, phase # "down", ~wiped, \A i \in Nat, id \in Ids : ~Is(i, "delete", id)
    PROVE  \A id \in Ids : OnDisk(id) =>
              /\ id \in DOMAIN mUsers
              /\ Content(id).serial = mUsers[id].serial /\ Content(id).made = mUsers[id].made
  BY DEF Loaded

\* What is written of a user agrees with memory, and the list with it is there.
LEMMA UserAtHand ==
    ASSUME TypeOK, QueueInv, MemoryInv, phase # "down", NEW id \in Ids, Is(1, "write", id)
    PROVE  LET v == todo[1].value IN
           /\ v \in User /\ id \in DOMAIN mUsers
           /\ v.serial = mUsers[id].serial /\ v.made = mUsers[id].made
           /\ mUsers[id].partial => v.partial
           /\ id = 0 => ~v.partial
           /\ ~wiped /\ id \notin reissued => \A p \in promised : p[1] = id => ~v.partial
           /\ List = Current
           /\ \A j \in Nat, other \in Ids : ~Is(j, "delete", other) /\ ~Is(j, "wipe", other)
<1> DEFINE v == todo[1].value
<1>1. v \in User
  BY StepTypes
<1>2. /\ id \in DOMAIN mUsers
      /\ v.serial = mUsers[id].serial /\ v.made = mUsers[id].made
      /\ v = mUsers[id] \/ (v.partial /\ \E j \in Nat : Is(j, "created", id))
      /\ \A j \in Nat : Is(j, "write", ListFile) => j < 1
      /\ \A j \in Nat, other \in Ids : ~Is(j, "delete", other) /\ ~Is(j, "wipe", other)
  BY DEF UserWrites, QueueInv
<1>3. \A j \in Nat : ~Is(j, "write", ListFile)
  <2> SUFFICES ASSUME NEW j \in Nat, Is(j, "write", ListFile) PROVE FALSE
    OBVIOUS
  <2>1. j \in 1 .. Len(todo)
    BY StepTypes
  <2> QED BY <1>2, <2>1
<1>4. List = Current
  BY <1>3 DEF Synced, MemoryInv
<1>5. id = 0 => ~v.partial
  <2>1. 0 \in Complete(mUsers)
    BY DEF OwnerInMemory, MemoryInv
  <2>2. \A j \in Nat : ~Is(j, "created", 0)
    BY NamesDiffer DEF Returns, QueueInv
  <2> QED BY <1>2, <2>1, <2>2 DEF Complete
<1>6. ASSUME ~wiped, id \notin reissued, NEW p \in promised, p[1] = id PROVE ~v.partial
  <2>1. id \in Complete(mUsers)
    BY <1>6 DEF PromisedInMemory, MemoryInv
  <2>2. \A j \in Nat : ~Is(j, "created", id)
    BY <1>6 DEF Returns, QueueInv
  <2> QED BY <1>2, <2>1, <2>2 DEF Complete
<1> QED BY <1>1, <1>2, <1>4, <1>5, <1>6

LEMMA CurrentIsList ==
    ASSUME TypeOK
    PROVE  /\ Current \in UserList /\ Current.ids = DOMAIN mUsers
           /\ Current.next = mNextSerialNumber /\ Current.version = mUserVersion
  BY DEF TypeOK, Current, UserList

\* The file of a user is written.
LEMMA UserWritten ==
    ASSUME TypeOK, QueueInv, MemoryInv, StoreInv, phase # "down", Quiet,
           NEW id \in Ids, Is(1, "write", id),
           Content(id)' = todo[1].value, OnlyContentOf(id)
    PROVE  StoreInv'
<1> DEFINE v == todo[1].value
<1>1. /\ v \in User /\ id \in DOMAIN mUsers
      /\ v.serial = mUsers[id].serial /\ v.made = mUsers[id].made
      /\ mUsers[id].partial => v.partial
      /\ id = 0 => ~v.partial
      /\ ~wiped /\ id \notin reissued => \A p \in promised : p[1] = id => ~v.partial
      /\ List = Current
      /\ \A j \in Nat, other \in Ids : ~Is(j, "delete", other) /\ ~Is(j, "wipe", other)
  BY UserAtHand
<1>2. List' = List
  BY NamesDiffer DEF OnlyContentOf, Files, List
<1>3. Content(id)' = v /\ OnDisk(id)' /\ \A a \in Ids \ {id} : Content(a)' = Content(a) /\ OnDisk(a)' = OnDisk(a)
  BY <1>1 DEF OnlyContentOf, Files, OnDisk
<1>4. /\ Current \in UserList /\ Current.ids = DOMAIN mUsers /\ Current.next = mNextSerialNumber
      /\ Current.version = mUserVersion
  BY CurrentIsList
<1>5. wiped' = wiped /\ created' = created /\ removed' = removed /\ promised' = promised /\ reissued' = reissued
  BY DEF Quiet
<1> HIDE DEF v
<1>6. ~wiped => \A a \in Ids : OnDisk(a)' =>
         a \in DOMAIN mUsers /\ Content(a)'.serial = mUsers[a].serial /\ Content(a)'.made = mUsers[a].made
  <2> SUFFICES ASSUME ~wiped, NEW a \in Ids, OnDisk(a)'
               PROVE  /\ a \in DOMAIN mUsers
                      /\ Content(a)'.serial = mUsers[a].serial /\ Content(a)'.made = mUsers[a].made
    OBVIOUS
  <2>1. CASE a = id
    BY <1>1, <1>3, <2>1
  <2>2. CASE a # id
    <3>1. OnDisk(a) /\ Content(a)' = Content(a)
      BY <1>3, <2>2
    <3> QED BY <1>1, <3>1, LoadedUsers DEF MemoryInv
  <2> QED BY <2>1, <2>2
<1>7. ListedOnDisk'
  <2> SUFFICES ASSUME ~wiped, NEW a \in Ids, OnDisk(a)'
               PROVE  List \in UserList /\ a \in List.ids /\ Content(a)'.serial < List.next
    BY <1>2, <1>5 DEF ListedOnDisk
  <2>1. a \in DOMAIN mUsers /\ Content(a)'.serial = mUsers[a].serial
    BY <1>6
  <2>2. mUsers[a].serial < mNextSerialNumber
    BY <2>1 DEF Serials, MemoryInv
  <2> QED BY <1>1, <1>4, <2>1, <2>2
<1>8. SerialsOnDisk'
  <2> SUFFICES ASSUME ~wiped, NEW a \in Ids, NEW b \in Ids, OnDisk(a)', OnDisk(b)',
                      Content(a)'.serial = Content(b)'.serial
               PROVE  a = b
    BY <1>5 DEF SerialsOnDisk
  <2> QED BY <1>6 DEF Serials, MemoryInv
<1>9. MadeOnDisk'
  <2> SUFFICES ASSUME NEW a \in Ids, OnDisk(a)'
               PROVE  /\ Content(a)'.made <= created /\ (a # 0 => Content(a)'.made # 0)
                      /\ \A b \in Ids : OnDisk(b)' /\ Content(a)'.made = Content(b)'.made => a = b
    BY <1>5 DEF MadeOnDisk
  <2>1. /\ mUsers[id].made <= created /\ (id # 0 => mUsers[id].made # 0)
        /\ \A b \in Ids : OnDisk(b) /\ mUsers[id].made = Content(b).made => id = b
    BY <1>1 DEF MadeInMemory, MemoryInv
  <2>2. ASSUME NEW b \in Ids, b # id, OnDisk(b)'
        PROVE  /\ Content(b)' = Content(b) /\ OnDisk(b)
               /\ Content(b).made <= created /\ (b # 0 => Content(b).made # 0)
               /\ \A c \in Ids : OnDisk(c) /\ Content(b).made = Content(c).made => b = c
    BY <1>3, <2>2 DEF MadeOnDisk, StoreInv
  <2>3. CASE a = id
    BY <1>1, <1>3, <2>1, <2>2, <2>3
  <2>4. CASE a # id
    BY <1>1, <1>3, <2>1, <2>2, <2>4
  <2> QED BY <2>3, <2>4
<1>10. RemovedOnDisk'
  <2> SUFFICES ASSUME NEW a \in Ids, OnDisk(a)', Content(a)'.made \in removed
               PROVE  Content(a)'.partial
    BY <1>5 DEF RemovedOnDisk
  <2>1. CASE a = id
    BY <1>1, <1>3, <2>1 DEF RemovedInMemory, MemoryInv
  <2>2. CASE a # id
    BY <1>3, <2>2 DEF RemovedOnDisk, StoreInv
  <2> QED BY <2>1, <2>2
<1>11. OwnerOnDisk'
  <2>1. OnDisk(0) => OnDisk(0)'
    BY <1>3, NamesDiffer
  <2>2. OnDisk(0)' => ~Content(0)'.partial
    BY <1>1, <1>3, NamesDiffer DEF OwnerOnDisk, StoreInv
  <2> QED BY <1>2, <1>5, <2>1, <2>2 DEF OwnerOnDisk, StoreInv
<1>12. PromisedOnDisk'
  <2> SUFFICES ASSUME ~wiped, NEW p \in promised, p[1] \notin reissued
               PROVE  OnDisk(p[1])' /\ ~Content(p[1])'.partial /\ Content(p[1])'.made = p[2]
    BY <1>5 DEF PromisedOnDisk
  <2>0. p[1] \in Ids
    BY DEF TypeOK
  <2>1. CASE p[1] = id
    <3>1. mUsers[id].made = p[2]
      BY <2>1 DEF PromisedInMemory, MemoryInv
    <3> QED BY <1>1, <1>3, <2>1, <3>1
  <2>2. CASE p[1] # id
    BY <1>3, <2>0, <2>2 DEF PromisedOnDisk, StoreInv
  <2> QED BY <2>1, <2>2
<1> QED BY <1>7, <1>8, <1>9, <1>10, <1>11, <1>12 DEF StoreInv

\* The list is written.
LEMMA ListWritten ==
    ASSUME TypeOK, QueueInv, MemoryInv, StoreInv, phase # "down", Quiet,
           Is(1, "write", ListFile),
           Content(ListFile)' = todo[1].value, OnlyContentOf(ListFile)
    PROVE  StoreInv'
<1>1. List' = Current
  BY DEF List, ListWrites, QueueInv
<1>2. \A a \in Ids : Content(a)' = Content(a) /\ OnDisk(a)' = OnDisk(a)
  BY NamesDiffer DEF OnlyContentOf, Files, OnDisk
<1>3. /\ Current \in UserList /\ Current.ids = DOMAIN mUsers /\ Current.next = mNextSerialNumber
      /\ Current.version = mUserVersion
  BY CurrentIsList
<1>4. wiped' = wiped /\ created' = created /\ removed' = removed /\ promised' = promised /\ reissued' = reissued
  BY DEF Quiet
<1>5. \A i \in Nat, a \in Ids : ~Is(i, "delete", a)
  <2> SUFFICES ASSUME NEW i \in Nat, NEW a \in Ids, Is(i, "delete", a) PROVE FALSE
    OBVIOUS
  <2>1. i = 1
    BY DEF Removals, QueueInv
  <2> QED BY <2>1 DEF Is
<1>6. ListedOnDisk'
  <2> SUFFICES ASSUME ~wiped, NEW a \in Ids, OnDisk(a)
               PROVE  a \in DOMAIN mUsers /\ Content(a).serial < mNextSerialNumber
    BY <1>1, <1>2, <1>3, <1>4 DEF ListedOnDisk
  <2>1. a \in DOMAIN mUsers /\ Content(a).serial = mUsers[a].serial
    BY <1>5, LoadedUsers DEF MemoryInv
  <2> QED BY <2>1 DEF Serials, MemoryInv
<1>7. SerialsOnDisk' /\ MadeOnDisk' /\ RemovedOnDisk'
  BY <1>2, <1>4 DEF SerialsOnDisk, MadeOnDisk, RemovedOnDisk, StoreInv
<1>8. OwnerOnDisk'
  <2>1. 0 \in DOMAIN mUsers /\ (mUserVersion = 1 => OnDisk(0))
    BY DEF OwnerInMemory, MemoryInv, Complete
  <2> QED BY <1>1, <1>2, <1>3, <1>4, <2>1, NamesDiffer DEF OwnerOnDisk, StoreInv
<1>9. PromisedOnDisk'
  <2>1. \A p \in promised : p[1] \in Ids
    BY DEF TypeOK
  <2> QED BY <1>2, <1>4, <2>1 DEF PromisedOnDisk, StoreInv
<1> QED BY <1>6, <1>7, <1>8, <1>9 DEF StoreInv

\* The file of a user is deleted.
LEMMA UserDeleted ==
    ASSUME TypeOK, QueueInv, MemoryInv, StoreInv, phase # "down", Quiet,
           NEW id \in Ids, Is(1, "delete", id),
           Content(id)' = None, OnlyContentOf(id)
    PROVE  StoreInv' /\ id \notin DOMAIN mUsers /\ id # 0
<1>1. id \notin DOMAIN mUsers /\ id # 0
  BY DEF Removals, QueueInv
<1>2. /\ ~OnDisk(id)' /\ List' = List
      /\ \A a \in Ids \ {id} : Content(a)' = Content(a) /\ OnDisk(a)' = OnDisk(a)
  BY NamesDiffer, NotNone DEF OnlyContentOf, Files, OnDisk, List
<1>3. wiped' = wiped /\ created' = created /\ removed' = removed /\ promised' = promised /\ reissued' = reissued
  BY DEF Quiet
<1>4. ListedOnDisk' /\ SerialsOnDisk' /\ MadeOnDisk' /\ RemovedOnDisk'
  BY <1>2, <1>3 DEF ListedOnDisk, SerialsOnDisk, MadeOnDisk, RemovedOnDisk, StoreInv
<1>5. OwnerOnDisk'
  BY <1>1, <1>2, <1>3, NamesDiffer DEF OwnerOnDisk, StoreInv
<1>6. PromisedOnDisk'
  <2> SUFFICES ASSUME ~wiped, NEW p \in promised, p[1] \notin reissued
               PROVE  OnDisk(p[1])' /\ ~Content(p[1])'.partial /\ Content(p[1])'.made = p[2]
    BY <1>3 DEF PromisedOnDisk
  <2>1. p[1] \in Ids
    BY DEF TypeOK
  <2>2. p[1] # id
    BY <1>1 DEF PromisedInMemory, MemoryInv, Complete
  <2> QED BY <1>2, <2>1, <2>2 DEF PromisedOnDisk, StoreInv
<1> QED BY <1>1, <1>4, <1>5, <1>6 DEF StoreInv

\* A file that was not there is cut off.
LEMMA FileTorn ==
    ASSUME TypeOK, StoreInv, Quiet, NEW f \in Files,
           Content(f) = None, Content(f)' = Torn, OnlyContentOf(f)
    PROVE  StoreInv'
<1>1. \A a \in Ids : OnDisk(a)' = OnDisk(a) /\ (OnDisk(a) => Content(a)' = Content(a))
  <2> SUFFICES ASSUME NEW a \in Ids
               PROVE  OnDisk(a)' = OnDisk(a) /\ (OnDisk(a) => Content(a)' = Content(a))
    OBVIOUS
  <2>1. CASE a = f
    BY <2>1, NotNone DEF OnDisk
  <2>2. CASE a # f
    BY <2>2 DEF OnDisk, OnlyContentOf, Files
  <2> QED BY <2>1, <2>2
<1>2. List' = List \/ (List \notin UserList /\ List' \notin UserList)
  <2>1. CASE f = ListFile
    BY <2>1, NotNone DEF List
  <2>2. CASE f # ListFile
    BY <2>2 DEF OnlyContentOf, Files, List
  <2> QED BY <2>1, <2>2
<1>3. wiped' = wiped /\ created' = created /\ removed' = removed /\ promised' = promised /\ reissued' = reissued
  BY DEF Quiet
<1>4. ListedOnDisk'
  BY <1>1, <1>2, <1>3 DEF ListedOnDisk, StoreInv
<1>5. SerialsOnDisk' /\ MadeOnDisk' /\ RemovedOnDisk'
  BY <1>1, <1>3 DEF SerialsOnDisk, MadeOnDisk, RemovedOnDisk, StoreInv
<1>6. OwnerOnDisk'
  BY <1>1, <1>2, <1>3, NamesDiffer DEF OwnerOnDisk, StoreInv
<1>7. PromisedOnDisk'
  <2>1. \A p \in promised : p[1] \in Ids
    BY DEF TypeOK
  <2> QED BY <1>1, <1>3, <2>1 DEF PromisedOnDisk, StoreInv
<1> QED BY <1>4, <1>5, <1>6, <1>7 DEF StoreInv

-----------------------------------------------------------------------------
(* The steps on disk                                                       *)

\* The parts of the memory's invariant that no file has a part in.
LEMMA MemoryKept ==
    ASSUME TypeOK, MemoryInv, UNCHANGED <<memory, removals, phase>>, Quiet
    PROVE  /\ Serials' /\ IdsKnown' /\ RemovedInMemory' /\ PromisedInMemory'
           /\ mUsers' = mUsers /\ Current' = Current /\ phase' = phase
<1>1. /\ mUsers' = mUsers /\ mUserIds' = mUserIds /\ mRemovingUserIds' = mRemovingUserIds
      /\ mNextSerialNumber' = mNextSerialNumber /\ mUserVersion' = mUserVersion
      /\ removals' = removals /\ phase' = phase
  BY DEF memory
<1>2. wiped' = wiped /\ removed' = removed /\ promised' = promised /\ reissued' = reissued
  BY DEF Quiet
<1>3. Serials'
  BY <1>1, <1>2 DEF Serials, MemoryInv
<1>4. IdsKnown'
  BY <1>1 DEF IdsKnown, Complete, Known, MemoryInv
<1>5. RemovedInMemory'
  BY <1>1, <1>2 DEF RemovedInMemory, MemoryInv
<1>6. PromisedInMemory'
  BY <1>1, <1>2 DEF PromisedInMemory, Complete, MemoryInv
<1> QED BY <1>1, <1>3, <1>4, <1>5, <1>6 DEF Current

\* A step that changes what no file says.
LEMMA MemoryTaken ==
    ASSUME TypeOK, MemoryInv, Taken, Head1.kind \notin {"write", "delete"}, SameContent,
           UNCHANGED <<memory, phase, wiped, created>>
    PROVE  Synced' /\ Loaded' /\ MadeInMemory' /\ OwnerInMemory'
<1>1. mUsers' = mUsers /\ mUserVersion' = mUserVersion /\ Current' = Current
  BY DEF memory, Current
<1>2. List' = List /\ \A id \in Ids : Content(id)' = Content(id) /\ OnDisk(id)' = OnDisk(id)
  BY DEF SameContent, Files, List, OnDisk
<1>3. \A i \in Nat : \A kind, f : Is(i, kind, f) /\ kind \in {"write", "delete"} =>
         i - 1 \in Nat /\ Is(i - 1, kind, f)'
  BY Popped
<1>4. DOMAIN mUsers \subseteq Ids
  BY DEF TypeOK
<1>5. Synced'
  <2> SUFFICES ASSUME phase # "down"
               PROVE  /\ (\E i \in Nat : Is(i, "write", ListFile)') \/ List = Current
                      /\ \A id \in DOMAIN mUsers :
                            (\E i \in Nat : Is(i, "write", id)') \/ Content(id) = mUsers[id]
    BY <1>1, <1>2, <1>4 DEF Synced
  <2>1. (\E i \in Nat : Is(i, "write", ListFile)') \/ List = Current
    BY <1>3 DEF Synced, MemoryInv
  <2>2. ASSUME NEW id \in DOMAIN mUsers
        PROVE  (\E i \in Nat : Is(i, "write", id)') \/ Content(id) = mUsers[id]
    BY <1>3 DEF Synced, MemoryInv
  <2> QED BY <2>1, <2>2
<1>6. Loaded'
  <2> SUFFICES ASSUME phase # "down", ~wiped, NEW id \in Ids, OnDisk(id)
               PROVE  \/ /\ id \in DOMAIN mUsers
                         /\ Content(id).serial = mUsers[id].serial
                         /\ Content(id).made = mUsers[id].made
                      \/ \E i \in Nat : Is(i, "delete", id)'
    BY <1>1, <1>2 DEF Loaded
  <2> QED BY <1>3 DEF Loaded, MemoryInv
<1>7. MadeInMemory'
  BY <1>1, <1>2 DEF MadeInMemory, MemoryInv
<1>8. OwnerInMemory'
  BY <1>1, <1>2, NamesDiffer DEF OwnerInMemory, Complete, MemoryInv
<1> QED BY <1>5, <1>6, <1>7, <1>8

LEMMA TypesTaken ==
    ASSUME TypeOK, Taken, UNCHANGED <<memory, removals, created, phase, wiped, leftover, reissued>>,
           disk' \in [Files -> FileStates],
           \A id \in Ids : Content(id)' \in User \cup {None, Torn},
           List' \in UserList \cup {None, Torn},
           userDir' \in [Ids -> SUBSET Nat],
           promised' \subseteq Ids \X Nat, removed' \subseteq 1 .. created
    PROVE  TypeOK' /\ phase # "down"
<1>1. phase # "down"
  BY DEF TypeOK, Taken
<1>2. todo' \in Seq(TodoStep)
  BY Popped
<1> QED BY <1>1, <1>2 DEF TypeOK, memory

\* A directory is whose it was while no directory is deleted and the user stays
\* on disk.
LEMMA DirsKept ==
    ASSUME TypeOK, DirsOwned, Taken, Head1.kind # "wipe",
           UNCHANGED <<userDir, wiped, leftover>>,
           ~wiped => \A a \in Ids : OnDisk(a) /\ ~(\E i \in Nat : Is(i, "wipe", a)) =>
              OnDisk(a)' /\ Content(a)'.made = Content(a).made
    PROVE  DirsOwned'
<1> SUFFICES ASSUME ~wiped, NEW a \in Ids \ (leftover \cup {0}), userDir[a] # {}
             PROVE  \/ \E i \in Nat : Is(i, "wipe", a)'
                    \/ OnDisk(a)' /\ userDir[a] \subseteq {Content(a)'.made}
  BY DEF DirsOwned
<1>1. ASSUME NEW i \in Nat, Is(i, "wipe", a) PROVE \E j \in Nat : Is(j, "wipe", a)'
  <2>1. i # 1
    BY <1>1, Popped
  <2> QED BY <1>1, <2>1, Popped
<1>2. CASE \E i \in Nat : Is(i, "wipe", a)
  BY <1>1, <1>2
<1>3. CASE ~(\E i \in Nat : Is(i, "wipe", a))
  BY <1>3 DEF DirsOwned
<1> QED BY <1>2, <1>3

LEMMA WriteFileStep ==
    ASSUME IInv, WriteFile
    PROVE  IInv'
<1>0. TypeOK /\ QueueInv /\ MemoryInv /\ StoreInv /\ DirsOwned
  BY DEF IInv
<1>1. /\ Taken /\ Head1.kind = "write"
      /\ disk' = [disk EXCEPT ![Head1.file] = Written(Head1.value)]
      /\ UNCHANGED <<memory, removals, created, phase, userDir, history>> /\ Quiet
      /\ UNCHANGED <<wiped, leftover, reissued, promised, removed>>
  BY DEF WriteFile, Does, Taken, StillHere, history, Quiet
<1>a. Is(1, "write", Head1.file) /\ Head1.file \in Files
  BY <1>0, <1>1, Popped, StepTypes
<1>b. PICK g \in Files : g = Head1.file
  BY <1>a
<1>c. PICK v : v = Head1.value
  OBVIOUS
<1>2. Is(1, "write", g) /\ todo[1].value = v
  BY <1>a, <1>b, <1>c DEF Head1
<1>3. /\ g = ListFile => v \in UserList
      /\ g \in Ids => v \in User
  BY <1>0, <1>2, StepTypes
<1>4. disk \in [Files -> FileStates] /\ Written(v) \in FileStates /\ Visible(Written(v)) = v
  BY <1>0, <1>3, FileTypes, Reads DEF TypeOK, Files
<1>5. disk' \in [Files -> FileStates] /\ Content(g)' = v /\ OnlyContentOf(g)
  BY <1>1, <1>b, <1>c, <1>4, ContentAfter DEF OnlyContentOf
<1>6. /\ \A id \in Ids : Content(id)' \in User \cup {None, Torn}
      /\ List' \in UserList \cup {None, Torn}
  BY <1>0, <1>3, <1>5, NamesDiffer DEF TypeOK, OnlyContentOf, Files, List
<1>7. TypeOK' /\ phase # "down"
  BY <1>0, <1>1, <1>5, <1>6, TypesTaken DEF TypeOK
<1>8. QueueInv'
  BY <1>0, <1>1, QueuePopped
<1>9. /\ Serials' /\ IdsKnown' /\ RemovedInMemory' /\ PromisedInMemory'
      /\ mUsers' = mUsers /\ Current' = Current /\ phase' = phase
  BY <1>0, <1>1, MemoryKept
<1>10. created' = created /\ mUserVersion' = mUserVersion /\ wiped' = wiped
  BY <1>1 DEF memory
<1>11. DOMAIN mUsers \subseteq Ids
  BY <1>0 DEF TypeOK
<1>12. CASE g = ListFile
  <2>1. \A a \in Ids : Content(a)' = Content(a) /\ OnDisk(a)' = OnDisk(a)
    BY <1>5, <1>12, NamesDiffer DEF OnlyContentOf, Files, OnDisk
  <2>2. List' = Current
    BY <1>0, <1>2, <1>5, <1>12 DEF List, ListWrites, QueueInv
  <2>3. StoreInv'
    BY <1>0, <1>1, <1>2, <1>5, <1>7, <1>12, ListWritten
  <2>4. Synced'
    <3> SUFFICES ASSUME NEW id \in DOMAIN mUsers
                 PROVE  (\E i \in Nat : Is(i, "write", id)') \/ Content(id) = mUsers[id]
      BY <1>9, <1>11, <2>1, <2>2 DEF Synced
    <3>1. ~Is(1, "write", id)
      BY <1>2, <1>11, <1>12, NamesDiffer DEF Is
    <3>2. \A i \in Nat : Is(i, "write", id) => i - 1 \in Nat /\ Is(i - 1, "write", id)'
      BY <1>0, <1>1, <3>1, Popped
    <3> QED BY <1>0, <1>7, <3>2 DEF Synced, MemoryInv
  <2>5. Loaded'
    <3> SUFFICES ASSUME phase # "down", ~wiped, NEW id \in Ids, OnDisk(id)
                 PROVE  \/ /\ id \in DOMAIN mUsers
                           /\ Content(id).serial = mUsers[id].serial
                           /\ Content(id).made = mUsers[id].made
                        \/ \E i \in Nat : Is(i, "delete", id)'
      BY <1>9, <1>10, <2>1 DEF Loaded
    <3>1. \A i \in Nat : Is(i, "delete", id) => i - 1 \in Nat /\ Is(i - 1, "delete", id)'
      BY <1>0, <1>1, Popped
    <3> QED BY <1>0, <3>1 DEF Loaded, MemoryInv
  <2>6. MadeInMemory' /\ OwnerInMemory'
    BY <1>0, <1>9, <1>10, <2>1, NamesDiffer DEF MadeInMemory, OwnerInMemory, Complete, MemoryInv
  <2>7. DirsOwned'
    BY <1>0, <1>1, <2>1, DirsKept
  <2> QED BY <1>7, <1>8, <1>9, <2>3, <2>4, <2>5, <2>6, <2>7 DEF IInv, MemoryInv
<1>13. CASE g \in Ids
  <2>1. /\ v \in User /\ g \in DOMAIN mUsers
        /\ v.serial = mUsers[g].serial /\ v.made = mUsers[g].made
        /\ List = Current
        /\ \A j \in Nat, other \in Ids : ~Is(j, "delete", other) /\ ~Is(j, "wipe", other)
    BY <1>0, <1>2, <1>7, <1>13, UserAtHand
  <2>2. /\ OnDisk(g)' /\ List' = List
        /\ \A a \in Ids \ {g} : Content(a)' = Content(a) /\ OnDisk(a)' = OnDisk(a)
    BY <1>5, <1>13, <2>1, NamesDiffer DEF OnlyContentOf, Files, OnDisk, List
  <2>3. StoreInv'
    BY <1>0, <1>1, <1>2, <1>5, <1>7, <1>13, UserWritten
  <2>4. Synced'
    <3> SUFFICES ASSUME NEW id \in DOMAIN mUsers
                 PROVE  (\E i \in Nat : Is(i, "write", id)') \/ Content(id)' = mUsers[id]
      BY <1>9, <2>1, <2>2 DEF Synced
    <3>1. CASE id = g
      <4>1. v = mUsers[g] \/ \E j \in Nat : j > 1 /\ Is(j, "write", g)
        BY <1>0, <1>2, <1>13 DEF UserWrites, QueueInv
      <4>2. \A j \in Nat : j > 1 /\ Is(j, "write", g) => j - 1 \in Nat /\ Is(j - 1, "write", g)'
        BY <1>0, <1>1, Popped
      <4> QED BY <1>5, <3>1, <4>1, <4>2
    <3>2. CASE id # g
      <4>1. ~Is(1, "write", id)
        BY <1>2, <3>2 DEF Is
      <4>2. \A i \in Nat : Is(i, "write", id) => i - 1 \in Nat /\ Is(i - 1, "write", id)'
        BY <1>0, <1>1, <4>1, Popped
      <4>3. Content(id)' = Content(id)
        BY <1>11, <2>2, <3>2
      <4> QED BY <1>0, <1>7, <4>2, <4>3 DEF Synced, MemoryInv
    <3> QED BY <3>1, <3>2
  <2>5. Loaded'
    <3> SUFFICES ASSUME phase # "down", ~wiped, NEW id \in Ids, OnDisk(id)'
                 PROVE  /\ id \in DOMAIN mUsers
                        /\ Content(id)'.serial = mUsers[id].serial
                        /\ Content(id)'.made = mUsers[id].made
      BY <1>9, <1>10 DEF Loaded
    <3>1. CASE id = g
      BY <1>5, <2>1, <3>1
    <3>2. CASE id # g
      BY <1>0, <2>1, <2>2, <3>2, LoadedUsers DEF MemoryInv
    <3> QED BY <3>1, <3>2
  <2>6. MadeInMemory'
    <3> SUFFICES ASSUME NEW a \in DOMAIN mUsers
                 PROVE  /\ mUsers[a].made <= created /\ (a # 0 => mUsers[a].made # 0)
                        /\ \A b \in DOMAIN mUsers : mUsers[a].made = mUsers[b].made => a = b
                        /\ \A b \in Ids : OnDisk(b)' /\ mUsers[a].made = Content(b)'.made => a = b
      BY <1>9, <1>10 DEF MadeInMemory
    <3>1. /\ mUsers[a].made <= created /\ (a # 0 => mUsers[a].made # 0)
          /\ \A b \in DOMAIN mUsers : mUsers[a].made = mUsers[b].made => a = b
          /\ \A b \in Ids : OnDisk(b) /\ mUsers[a].made = Content(b).made => a = b
      BY <1>0 DEF MadeInMemory, MemoryInv
    <3> QED BY <1>5, <2>1, <2>2, <3>1
  <2>7. OwnerInMemory'
    BY <1>0, <1>9, <1>10, <2>2, NamesDiffer DEF OwnerInMemory, Complete, MemoryInv
  <2>8. DirsOwned'
    <3>1. ~wiped => \A a \in Ids : OnDisk(a) => OnDisk(a)' /\ Content(a)'.made = Content(a).made
      BY <1>0, <1>5, <1>7, <2>1, <2>2, LoadedUsers DEF MemoryInv
    <3> QED BY <1>0, <1>1, <3>1, DirsKept
  <2> QED BY <1>7, <1>8, <1>9, <2>3, <2>4, <2>5, <2>6, <2>7, <2>8 DEF IInv, MemoryInv
<1> QED BY <1>2, <1>12, <1>13 DEF Files

\* A step that changes no content.
LEMMA SameContentStep ==
    ASSUME IInv, Taken, Head1.kind \notin {"write", "delete"}, SameContent,
           UNCHANGED <<memory, removals, created, phase, wiped, leftover, reissued>>,
           disk' \in [Files -> FileStates], userDir' \in [Ids -> SUBSET Nat],
           promised' \subseteq Ids \X Nat, removed' \subseteq 1 .. created
    PROVE  /\ TypeOK' /\ phase # "down"
           /\ Synced' /\ Loaded' /\ MadeInMemory' /\ OwnerInMemory'
           /\ List' = List /\ \A id \in Ids : Content(id)' = Content(id) /\ OnDisk(id)' = OnDisk(id)
<1>0. TypeOK /\ MemoryInv
  BY DEF IInv
<1>1. List' = List /\ \A id \in Ids : Content(id)' = Content(id) /\ OnDisk(id)' = OnDisk(id)
  BY DEF SameContent, Files, List, OnDisk
<1>2. /\ \A id \in Ids : Content(id)' \in User \cup {None, Torn}
      /\ List' \in UserList \cup {None, Torn}
  BY <1>0, <1>1 DEF TypeOK
<1>3. TypeOK' /\ phase # "down"
  BY <1>0, <1>2, TypesTaken
<1>4. Synced' /\ Loaded' /\ MadeInMemory' /\ OwnerInMemory'
  BY <1>0, MemoryTaken
<1> QED BY <1>1, <1>3, <1>4

\* Promises are kept and dead files stay dead if the history does not change.
LEMMA StoreQuiet ==
    ASSUME TypeOK, StoreInv, SameContent, Quiet
    PROVE  StoreInv'
<1>1. created \in Nat /\ (created > 0 => List \in UserList /\ OnDisk(0))
  BY UserAssumption DEF TypeOK, OwnerOnDisk, StoreInv
<1>2. /\ wiped' = wiped /\ removed' = removed /\ promised' \subseteq promised
      /\ reissued \subseteq reissued' /\ created' \in Nat /\ created' >= created
      /\ created' > 0 => List \in UserList /\ OnDisk(0)
  BY <1>1 DEF Quiet
<1> QED BY <1>2, StoreKept

LEMMA ReadFileStep ==
    ASSUME IInv, ReadFile
    PROVE  IInv'
<1>0. TypeOK /\ QueueInv /\ MemoryInv /\ StoreInv /\ DirsOwned
  BY DEF IInv
<1>1. /\ Taken /\ Head1.kind = "read"
      /\ disk' = [disk EXCEPT ![Head1.file] = RolledBack(disk[Head1.file])]
      /\ UNCHANGED <<memory, removals, created, phase, userDir, history>> /\ Quiet
      /\ UNCHANGED <<wiped, leftover, reissued, promised, removed>>
  BY DEF ReadFile, Does, Taken, StillHere, history, Quiet
<1>2. Is(1, "read", Head1.file) /\ Head1.file \in Files
  BY <1>0, <1>1, Popped, StepTypes
<1>3. PICK g \in Files : g = Head1.file
  BY <1>2
<1>4. /\ disk \in [Files -> FileStates] /\ RolledBack(disk[g]) \in FileStates
      /\ Visible(RolledBack(disk[g])) = Content(g)
  BY <1>0, FileTypes, Reads DEF TypeOK, Content
<1>5. PICK x \in FileStates : x = RolledBack(disk[g])
  BY <1>4
<1>6. disk' = [disk EXCEPT ![g] = x] /\ Visible(x) = Content(g)
  BY <1>1, <1>3, <1>4, <1>5
<1>7. disk' \in [Files -> FileStates] /\ SameContent
  BY <1>4, <1>6, ContentAfter DEF SameContent
<1>8. /\ userDir' \in [Ids -> SUBSET Nat]
      /\ promised' \subseteq Ids \X Nat /\ removed' \subseteq 1 .. created
  BY <1>0, <1>1 DEF TypeOK
<1>9. /\ TypeOK' /\ phase # "down"
      /\ Synced' /\ Loaded' /\ MadeInMemory' /\ OwnerInMemory'
      /\ \A id \in Ids : Content(id)' = Content(id) /\ OnDisk(id)' = OnDisk(id)
  BY <1>1, <1>7, <1>8, SameContentStep
<1>10. QueueInv'
  BY <1>0, <1>1, QueuePopped
<1>11. Serials' /\ IdsKnown' /\ RemovedInMemory' /\ PromisedInMemory'
  BY <1>0, <1>1, MemoryKept
<1>12. StoreInv'
  BY <1>0, <1>1, <1>7, StoreQuiet
<1>13. DirsOwned'
  BY <1>0, <1>1, <1>9, DirsKept
<1> QED BY <1>9, <1>10, <1>11, <1>12, <1>13 DEF IInv, MemoryInv

LEMMA DeleteFileStep ==
    ASSUME IInv, DeleteFile
    PROVE  IInv'
<1>0. TypeOK /\ QueueInv /\ MemoryInv /\ StoreInv /\ DirsOwned
  BY DEF IInv
<1>1. /\ Taken /\ Head1.kind = "delete"
      /\ disk' = [disk EXCEPT ![Head1.file] = NoFile]
      /\ UNCHANGED <<memory, removals, created, phase, userDir, history>> /\ Quiet
      /\ UNCHANGED <<wiped, leftover, reissued, promised, removed>>
  BY DEF DeleteFile, Does, Taken, StillHere, history, Quiet
<1>2. Is(1, "delete", Head1.file) /\ Head1.file \in Ids
  BY <1>0, <1>1, Popped, StepTypes
<1>3. PICK g \in Ids : g = Head1.file
  BY <1>2
<1>4. Is(1, "delete", g) /\ g \in Files
  BY <1>2, <1>3 DEF Files
<1>5. disk \in [Files -> FileStates] /\ NoFile \in FileStates /\ Visible(NoFile) = None
  BY <1>0, FileTypes, Reads DEF TypeOK
<1>6. disk' \in [Files -> FileStates] /\ Content(g)' = None /\ OnlyContentOf(g)
  BY <1>1, <1>3, <1>4, <1>5, ContentAfter DEF OnlyContentOf
<1>7. List' = List /\ \A a \in Ids \ {g} : Content(a)' = Content(a) /\ OnDisk(a)' = OnDisk(a)
  BY <1>6, NamesDiffer DEF OnlyContentOf, Files, OnDisk, List
<1>8. /\ \A id \in Ids : Content(id)' \in User \cup {None, Torn}
      /\ List' \in UserList \cup {None, Torn}
  BY <1>0, <1>6, <1>7 DEF TypeOK
<1>9. TypeOK' /\ phase # "down"
  BY <1>0, <1>1, <1>6, <1>8, TypesTaken DEF TypeOK
<1>10. QueueInv'
  BY <1>0, <1>1, QueuePopped
<1>11. StoreInv' /\ g \notin DOMAIN mUsers /\ g # 0
  BY <1>0, <1>1, <1>4, <1>6, <1>9, UserDeleted
<1>12. /\ Serials' /\ IdsKnown' /\ RemovedInMemory' /\ PromisedInMemory'
       /\ mUsers' = mUsers /\ Current' = Current /\ phase' = phase
  BY <1>0, <1>1, MemoryKept
<1>13. created' = created /\ mUserVersion' = mUserVersion /\ wiped' = wiped
  BY <1>1 DEF memory
<1>14. DOMAIN mUsers \subseteq Ids /\ ~OnDisk(g)'
  BY <1>0, <1>6, NotNone DEF TypeOK, OnDisk
<1>15. Synced'
  <2> SUFFICES /\ (\E i \in Nat : Is(i, "write", ListFile)') \/ List = Current
               /\ \A id \in DOMAIN mUsers :
                     (\E i \in Nat : Is(i, "write", id)') \/ Content(id) = mUsers[id]
    BY <1>7, <1>11, <1>12, <1>14 DEF Synced
  <2>1. ASSUME NEW i \in Nat, NEW f, Is(i, "write", f)
        PROVE  i - 1 \in Nat /\ Is(i - 1, "write", f)'
    <3>1. i # 1
      BY <1>0, <1>1, <2>1, Popped
    <3> QED BY <1>0, <1>1, <2>1, <3>1, Popped
  <2> QED BY <1>0, <1>9, <2>1 DEF Synced, MemoryInv
<1>16. Loaded'
  <2> SUFFICES ASSUME phase # "down", ~wiped, NEW id \in Ids, OnDisk(id)'
               PROVE  /\ id \in DOMAIN mUsers
                      /\ Content(id)'.serial = mUsers[id].serial
                      /\ Content(id)'.made = mUsers[id].made
    BY <1>12, <1>13 DEF Loaded
  <2>1. id # g /\ OnDisk(id) /\ Content(id)' = Content(id)
    BY <1>7, <1>14
  <2>2. \A i \in Nat : ~Is(i, "delete", id)
    <3> SUFFICES ASSUME NEW i \in Nat, Is(i, "delete", id) PROVE FALSE
      OBVIOUS
    <3>1. i = 1
      BY <1>0 DEF Removals, QueueInv
    <3> QED BY <1>4, <2>1, <3>1 DEF Is
  <2> QED BY <1>0, <2>1, <2>2 DEF Loaded, MemoryInv
<1>17. MadeInMemory' /\ OwnerInMemory'
  <2>1. OnDisk(0)' = OnDisk(0)
    BY <1>7, <1>11, NamesDiffer
  <2>2. \A b \in Ids : OnDisk(b)' => OnDisk(b) /\ Content(b)' = Content(b)
    BY <1>7, <1>14
  <2>3. MadeInMemory'
    BY <1>0, <1>12, <1>13, <2>2 DEF MadeInMemory, MemoryInv
  <2>4. OwnerInMemory'
    BY <1>0, <1>12, <1>13, <2>1 DEF OwnerInMemory, Complete, MemoryInv
  <2> QED BY <2>3, <2>4
<1>18. DirsOwned'
  <2>1. \E i \in Nat : Is(i, "wipe", g)
    BY <1>0, <1>4 DEF Removals, QueueInv
  <2>2. \A a \in Ids : OnDisk(a) /\ ~(\E i \in Nat : Is(i, "wipe", a)) =>
           OnDisk(a)' /\ Content(a)'.made = Content(a).made
    BY <1>7, <2>1
  <2> QED BY <1>0, <1>1, <2>2, DirsKept
<1> QED BY <1>9, <1>10, <1>11, <1>12, <1>15, <1>16, <1>17, <1>18 DEF IInv, MemoryInv

LEMMA WipeDirStep ==
    ASSUME IInv, WipeDir
    PROVE  IInv'
<1>0. TypeOK /\ QueueInv /\ MemoryInv /\ StoreInv /\ DirsOwned
  BY DEF IInv
<1>1. /\ Taken /\ Head1.kind = "wipe"
      /\ userDir' = [userDir EXCEPT ![Head1.file] = {}]
      /\ UNCHANGED <<memory, removals, created, phase, disk, history>> /\ Quiet
      /\ UNCHANGED <<wiped, leftover, reissued, promised, removed>>
  BY DEF WipeDir, Does, Taken, StillHere, history, Quiet
<1>2. Is(1, "wipe", Head1.file) /\ Head1.file \in Ids
  BY <1>0, <1>1, Popped, StepTypes
<1>3. PICK g \in Ids : g = Head1.file
  BY <1>2
<1>4. SameContent
  BY <1>1 DEF SameContent, Content
<1>5. /\ userDir' \in [Ids -> SUBSET Nat] /\ disk' \in [Files -> FileStates]
      /\ promised' \subseteq Ids \X Nat /\ removed' \subseteq 1 .. created
      /\ userDir'[g] = {} /\ \A a \in Ids \ {g} : userDir'[a] = userDir[a]
  BY <1>0, <1>1, <1>3 DEF TypeOK
<1>6. /\ TypeOK' /\ phase # "down"
      /\ Synced' /\ Loaded' /\ MadeInMemory' /\ OwnerInMemory'
      /\ \A id \in Ids : Content(id)' = Content(id) /\ OnDisk(id)' = OnDisk(id)
  BY <1>1, <1>4, <1>5, SameContentStep
<1>7. QueueInv'
  BY <1>0, <1>1, QueuePopped
<1>8. Serials' /\ IdsKnown' /\ RemovedInMemory' /\ PromisedInMemory'
  BY <1>0, <1>1, MemoryKept
<1>9. StoreInv'
  BY <1>0, <1>1, <1>4, StoreQuiet
<1>10. DirsOwned'
  <2> SUFFICES ASSUME ~wiped, NEW a \in Ids \ (leftover \cup {0})
               PROVE  \/ userDir'[a] = {}
                      \/ \E i \in Nat : Is(i, "wipe", a)'
                      \/ OnDisk(a)' /\ userDir'[a] \subseteq {Content(a)'.made}
    BY <1>1 DEF DirsOwned
  <2>1. CASE a = g
    BY <1>5, <2>1
  <2>2. CASE a # g
    <3>1. \A i \in Nat : ~Is(i, "wipe", a)
      BY <1>0, <1>2, <1>3, <2>2 DEF Removals, QueueInv
    <3> QED BY <1>0, <1>5, <1>6, <2>2, <3>1 DEF DirsOwned
  <2> QED BY <2>1, <2>2
<1> QED BY <1>6, <1>7, <1>8, <1>9, <1>10 DEF IInv, MemoryInv

\* The return is the last step of its operation.
LEMMA ReturnIsLast ==
    ASSUME TypeOK, QueueInv, Taken, NEW kind \in {"created", "removed"}, Head1.kind = kind
    PROVE  /\ Head1.file \in Ids /\ Is(1, kind, Head1.file) /\ Len(todo) = 1
           /\ \A i \in Nat : \A k, f : Is(i, k, f) => k = kind
<1>1. Is(1, kind, Head1.file)
  BY Popped
<1>2. Head1.file \in Ids
  BY <1>1, StepTypes
<1>3. PICK id \in Ids : id = Head1.file
  BY <1>2
<1>4. Len(todo) = 1
  <2>1. CASE kind = "created"
    <3>1. Is(1, "created", id)
      BY <1>1, <1>3, <2>1
    <3> QED BY <3>1 DEF Returns, QueueInv
  <2>2. CASE kind = "removed"
    <3>1. Is(1, "removed", id)
      BY <1>1, <1>3, <2>2
    <3> QED BY <3>1 DEF Returns, QueueInv
  <2> QED BY <2>1, <2>2
<1>5. ASSUME NEW i \in Nat, NEW k, NEW f, Is(i, k, f) PROVE k = kind
  <2>1. i \in 1 .. Len(todo)
    BY <1>5, StepTypes
  <2>2. i = 1
    BY <1>4, <2>1
  <2> QED BY <1>1, <1>5, <2>2 DEF Is
<1> QED BY <1>1, <1>2, <1>4, <1>5

LEMMA ReturnUserStep ==
    ASSUME IInv, ReturnUser
    PROVE  IInv'
<1>0. TypeOK /\ QueueInv /\ MemoryInv /\ StoreInv /\ DirsOwned
  BY DEF IInv
<1>1. /\ Taken /\ Head1.kind = "created"
      /\ promised' = promised \cup {<<Head1.file, Head1.value>>}
      /\ UNCHANGED <<memory, removals, created, phase, disk, userDir>>
      /\ UNCHANGED <<wiped, leftover, reissued, removed>>
  BY DEF ReturnUser, Does, Taken, StillHere
<1>2. /\ Head1.file \in Ids /\ Is(1, "created", Head1.file) /\ Len(todo) = 1
      /\ \A i \in Nat : \A k, f : Is(i, k, f) => k = "created"
  BY <1>0, <1>1, ReturnIsLast
<1>3. PICK g \in Ids : g = Head1.file
  BY <1>2
<1>4. /\ g \in Complete(mUsers) /\ Head1.value = mUsers[g].made
      /\ removals[g] > 0 => g \in reissued
  BY <1>0, <1>2, <1>3 DEF Returns, QueueInv, Head1
<1>5. SameContent
  BY <1>1 DEF SameContent, Content
<1>6. mUsers[g] \in User /\ mUsers[g].made \in Nat /\ ~mUsers[g].partial /\ g \in DOMAIN mUsers
  BY <1>0, <1>4, UserAssumption DEF TypeOK, Complete, User
<1>7. /\ userDir' \in [Ids -> SUBSET Nat] /\ disk' \in [Files -> FileStates]
      /\ promised' \subseteq Ids \X Nat /\ removed' \subseteq 1 .. created
  BY <1>0, <1>1, <1>3, <1>4, <1>6 DEF TypeOK
<1>8. /\ TypeOK' /\ phase # "down"
      /\ Synced' /\ Loaded' /\ MadeInMemory' /\ OwnerInMemory'
      /\ List' = List /\ \A id \in Ids : Content(id)' = Content(id) /\ OnDisk(id)' = OnDisk(id)
  BY <1>1, <1>5, <1>7, SameContentStep
<1>9. QueueInv'
  BY <1>0, <1>1, <1>2, QueuePopped
<1>10. Content(g) = mUsers[g] /\ OnDisk(g)
  <2>1. Content(g) = mUsers[g]
    BY <1>0, <1>2, <1>6, <1>8 DEF Synced, MemoryInv
  <2> QED BY <1>6, <2>1 DEF OnDisk
<1>11. /\ mUsers' = mUsers /\ mUserIds' = mUserIds /\ mRemovingUserIds' = mRemovingUserIds
       /\ mNextSerialNumber' = mNextSerialNumber /\ removals' = removals
  BY <1>1 DEF memory
<1>12. Serials' /\ IdsKnown' /\ RemovedInMemory'
  BY <1>0, <1>1, <1>11 DEF Serials, IdsKnown, Complete, Known, RemovedInMemory, MemoryInv
<1>13. removals[g] = 0 \/ g \in reissued
  BY <1>0, <1>4 DEF TypeOK
<1>14. \A p \in promised' : p \in promised \/ (p[1] = g /\ p[2] = mUsers[g].made)
  BY <1>1, <1>3, <1>4
<1>15. PromisedInMemory'
  <2> SUFFICES ASSUME ~wiped, NEW p \in promised', p[1] \notin reissued
               PROVE  p[1] \in Complete(mUsers) /\ mUsers[p[1]].made = p[2] /\ removals[p[1]] = 0
    BY <1>1, <1>11 DEF PromisedInMemory, Complete
  <2>1. CASE p \in promised
    BY <1>0, <1>8, <2>1 DEF PromisedInMemory, MemoryInv
  <2>2. CASE p[1] = g /\ p[2] = mUsers[g].made
    BY <1>4, <1>13, <2>2
  <2> QED BY <1>14, <2>1, <2>2
<1>16. ListedOnDisk' /\ SerialsOnDisk' /\ MadeOnDisk' /\ RemovedOnDisk' /\ OwnerOnDisk'
  BY <1>0, <1>1, <1>8, NamesDiffer
     DEF StoreInv, ListedOnDisk, SerialsOnDisk, MadeOnDisk, RemovedOnDisk, OwnerOnDisk
<1>17. PromisedOnDisk'
  <2> SUFFICES ASSUME ~wiped, NEW p \in promised', p[1] \notin reissued
               PROVE  OnDisk(p[1])' /\ ~Content(p[1])'.partial /\ Content(p[1])'.made = p[2]
    BY <1>1 DEF PromisedOnDisk
  <2>1. CASE p \in promised
    <3>1. p[1] \in Ids
      BY <1>0, <2>1 DEF TypeOK
    <3> QED BY <1>0, <1>8, <2>1, <3>1 DEF PromisedOnDisk, StoreInv
  <2>2. CASE p[1] = g /\ p[2] = mUsers[g].made
    BY <1>6, <1>8, <1>10, <2>2
  <2> QED BY <1>14, <2>1, <2>2
<1>18. DirsOwned'
  BY <1>0, <1>1, <1>8, DirsKept
<1> QED BY <1>8, <1>9, <1>12, <1>15, <1>16, <1>17, <1>18 DEF IInv, MemoryInv, StoreInv

LEMMA ReturnRemovedStep ==
    ASSUME IInv, ReturnRemoved
    PROVE  IInv'
<1>0. TypeOK /\ QueueInv /\ MemoryInv /\ StoreInv /\ DirsOwned
  BY DEF IInv
<1>1. /\ Taken /\ Head1.kind = "removed"
      /\ removed' = removed \cup {Head1.value}
      /\ UNCHANGED <<memory, removals, created, phase, disk, userDir>>
      /\ UNCHANGED <<wiped, leftover, reissued, promised>>
  BY DEF ReturnRemoved, Does, Taken, StillHere
<1>2. /\ Head1.file \in Ids /\ Is(1, "removed", Head1.file)
      /\ \A i \in Nat : \A k, f : Is(i, k, f) => k = "removed"
  BY <1>0, <1>1, ReturnIsLast
<1>3. PICK g \in Ids : g = Head1.file
  BY <1>2
<1>4. PICK m : m = Head1.value
  OBVIOUS
<1>5. g \in DOMAIN mUsers /\ mUsers[g].partial /\ mUsers[g].made = m
  BY <1>0, <1>2, <1>3, <1>4 DEF Returns, QueueInv, Head1, Complete
<1>6. SameContent
  BY <1>1 DEF SameContent, Content
<1>7. phase # "down" /\ mUsers[g] \in User
  BY <1>0, <1>1, <1>5 DEF TypeOK, Taken
<1>8. m \in 1 .. created
  <2>1. g # 0
    BY <1>0, <1>5, <1>7 DEF OwnerInMemory, MemoryInv, Complete
  <2>2. m <= created /\ m # 0
    BY <1>0, <1>5, <2>1 DEF MadeInMemory, MemoryInv
  <2>3. m \in Nat /\ created \in Nat
    BY <1>0, <1>5, <1>7, UserAssumption DEF User, TypeOK
  <2> QED BY <2>2, <2>3
<1>9. /\ userDir' \in [Ids -> SUBSET Nat] /\ disk' \in [Files -> FileStates]
      /\ promised' \subseteq Ids \X Nat /\ removed' \subseteq 1 .. created
  BY <1>0, <1>1, <1>4, <1>8 DEF TypeOK
<1>10. /\ TypeOK'
       /\ Synced' /\ Loaded' /\ MadeInMemory' /\ OwnerInMemory'
       /\ List' = List /\ \A id \in Ids : Content(id)' = Content(id) /\ OnDisk(id)' = OnDisk(id)
  BY <1>1, <1>6, <1>9, SameContentStep
<1>11. QueueInv'
  BY <1>0, <1>1, QueuePopped
<1>12. Content(g) = mUsers[g]
  BY <1>0, <1>2, <1>5, <1>7 DEF Synced, MemoryInv
<1>13. /\ mUsers' = mUsers /\ mUserIds' = mUserIds /\ mRemovingUserIds' = mRemovingUserIds
       /\ mNextSerialNumber' = mNextSerialNumber /\ removals' = removals /\ phase' = phase
  BY <1>1 DEF memory
<1>14. Serials' /\ IdsKnown' /\ PromisedInMemory'
  BY <1>0, <1>1, <1>13 DEF Serials, IdsKnown, Complete, Known, PromisedInMemory, MemoryInv
<1>15. RemovedInMemory'
  <2> SUFFICES ASSUME NEW a \in DOMAIN mUsers, mUsers[a].made \in removed' PROVE mUsers[a].partial
    BY <1>13 DEF RemovedInMemory
  <2>1. CASE mUsers[a].made \in removed
    BY <1>0, <2>1 DEF RemovedInMemory, MemoryInv
  <2>2. CASE mUsers[a].made = m
    <3>1. a = g
      BY <1>0, <1>5, <2>2 DEF MadeInMemory, MemoryInv
    <3> QED BY <1>5, <3>1
  <2> QED BY <1>1, <1>4, <2>1, <2>2
<1>16. RemovedOnDisk'
  <2> SUFFICES ASSUME NEW a \in Ids, OnDisk(a), Content(a).made \in removed' PROVE Content(a).partial
    BY <1>10 DEF RemovedOnDisk
  <2>1. CASE Content(a).made \in removed
    BY <1>0, <2>1 DEF RemovedOnDisk, StoreInv
  <2>2. CASE Content(a).made = m
    <3>1. a = g
      BY <1>0, <1>5, <2>2 DEF MadeInMemory, MemoryInv
    <3> QED BY <1>5, <1>12, <3>1
  <2> QED BY <1>1, <1>4, <2>1, <2>2
<1>17. ListedOnDisk' /\ SerialsOnDisk' /\ MadeOnDisk' /\ OwnerOnDisk'
  BY <1>0, <1>1, <1>10, NamesDiffer
     DEF StoreInv, ListedOnDisk, SerialsOnDisk, MadeOnDisk, OwnerOnDisk
<1>18. PromisedOnDisk'
  <2>1. \A p \in promised : p[1] \in Ids
    BY <1>0 DEF TypeOK
  <2> QED BY <1>0, <1>1, <1>10, <2>1 DEF PromisedOnDisk, StoreInv
<1>19. DirsOwned'
  BY <1>0, <1>1, <1>10, DirsKept
<1> QED BY <1>10, <1>11, <1>14, <1>15, <1>16, <1>17, <1>18, <1>19 DEF IInv, MemoryInv, StoreInv

-----------------------------------------------------------------------------
(* Death                                                                   *)

\* What is found of a file when the process dies.
LEMMA CutShortContent ==
    ASSUME TypeOK, NEW f \in Files, NEW x \in CutShort(f)
    PROVE  /\ x \in FileStates
           /\ \/ Visible(x) = Content(f)
              \/ /\ Is(1, "write", f) /\ Content(f) = None
                 /\ Visible(x) = Torn \/ Visible(x) = todo[1].value
              \/ Is(1, "delete", f) /\ Visible(x) = None
<1> DEFINE C == User \cup UserList \cup {None, Torn}
<1>1. disk[f] \in [base : C, bak : C] /\ FileStates = [base : C, bak : C] /\ None \in C /\ Torn \in C
  BY DEF TypeOK, FileStates
<1> HIDE DEF C
<1>2. CASE todo = <<>> \/ Head1.file # f
  BY <1>1, <1>2 DEF CutShort, Content
<1>3. CASE todo # <<>> /\ Head1.file = f
  <2>0. Is(1, Head1.kind, f) /\ Head1 = todo[1]
    <3>1. todo \in Seq(TodoStep) /\ todo # <<>>
      BY <1>3 DEF TypeOK
    <3>2. 1 \in DOMAIN todo
      BY <3>1, EmptySeq, LenProperties
    <3> QED BY <1>3, <3>2 DEF Is, Head1
  <2>1. CASE Head1.kind = "write"
    <3>1. x \in MidWrite(disk[f], Head1.value)
      BY <1>3, <2>1 DEF CutShort
    <3>2. Is(1, "write", f)
      BY <2>0, <2>1
    <3>3. Head1.value \in C
      BY <2>0, <3>2, StepTypes DEF Files, C
    <3>4. x = disk[f] \/ \E y \in {None, Torn, Head1.value} : x = [base |-> y, bak |-> Visible(disk[f])]
      BY <3>1 DEF MidWrite
    <3>5. CASE x = disk[f]
      BY <1>1, <3>5 DEF Content
    <3>6. ASSUME NEW y \in {None, Torn, Head1.value}, x = [base |-> y, bak |-> Visible(disk[f])]
          PROVE  /\ x \in FileStates
                 /\ Visible(x) = IF Content(f) # None THEN Content(f) ELSE y
      <4>1. Visible(disk[f]) \in C /\ y \in C
        BY <1>1, <3>3, <3>6 DEF Visible
      <4> QED BY <1>1, <3>6, <4>1 DEF Visible, Content
    <3>7. PICK w : w = Head1.value
      OBVIOUS
    <3> QED BY <2>0, <3>2, <3>4, <3>5, <3>6, <3>7
  <2>2. CASE Head1.kind = "read"
    <3>1. x \in MidRead(disk[f])
      BY <1>3, <2>2 DEF CutShort
    <3>2. \/ x = disk[f] \/ x = RolledBack(disk[f])
          \/ disk[f].bak # None /\ x = [disk[f] EXCEPT !.base = None]
      BY <3>1 DEF MidRead
    <3>3. CASE x = disk[f]
      BY <1>1, <3>3 DEF Content
    <3>4. CASE x = RolledBack(disk[f])
      BY <1>1, <3>4, FileTypes, Reads DEF Content
    <3>5. CASE disk[f].bak # None /\ x = [disk[f] EXCEPT !.base = None]
      BY <1>1, <3>5 DEF Content, Visible
    <3> QED BY <3>2, <3>3, <3>4, <3>5
  <2>3. CASE Head1.kind = "delete"
    <3>1. x \in MidDelete(disk[f])
      BY <1>3, <2>3 DEF CutShort
    <3>2. x = disk[f] \/ x = [disk[f] EXCEPT !.base = None] \/ x = NoFile
      BY <3>1 DEF MidDelete
    <3>3. CASE x = disk[f]
      BY <1>1, <3>3 DEF Content
    <3>4. CASE x = [disk[f] EXCEPT !.base = None]
      BY <1>1, <2>0, <2>3, <3>4 DEF Content, Visible
    <3>5. CASE x = NoFile
      BY <2>0, <2>3, <3>5, FileTypes, Reads
    <3> QED BY <3>2, <3>3, <3>4, <3>5
  <2>4. CASE Head1.kind \notin {"write", "read", "delete"}
    <3>1. x = disk[f]
      BY <1>3, <2>4 DEF CutShort
    <3> QED BY <1>1, <3>1 DEF Content
  <2> QED BY <2>1, <2>2, <2>3, <2>4
<1> QED BY <1>2, <1>3

\* A process that is dead knows nothing.
LEMMA DeadKnowsNothing ==
    ASSUME phase' = "down", todo' = <<>>, Forget
    PROVE  QueueInv' /\ MemoryInv'
<1>1. \A i, kind, f : ~Is(i, kind, f)'
  BY DEF Is
<1>2. QueueInv'
  BY <1>1 DEF QueueInv, ListWrites, UserWrites, Removals, Returns
<1>3. DOMAIN mUsers' = {} /\ mUserIds' = {}
  BY DEF Forget, Nobody
<1>4. Serials' /\ IdsKnown' /\ MadeInMemory' /\ RemovedInMemory'
  BY <1>3 DEF Serials, IdsKnown, Complete, MadeInMemory, RemovedInMemory
<1>5. Synced' /\ Loaded' /\ OwnerInMemory' /\ PromisedInMemory'
  BY DEF Synced, Loaded, OwnerInMemory, PromisedInMemory
<1> QED BY <1>2, <1>4, <1>5 DEF MemoryInv

LEMMA CrashStep ==
    ASSUME IInv, Crash
    PROVE  IInv'
<1>0. TypeOK /\ QueueInv /\ MemoryInv /\ StoreInv /\ DirsOwned
  BY DEF IInv
<1>1. /\ phase # "down" /\ phase' = "down" /\ todo' = <<>> /\ Forget
      /\ leftover' = leftover \cup {todo[i].file : i \in {j \in DOMAIN todo : todo[j].kind = "wipe"}}
      /\ UNCHANGED <<userDir, created, promised, removed, wiped, reissued>>
      /\ \E f \in DOMAIN disk : \E found \in CutShort(f) : disk' = [disk EXCEPT ![f] = found]
  BY DEF Crash
<1>2. Quiet
  BY <1>1 DEF Quiet
<1>f. PICK f \in Files : \E found \in CutShort(f) : disk' = [disk EXCEPT ![f] = found]
  BY <1>0, <1>1 DEF TypeOK
<1>3. PICK x \in CutShort(f) : disk' = [disk EXCEPT ![f] = x]
  BY <1>f
<1>4. /\ x \in FileStates
      /\ \/ Visible(x) = Content(f)
         \/ /\ Is(1, "write", f) /\ Content(f) = None
            /\ Visible(x) = Torn \/ Visible(x) = todo[1].value
         \/ Is(1, "delete", f) /\ Visible(x) = None
  BY <1>0, CutShortContent
<1>5. disk' \in [Files -> FileStates] /\ Content(f)' = Visible(x) /\ OnlyContentOf(f)
  <2>1. disk \in [Files -> FileStates]
    BY <1>0 DEF TypeOK
  <2> QED BY <1>3, <1>4, <2>1, ContentAfter DEF OnlyContentOf
<1>6. QueueInv' /\ MemoryInv'
  BY <1>1, DeadKnowsNothing
<1>7. StoreInv'
  <2>1. CASE Visible(x) = Content(f)
    <3>1. SameContent
      BY <1>5, <2>1 DEF SameContent, OnlyContentOf
    <3> QED BY <1>0, <1>2, <3>1, StoreQuiet
  <2>2. CASE Is(1, "write", f) /\ Content(f) = None /\ Visible(x) = Torn
    BY <1>0, <1>2, <1>5, <2>2, FileTorn
  <2>3. CASE Is(1, "write", f) /\ Visible(x) = todo[1].value
    <3>1. CASE f = ListFile
      BY <1>0, <1>1, <1>2, <1>5, <2>3, <3>1, ListWritten
    <3>2. CASE f \in Ids
      BY <1>0, <1>1, <1>2, <1>5, <2>3, <3>2, UserWritten
    <3> QED BY <3>1, <3>2 DEF Files
  <2>4. CASE Is(1, "delete", f) /\ Visible(x) = None
    <3>1. f \in Ids
      BY <1>0, <2>4, StepTypes
    <3> QED BY <1>0, <1>1, <1>2, <1>5, <2>4, <3>1, UserDeleted
  <2> QED BY <1>4, <2>1, <2>2, <2>3, <2>4
<1>8. /\ \A a \in Ids : \A i \in Nat : Is(i, "wipe", a) => a \in leftover'
      /\ leftover' \subseteq Ids /\ leftover \subseteq leftover'
  <2>1. DOMAIN todo \subseteq Nat
    BY <1>0, LenProperties DEF TypeOK
  <2>2. \A i \in DOMAIN todo : todo[i].kind = "wipe" => todo[i].file \in Ids
    <3> SUFFICES ASSUME NEW i \in DOMAIN todo, todo[i].kind = "wipe" PROVE todo[i].file \in Ids
      OBVIOUS
    <3>1. Is(i, "wipe", todo[i].file) /\ i \in Nat
      BY <2>1 DEF Is
    <3> QED BY <1>0, <3>1, StepTypes
  <2>3. \A a \in Ids : \A i \in Nat : Is(i, "wipe", a) => a \in leftover'
    BY <1>1 DEF Is
  <2>4. leftover \subseteq Ids
    BY <1>0 DEF TypeOK
  <2> QED BY <1>1, <2>2, <2>3, <2>4
<1>9. DirsOwned'
  <2> SUFFICES ASSUME ~wiped, NEW a \in Ids \ (leftover' \cup {0}), userDir[a] # {}
               PROVE  OnDisk(a)' /\ userDir[a] \subseteq {Content(a)'.made}
    BY <1>1 DEF DirsOwned
  <2>1. \A i \in Nat : ~Is(i, "wipe", a)
    BY <1>8
  <2>2. OnDisk(a) /\ userDir[a] \subseteq {Content(a).made}
    BY <1>0, <1>8, <2>1 DEF DirsOwned
  <2>3. Content(a)' = Content(a)
    <3>1. CASE a # f
      BY <1>5, <3>1 DEF OnlyContentOf, Files
    <3>2. CASE a = f
      <4>1. ~Is(1, "delete", f)
        BY <1>0, <2>1, <3>2 DEF Removals, QueueInv
      <4>2. Content(f) # None
        BY <2>2, <3>2, NotNone DEF OnDisk
      <4> QED BY <1>4, <1>5, <3>2, <4>1, <4>2
    <3> QED BY <3>1, <3>2
  <2> QED BY <2>2, <2>3 DEF OnDisk
<1>10. TypeOK'
  <2>1. /\ \A id \in Ids : Content(id)' \in User \cup {None, Torn}
        /\ List' \in UserList \cup {None, Torn}
    <3>1. /\ Visible(x) \in {Content(f), Torn, None, todo[1].value}
          /\ Visible(x) = todo[1].value => Is(1, "write", f) \/ Visible(x) \in {Content(f), None, Torn}
      BY <1>4
    <3>2. f = ListFile => Visible(x) \in UserList \cup {None, Torn}
      BY <1>0, <3>1, StepTypes DEF TypeOK, List
    <3>3. f \in Ids => Visible(x) \in User \cup {None, Torn}
      BY <1>0, <3>1, StepTypes DEF TypeOK
    <3>4. \A id \in Ids : Content(id)' \in User \cup {None, Torn}
      BY <1>0, <1>5, <3>3 DEF TypeOK, OnlyContentOf, Files
    <3>5. List' \in UserList \cup {None, Torn}
      BY <1>0, <1>5, <3>2, NamesDiffer DEF TypeOK, OnlyContentOf, Files, List
    <3> QED BY <3>4, <3>5
  <2>2. /\ DOMAIN mUsers' = {} /\ mUsers' = Nobody /\ mRemovingUserIds' = {} /\ mUserIds' = {}
        /\ mNextSerialNumber' = 0 /\ mNextUserId' = 1 /\ mUserVersion' = 0
        /\ removals' = [id \in Ids |-> 0]
    BY <1>1 DEF Forget, Nobody, MIN_USER_ID
  <2>3. mUsers' \in [DOMAIN mUsers' -> User]
    BY <2>2 DEF Nobody
  <2>4. todo' \in Seq(TodoStep)
    BY <1>1, EmptySeq
  <2>5. removals' \in [Ids -> Nat] /\ removals'[0] = 0
    BY <2>2, NamesDiffer
  <2> QED BY <1>0, <1>1, <1>5, <1>8, <2>1, <2>2, <2>3, <2>4, <2>5 DEF TypeOK
<1> QED BY <1>6, <1>7, <1>9, <1>10 DEF IInv

-----------------------------------------------------------------------------
(* What an operation leaves to do                                          *)

LEMMA StepKinds ==
    /\ \A u \in UserList : Step("write", ListFile, u) \in TodoStep
    /\ \A id \in Ids, u \in User : Step("write", id, u) \in TodoStep
    /\ \A f \in Files : Step("read", f, None) \in TodoStep
    /\ \A id \in Ids : Step("delete", id, None) \in TodoStep /\ Step("wipe", id, None) \in TodoStep
    /\ \A id \in Ids, m \in 0 .. MaxCreated :
          Step("created", id, m) \in TodoStep /\ Step("removed", id, m) \in TodoStep
    /\ \A kind, f, v : LET s == Step(kind, f, v) IN s.kind = kind /\ s.file = f /\ s.value = v
  BY DEF TodoStep, Step

\* The steps of an operation, one by one.
LEMMA Steps1 ==
    ASSUME NEW a \in TodoStep, todo' = <<a>>
    PROVE  /\ todo' \in Seq(TodoStep) /\ Len(todo') = 1
           /\ todo'[1] = a
           /\ \A i, kind, f : Is(i, kind, f)' <=>
                 \/ i = 1 /\ a.kind = kind /\ a.file = f
<1>1. DOMAIN todo' = 1 .. 1
  OBVIOUS
<1>2. todo'[1] = a
  OBVIOUS
<1>3. todo' \in Seq(TodoStep) /\ Len(todo') = 1
  OBVIOUS
<1>4. ASSUME NEW i, NEW kind, NEW f
      PROVE  Is(i, kind, f)' <=>
                 \/ i = 1 /\ a.kind = kind /\ a.file = f
  <2>1. i \in DOMAIN todo' <=> i = 1
    BY <1>1
  <2> QED BY <1>2, <2>1 DEF Is
<1> QED BY <1>2, <1>3, <1>4

LEMMA Steps2 ==
    ASSUME NEW a \in TodoStep, NEW b \in TodoStep, todo' = <<a, b>>
    PROVE  /\ todo' \in Seq(TodoStep) /\ Len(todo') = 2
           /\ todo'[1] = a /\ todo'[2] = b
           /\ \A i, kind, f : Is(i, kind, f)' <=>
                 \/ i = 1 /\ a.kind = kind /\ a.file = f
                 \/ i = 2 /\ b.kind = kind /\ b.file = f
<1>1. DOMAIN todo' = 1 .. 2
  OBVIOUS
<1>2. todo'[1] = a /\ todo'[2] = b
  OBVIOUS
<1>3. todo' \in Seq(TodoStep) /\ Len(todo') = 2
  OBVIOUS
<1>4. ASSUME NEW i, NEW kind, NEW f
      PROVE  Is(i, kind, f)' <=>
                 \/ i = 1 /\ a.kind = kind /\ a.file = f
                 \/ i = 2 /\ b.kind = kind /\ b.file = f
  <2>1. i \in DOMAIN todo' <=> i = 1 \/ i = 2
    BY <1>1
  <2> QED BY <1>2, <2>1 DEF Is
<1> QED BY <1>2, <1>3, <1>4

LEMMA Steps3 ==
    ASSUME NEW a \in TodoStep, NEW b \in TodoStep, NEW c \in TodoStep, todo' = <<a, b, c>>
    PROVE  /\ todo' \in Seq(TodoStep) /\ Len(todo') = 3
           /\ todo'[1] = a /\ todo'[2] = b /\ todo'[3] = c
           /\ \A i, kind, f : Is(i, kind, f)' <=>
                 \/ i = 1 /\ a.kind = kind /\ a.file = f
                 \/ i = 2 /\ b.kind = kind /\ b.file = f
                 \/ i = 3 /\ c.kind = kind /\ c.file = f
<1>1. DOMAIN todo' = 1 .. 3
  OBVIOUS
<1>2. todo'[1] = a /\ todo'[2] = b /\ todo'[3] = c
  OBVIOUS
<1>3. todo' \in Seq(TodoStep) /\ Len(todo') = 3
  OBVIOUS
<1>4. ASSUME NEW i, NEW kind, NEW f
      PROVE  Is(i, kind, f)' <=>
                 \/ i = 1 /\ a.kind = kind /\ a.file = f
                 \/ i = 2 /\ b.kind = kind /\ b.file = f
                 \/ i = 3 /\ c.kind = kind /\ c.file = f
  <2>1. i \in DOMAIN todo' <=> i = 1 \/ i = 2 \/ i = 3
    BY <1>1
  <2> QED BY <1>2, <2>1 DEF Is
<1> QED BY <1>2, <1>3, <1>4

LEMMA Steps4 ==
    ASSUME NEW a \in TodoStep, NEW b \in TodoStep, NEW c \in TodoStep, NEW d \in TodoStep, todo' = <<a, b, c, d>>
    PROVE  /\ todo' \in Seq(TodoStep) /\ Len(todo') = 4
           /\ todo'[1] = a /\ todo'[2] = b /\ todo'[3] = c /\ todo'[4] = d
           /\ \A i, kind, f : Is(i, kind, f)' <=>
                 \/ i = 1 /\ a.kind = kind /\ a.file = f
                 \/ i = 2 /\ b.kind = kind /\ b.file = f
                 \/ i = 3 /\ c.kind = kind /\ c.file = f
                 \/ i = 4 /\ d.kind = kind /\ d.file = f
<1>1. DOMAIN todo' = 1 .. 4
  OBVIOUS
<1>2. todo'[1] = a /\ todo'[2] = b /\ todo'[3] = c /\ todo'[4] = d
  OBVIOUS
<1>3. todo' \in Seq(TodoStep) /\ Len(todo') = 4
  OBVIOUS
<1>4. ASSUME NEW i, NEW kind, NEW f
      PROVE  Is(i, kind, f)' <=>
                 \/ i = 1 /\ a.kind = kind /\ a.file = f
                 \/ i = 2 /\ b.kind = kind /\ b.file = f
                 \/ i = 3 /\ c.kind = kind /\ c.file = f
                 \/ i = 4 /\ d.kind = kind /\ d.file = f
  <2>1. i \in DOMAIN todo' <=> i = 1 \/ i = 2 \/ i = 3 \/ i = 4
    BY <1>1
  <2> QED BY <1>2, <2>1 DEF Is
<1> QED BY <1>2, <1>3, <1>4

-----------------------------------------------------------------------------
(* The start                                                               *)

LEMMA BootFailsStep ==
    ASSUME IInv, BootFails
    PROVE  IInv'
<1>0. TypeOK /\ QueueInv /\ MemoryInv /\ StoreInv /\ DirsOwned
  BY DEF IInv
<1>1. /\ phase = "down"
      /\ disk' = [f \in DOMAIN disk |->
                    IF f = ListFile \/ f \in OnList.ids THEN RolledBack(disk[f]) ELSE disk[f]]
      /\ UNCHANGED <<phase, todo, memory, removals, userDir, created, crashes, history>>
  BY DEF BootFails
<1>2. disk' \in [Files -> FileStates] /\ SameContent
  <2>1. disk \in [Files -> FileStates] /\ DOMAIN disk = Files
    BY <1>0 DEF TypeOK
  <2>2. ASSUME NEW f \in Files
        PROVE  disk'[f] \in FileStates /\ Content(f)' = Content(f)
    <3>1. disk'[f] = RolledBack(disk[f]) \/ disk'[f] = disk[f]
      BY <1>1, <2>1
    <3>2. disk[f] \in FileStates
      BY <2>1
    <3> QED BY <3>1, <3>2, FileTypes, Reads DEF Content
  <2>3. DOMAIN disk' = Files /\ disk' = [f \in Files |-> disk'[f]]
    BY <1>1, <2>1
  <2> QED BY <2>2, <2>3 DEF SameContent
<1>3. List' = List /\ \A id \in Ids : Content(id)' = Content(id) /\ OnDisk(id)' = OnDisk(id)
  BY <1>2 DEF SameContent, Files, List, OnDisk
<1>4. /\ UNCHANGED <<mUsers, mRemovingUserIds, mUserIds, mNextSerialNumber, mNextUserId, mUserVersion>>
      /\ UNCHANGED <<phase, todo, removals, userDir, created>>
      /\ UNCHANGED <<promised, removed, wiped, leftover, reissued>>
  BY <1>1 DEF memory, history
<1>5. TypeOK'
  BY <1>0, <1>2, <1>3, <1>4 DEF TypeOK
<1>6. mUsers = Nobody /\ DOMAIN mUsers = {} /\ todo = <<>>
  BY <1>0, <1>1 DEF TypeOK, Nobody
<1>7. \A i, kind, f : ~Is(i, kind, f) /\ ~Is(i, kind, f)'
  BY <1>4, <1>6 DEF Is
<1>8. QueueInv'
  BY <1>7 DEF QueueInv, ListWrites, UserWrites, Removals, Returns
<1>9. MemoryInv'
  <2>1. Serials' /\ MadeInMemory' /\ RemovedInMemory'
    BY <1>4, <1>6 DEF Serials, MadeInMemory, RemovedInMemory
  <2>2. IdsKnown'
    BY <1>0, <1>4 DEF MemoryInv, IdsKnown, Complete, Known
  <2>3. Synced' /\ Loaded' /\ OwnerInMemory' /\ PromisedInMemory'
    BY <1>1, <1>4 DEF Synced, Loaded, OwnerInMemory, PromisedInMemory
  <2> QED BY <2>1, <2>2, <2>3 DEF MemoryInv
<1>10. StoreInv'
  BY <1>0, <1>2, <1>4, StoreQuiet DEF Quiet
<1>11. DirsOwned'
  BY <1>0, <1>3, <1>4, <1>7 DEF DirsOwned
<1> QED BY <1>5, <1>8, <1>9, <1>10, <1>11 DEF IInv

\* A list that cannot be found or read leaves no user but the owner; unless it
\* was lost there was none.
LEMMA NoListNoUsers ==
    ASSUME TypeOK, StoreInv, ~wiped, OnList \in {None, Torn}
    PROVE  /\ \A id \in Ids : ~OnDisk(id)
           /\ \A p \in promised : p[1] \in reissued
<1>1. List \notin UserList
  BY NotNone DEF List, OnList, Content
<1>2. \A id \in Ids : ~OnDisk(id)
  BY <1>1 DEF ListedOnDisk, StoreInv
<1>3. \A p \in promised : p[1] \in Ids
  BY DEF TypeOK
<1> QED BY <1>2, <1>3 DEF PromisedOnDisk, StoreInv

LEMMA SingleUserSteps ==
    ASSUME TypeOK, BootSingleUser
    PROVE  /\ todo' \in Seq(TodoStep)
           /\ \E n \in Nat :
                 /\ Is(n, "write", ListFile)' /\ todo'[n].value = Current'
                 /\ Is(n + 1, "write", 0)' /\ todo'[n + 1].value = Owner
                 /\ \A i, kind, f : Is(i, kind, f)' =>
                       \/ kind = "read"
                       \/ kind = "write" /\ i = n /\ f = ListFile
                       \/ kind = "write" /\ i = n + 1 /\ f = 0
<1>1. /\ mUserVersion' = 0 /\ mNextSerialNumber' = 1 /\ mUsers' = [id \in {0} |-> Owner]
      /\ todo' = (IF disk[ListFile].base # None THEN <<Read(ListFile)>> ELSE <<>>)
                 \o <<WriteUserList(mUsers', MIN_USER_ID, 0), WriteUser(0, Owner)>>
  BY DEF BootSingleUser, MIN_USER_ID, TypeOK
<1>2. WriteUserList(mUsers', MIN_USER_ID, 0) = Step("write", ListFile, Current')
  BY <1>1 DEF WriteUserList, Current, MIN_USER_ID
<1>3. Current' \in UserList /\ Owner \in User
  BY <1>1, NamesDiffer, UserAssumption DEF Current, UserList, Owner, User
<1>4. /\ Step("read", ListFile, None) \in TodoStep
      /\ Step("write", ListFile, Current') \in TodoStep
      /\ Step("write", 0, Owner) \in TodoStep
  BY <1>3, StepKinds, NamesDiffer DEF Files
<1>5. PICK r \in TodoStep : r = Step("read", ListFile, None)
  BY <1>4
<1>6. PICK l \in TodoStep : l = Step("write", ListFile, Current')
  BY <1>4
<1>7. PICK w \in TodoStep : w = Step("write", 0, Owner)
  BY <1>4
<1>8. /\ r.kind = "read"
      /\ l.kind = "write" /\ l.file = ListFile /\ l.value = Current'
      /\ w.kind = "write" /\ w.file = 0 /\ w.value = Owner
  BY <1>5, <1>6, <1>7, StepKinds
<1>9. CASE todo' = <<r, l, w>>
  <2>1. /\ todo' \in Seq(TodoStep) /\ todo'[2] = l /\ todo'[3] = w
        /\ \A i, kind, f : Is(i, kind, f)' <=>
              \/ i = 1 /\ r.kind = kind /\ r.file = f
              \/ i = 2 /\ l.kind = kind /\ l.file = f
              \/ i = 3 /\ w.kind = kind /\ w.file = f
    BY <1>9, Steps3
  <2>2. /\ Is(2, "write", ListFile)' /\ todo'[2].value = Current'
        /\ Is(2 + 1, "write", 0)' /\ todo'[2 + 1].value = Owner
        /\ \A i, kind, f : Is(i, kind, f)' =>
              \/ kind = "read"
              \/ kind = "write" /\ i = 2 /\ f = ListFile
              \/ kind = "write" /\ i = 2 + 1 /\ f = 0
    BY <1>8, <2>1
  <2> QED BY <2>1, <2>2
<1>10. CASE todo' = <<l, w>>
  <2>1. /\ todo' \in Seq(TodoStep) /\ todo'[1] = l /\ todo'[2] = w
        /\ \A i, kind, f : Is(i, kind, f)' <=>
              \/ i = 1 /\ l.kind = kind /\ l.file = f
              \/ i = 2 /\ w.kind = kind /\ w.file = f
    BY <1>10, Steps2
  <2>2. /\ Is(1, "write", ListFile)' /\ todo'[1].value = Current'
        /\ Is(1 + 1, "write", 0)' /\ todo'[1 + 1].value = Owner
        /\ \A i, kind, f : Is(i, kind, f)' =>
              \/ kind = "read"
              \/ kind = "write" /\ i = 1 /\ f = ListFile
              \/ kind = "write" /\ i = 1 + 1 /\ f = 0
    BY <1>8, <2>1
  <2> QED BY <2>1, <2>2
<1>11. todo' = <<r, l, w>> \/ todo' = <<l, w>>
  <2>1. todo' = (IF disk[ListFile].base # None THEN <<r>> ELSE <<>>) \o <<l, w>>
    BY <1>1, <1>2, <1>5, <1>6, <1>7 DEF Read, WriteUser
  <2>2. <<l, w>> \in Seq(TodoStep) /\ <<r>> \in Seq(TodoStep) /\ <<r, l, w>> \in Seq(TodoStep)
    OBVIOUS
  <2>3. <<>> \o <<l, w>> = <<l, w>>
    BY <2>2, ConcatEmptySeq
  <2>4. <<r>> \o <<l, w>> = <<r, l, w>>
    <3>1. /\ <<r>> \o <<l, w>> \in Seq(TodoStep)
          /\ Len(<<r>>) = 1 /\ Len(<<l, w>>) = 2 /\ Len(<<r, l, w>>) = 3
          /\ Len(<<r>> \o <<l, w>>) = 3
          /\ \A i \in 1 .. 3 : (<<r>> \o <<l, w>>)[i] = IF i <= 1 THEN <<r>>[i] ELSE <<l, w>>[i - 1]
      BY <2>2, ConcatProperties
    <3>2. \A i \in 1 .. 3 : (<<r>> \o <<l, w>>)[i] = <<r, l, w>>[i]
      BY <3>1
    <3> QED BY <2>2, <3>1, <3>2, SeqEqual
  <2> QED BY <2>1, <2>3, <2>4
<1> QED BY <1>9, <1>10, <1>11

LEMMA BootSingleUserStep ==
    ASSUME IInv, BootSingleUser
    PROVE  IInv'
<1>0. TypeOK /\ QueueInv /\ MemoryInv /\ StoreInv /\ DirsOwned
  BY DEF IInv
<1>1. /\ phase = "down" /\ phase' = "booting"
      /\ mUsers' = [id \in {0} |-> Owner] /\ mUserIds' = {0} /\ mNextSerialNumber' = 1
      /\ wiped' = (wiped \/ OnList \notin {None, Torn})
      /\ UNCHANGED <<mRemovingUserIds, mNextUserId, mUserVersion, removals, disk, userDir>>
      /\ UNCHANGED <<created, crashes, promised, removed, leftover, reissued>>
  BY DEF BootSingleUser, MIN_USER_ID
<1>2. /\ todo = <<>> /\ mUserVersion = 0 /\ wiped \in BOOLEAN
      /\ \A i, kind, f : ~Is(i, kind, f)
  BY <1>0, <1>1, NothingLeft DEF TypeOK
<1>3. /\ todo' \in Seq(TodoStep)
      /\ \E n \in Nat :
            /\ Is(n, "write", ListFile)' /\ todo'[n].value = Current'
            /\ Is(n + 1, "write", 0)' /\ todo'[n + 1].value = Owner
            /\ \A i, kind, f : Is(i, kind, f)' =>
                  \/ kind = "read"
                  \/ kind = "write" /\ i = n /\ f = ListFile
                  \/ kind = "write" /\ i = n + 1 /\ f = 0
  BY <1>0, SingleUserSteps
<1>4. PICK n \in Nat :
         /\ Is(n, "write", ListFile)' /\ todo'[n].value = Current'
         /\ Is(n + 1, "write", 0)' /\ todo'[n + 1].value = Owner
         /\ \A i, kind, f : Is(i, kind, f)' =>
               \/ kind = "read"
               \/ kind = "write" /\ i = n /\ f = ListFile
               \/ kind = "write" /\ i = n + 1 /\ f = 0
  BY <1>3
<1>5. SameContent /\ List' = List /\ \A id \in Ids : Content(id)' = Content(id) /\ OnDisk(id)' = OnDisk(id)
  BY <1>1 DEF SameContent, Content, List, OnDisk
<1>6. /\ DOMAIN mUsers' = {0} /\ mUsers'[0] = Owner
      /\ Owner \in User /\ Owner.serial = 0 /\ Owner.made = 0 /\ ~Owner.partial
  BY <1>1, UserAssumption DEF Owner, User
<1>7. created \in Nat /\ removed \subseteq 1 .. created
  BY <1>0, UserAssumption DEF TypeOK
<1>8. ~wiped' => /\ ~wiped
                 /\ \A id \in Ids : ~OnDisk(id)
                 /\ \A p \in promised : p[1] \in reissued
  BY <1>0, <1>1, <1>2, NoListNoUsers
<1>9. TypeOK'
  <2>1. mUsers' \in [DOMAIN mUsers' -> User] /\ DOMAIN mUsers' \subseteq Ids /\ mUserIds' \subseteq Ids
    BY <1>1, <1>6, NamesDiffer
  <2>2. wiped' \in BOOLEAN /\ mNextSerialNumber' \in Nat
    BY <1>1
  <2> QED BY <1>0, <1>1, <1>3, <1>5, <2>1, <2>2 DEF TypeOK
<1>10. QueueInv'
  <2>1. ListWrites'
    BY <1>4, NamesDiffer DEF ListWrites
  <2>2. UserWrites'
    <3> SUFFICES ASSUME NEW i \in Nat, NEW id \in Ids, Is(i, "write", id)'
                 PROVE  /\ id \in DOMAIN mUsers'
                        /\ todo'[i].value = mUsers'[id]
                        /\ \A j \in Nat : Is(j, "write", ListFile)' => j < i
                        /\ \A j \in Nat, other \in Ids :
                              ~Is(j, "delete", other)' /\ ~Is(j, "wipe", other)'
      BY DEF UserWrites
    <3>1. i = n + 1 /\ id = 0
      BY <1>4, NamesDiffer
    <3>2. \A j \in Nat : Is(j, "write", ListFile)' => j < i
      BY <1>4, <3>1, NamesDiffer
    <3>3. \A j \in Nat, other \in Ids : ~Is(j, "delete", other)' /\ ~Is(j, "wipe", other)'
      BY <1>4
    <3> QED BY <1>4, <1>6, <3>1, <3>2, <3>3
  <2>3. Removals' /\ Returns'
    <3>1. \A i, f : ~Is(i, "delete", f)' /\ ~Is(i, "wipe", f)' /\ ~Is(i, "created", f)' /\ ~Is(i, "removed", f)'
      BY <1>4
    <3> QED BY <3>1 DEF Removals, Returns
  <2> QED BY <2>1, <2>2, <2>3 DEF QueueInv
<1>11. Synced' /\ Loaded' /\ PromisedInMemory'
  <2>1. Synced'
    BY <1>4, <1>6 DEF Synced
  <2>2. Loaded'
    BY <1>5, <1>8 DEF Loaded
  <2>3. PromisedInMemory'
    BY <1>1, <1>8 DEF PromisedInMemory
  <2> QED BY <2>1, <2>2, <2>3
<1>12. Serials' /\ RemovedInMemory' /\ OwnerInMemory' /\ IdsKnown'
  BY <1>1, <1>2, <1>6, <1>7 DEF Serials, RemovedInMemory, OwnerInMemory, IdsKnown, Complete, Known
<1>13. MadeInMemory'
  <2>1. \A b \in Ids : OnDisk(b) /\ Content(b).made = 0 => b = 0
    BY <1>0 DEF MadeOnDisk, StoreInv
  <2> QED BY <1>1, <1>5, <1>6, <1>7, <2>1 DEF MadeInMemory
<1>14. StoreInv'
  <2>1. /\ wiped' = wiped \/ wiped'
        /\ created > 0 => List \in UserList /\ OnDisk(0)
    BY <1>0, <1>1, <1>2 DEF OwnerOnDisk, StoreInv
  <2> QED BY <1>0, <1>1, <1>5, <1>7, <2>1, StoreKept
<1>15. DirsOwned'
  <2> SUFFICES ASSUME ~wiped', NEW a \in Ids \ (leftover \cup {0}), userDir[a] # {} PROVE FALSE
    BY <1>1 DEF DirsOwned
  <2> QED BY <1>0, <1>2, <1>8 DEF DirsOwned
<1> QED BY <1>9, <1>10, <1>11, <1>12, <1>13, <1>14, <1>15 DEF IInv, MemoryInv

\* What the start reads and then writes.
LEMMA FromListSteps ==
    ASSUME NEW ids \in SUBSET Ids, NEW l \in TodoStep
    PROVE  LET reads == SetToSeq(ids)
               q == <<Read(ListFile)>> \o [i \in DOMAIN reads |-> Read(reads[i])] \o <<l>>
           IN /\ q \in Seq(TodoStep)
              /\ \E n \in Nat :
                    /\ n \in DOMAIN q /\ q[n] = l
                    /\ \A i \in DOMAIN q : i = n \/ q[i].kind = "read"
<1> DEFINE reads == SetToSeq(ids)
           s == [i \in DOMAIN reads |-> Read(reads[i])]
           r == Read(ListFile)
           q == <<Read(ListFile)>> \o [i \in DOMAIN reads |-> Read(reads[i])] \o <<l>>
<1>1. Cardinality(ids) \in Nat /\ reads \in [1 .. Cardinality(ids) -> ids]
  <2>1. IsFiniteSet(Ids)
    BY FS_Interval, UserAssumption DEF Ids
  <2>2. IsFiniteSet(ids)
    BY <2>1, FS_Subset
  <2> QED BY <2>2, SetAsSeq
<1>2. PICK c \in Nat : c = Cardinality(ids)
  BY <1>1
<1>3. /\ s \in Seq(TodoStep) /\ Len(s) = c
      /\ \A i \in 1 .. c : s[i].kind = "read"
  <2>1. DOMAIN reads = 1 .. c /\ \A i \in 1 .. c : reads[i] \in Files
    BY <1>1, <1>2 DEF Files
  <2> HIDE DEF reads
  <2>2. \A i \in 1 .. c : Read(reads[i]) \in TodoStep /\ Read(reads[i]).kind = "read"
    BY <2>1, StepKinds DEF Read
  <2>3. s \in [1 .. c -> TodoStep] /\ \A i \in 1 .. c : s[i].kind = "read"
    BY <2>1, <2>2
  <2>4. s \in Seq(TodoStep)
    BY <2>3, SeqDef
  <2>5. Len(s) = c
    <3>1. DOMAIN s = 1 .. Len(s) /\ DOMAIN s = 1 .. c /\ Len(s) \in Nat
      BY <2>3, <2>4, LenProperties
    <3> QED BY <3>1
  <2> QED BY <2>3, <2>4, <2>5
<1>4. r \in TodoStep /\ r.kind = "read"
  BY StepKinds DEF Read, Files
<1>5. q = (<<r>> \o s) \o <<l>>
  OBVIOUS
<1> HIDE DEF s, r, reads, q
<1>6. <<r>> \in Seq(TodoStep) /\ Len(<<r>>) = 1 /\ <<l>> \in Seq(TodoStep) /\ Len(<<l>>) = 1
  BY <1>4
<1>7. /\ <<r>> \o s \in Seq(TodoStep) /\ Len(<<r>> \o s) = c + 1
      /\ \A i \in 1 .. c + 1 : (<<r>> \o s)[i] = IF i <= 1 THEN <<r>>[i] ELSE s[i - 1]
  BY <1>3, <1>6, ConcatProperties
<1>8. \A i \in 1 .. c + 1 : (<<r>> \o s)[i].kind = "read"
  BY <1>3, <1>4, <1>7
<1>9. /\ q \in Seq(TodoStep) /\ Len(q) = c + 2
      /\ \A i \in 1 .. c + 2 : q[i] = IF i <= c + 1 THEN (<<r>> \o s)[i] ELSE <<l>>[i - (c + 1)]
  <2> DEFINE p == <<r>> \o s
  <2>1. p \in Seq(TodoStep) /\ Len(p) = c + 1 /\ q = p \o <<l>>
    BY <1>5, <1>7
  <2> HIDE DEF p
  <2>2. /\ q \in Seq(TodoStep) /\ Len(q) = Len(p) + 1
        /\ \A i \in 1 .. Len(p) + 1 : q[i] = IF i <= Len(p) THEN p[i] ELSE <<l>>[i - Len(p)]
    BY <1>6, <2>1, ConcatProperties
  <2>3. Len(p) + 1 = c + 2
    BY <2>1
  <2>4. \A i \in 1 .. c + 2 : q[i] = IF i <= c + 1 THEN p[i] ELSE <<l>>[i - (c + 1)]
    BY <2>1, <2>2, <2>3
  <2>5. p = <<r>> \o s
    BY DEF p
  <2> QED BY <2>2, <2>3, <2>4, <2>5
<1>10. DOMAIN q = 1 .. c + 2
  BY <1>9, LenProperties
<1>11. q[c + 2] = l
  <2>1. <<l>>[c + 2 - (c + 1)] = l
    OBVIOUS
  <2> QED BY <1>9, <2>1
<1>12. ASSUME NEW i \in 1 .. c + 1 PROVE q[i].kind = "read"
  <2>1. i \in 1 .. c + 2 /\ i <= c + 1
    OBVIOUS
  <2>2. q[i] = (<<r>> \o s)[i]
    <3> DEFINE p == <<r>> \o s
    <3> HIDE DEF p
    <3>1. q[i] = IF i <= c + 1 THEN p[i] ELSE <<l>>[i - (c + 1)]
      BY <1>9, <2>1 DEF p
    <3>2. q[i] = p[i]
      BY <2>1, <3>1
    <3> QED BY <3>2 DEF p
  <2> QED BY <1>8, <2>2
<1>13. /\ c + 2 \in Nat /\ c + 2 \in DOMAIN q /\ q[c + 2] = l
       /\ \A i \in DOMAIN q : i = c + 2 \/ q[i].kind = "read"
  BY <1>10, <1>11, <1>12
<1>14. q \in Seq(TodoStep) /\ \E n \in Nat : n \in DOMAIN q /\ q[n] = l /\ \A i \in DOMAIN q : i = n \/ q[i].kind = "read"
  BY <1>9, <1>13
<1> QED BY <1>14 DEF q, reads

LEMMA BootFromListStep ==
    ASSUME IInv, BootFromList
    PROVE  IInv'
<1>0. TypeOK /\ QueueInv /\ MemoryInv /\ StoreInv /\ DirsOwned
  BY DEF IInv
<1> DEFINE users == [id \in Readable |-> Visible(disk[id])]
           serial == NextSerial(OnList.next, Readable)
           reads == SetToSeq(OnList.ids)
<1>1. /\ phase = "down" /\ phase' = "booting" /\ ListFound /\ ~Broken
      /\ mUsers' = users /\ mUserIds' = Complete(users)
      /\ mNextSerialNumber' = serial /\ mUserVersion' = 1
      /\ todo' = <<Read(ListFile)>> \o [i \in DOMAIN reads |-> Read(reads[i])]
                 \o <<WriteUserList(users, serial, 1)>>
      /\ UNCHANGED <<mRemovingUserIds, mNextUserId, removals, disk, userDir>>
      /\ UNCHANGED <<created, promised, removed, wiped, leftover, reissued>>
  BY DEF BootFromList, history
<1>2. /\ todo = <<>> /\ \A i, kind, f : ~Is(i, kind, f)
      /\ removals = [id \in Ids |-> 0]
  BY <1>0, <1>1, NothingLeft DEF TypeOK
<1>3. OnList = List /\ List \in UserList
  <2>1. OnList = List
    BY SMTT(30) DEF OnList, List, Content
  <2>2. List # Torn /\ List # None
    BY <1>1, <2>1 DEF ListFound, List, Content, Visible
  <2> QED BY <1>0, <2>1, <2>2 DEF TypeOK
<1>4. List.ids \subseteq Ids /\ List.next \in Nat /\ List.version \in 0 .. 1
  BY <1>3 DEF UserList
<1>5. \A id \in Ids : id \in Readable <=> id \in List.ids /\ OnDisk(id)
  <2>1. \A id \in Ids : Content(id) \notin {None, Torn} <=> OnDisk(id)
    BY <1>0, NotNone DEF TypeOK, OnDisk
  <2> QED BY <1>3, <2>1 DEF Readable, Content
<1>6. Readable \subseteq Ids
  BY <1>3, <1>4 DEF Readable
<1>7. /\ DOMAIN mUsers' = Readable
      /\ \A id \in Readable : mUsers'[id] = Content(id)
  BY <1>1 DEF Content
<1>8. \A id \in DOMAIN mUsers' : id \in Ids /\ OnDisk(id) /\ mUsers'[id] = Content(id) /\ mUsers'[id] \in User
  BY <1>5, <1>6, <1>7 DEF OnDisk
<1>9. mNextSerialNumber' \in Nat /\ mNextSerialNumber' >= List.next
  BY <1>1, <1>3, <1>4, <1>6, NextSerialIsNext
<1>10. mUserIds' = Complete(mUsers)' /\ Complete(mUsers)' \subseteq Readable
  BY <1>1, <1>7 DEF Complete
<1>11. WriteUserList(users, serial, 1) = Step("write", ListFile, Current')
  BY <1>1 DEF WriteUserList, Current
<1>12. Current' \in UserList
  BY <1>1, <1>6, <1>7, <1>9 DEF Current, UserList
<1>13. PICK l \in TodoStep : l = Step("write", ListFile, Current')
  BY <1>12, StepKinds
<1>14. l.kind = "write" /\ l.file = ListFile /\ l.value = Current'
  BY <1>13, StepKinds
<1>15. PICK q : /\ q = todo' /\ q \in Seq(TodoStep)
                /\ \E n \in Nat : /\ n \in DOMAIN q /\ q[n] = l
                                  /\ \A i \in DOMAIN q : i = n \/ q[i].kind = "read"
  <2>1. PICK ids \in SUBSET Ids : ids = OnList.ids
    BY <1>3, <1>4
  <2>2. todo' = <<Read(ListFile)>> \o [i \in DOMAIN SetToSeq(ids) |-> Read(SetToSeq(ids)[i])] \o <<l>>
    BY <1>1, <1>11, <1>13, <2>1
  <2> DEFINE w == <<Read(ListFile)>> \o [i \in DOMAIN SetToSeq(ids) |-> Read(SetToSeq(ids)[i])] \o <<l>>
  <2>3. /\ w \in Seq(TodoStep)
        /\ \E n \in Nat : /\ n \in DOMAIN w /\ w[n] = l
                          /\ \A i \in DOMAIN w : i = n \/ w[i].kind = "read"
    BY FromListSteps
  <2>4. w = todo'
    BY <2>2
  <2> HIDE DEF w
  <2> QED BY <2>3, <2>4
<1> HIDE DEF users, serial, reads
<1>16. PICK n \in Nat : /\ n \in DOMAIN q /\ q[n] = l
                        /\ \A i \in DOMAIN q : i = n \/ q[i].kind = "read"
  BY <1>15
<1>17. /\ todo' \in Seq(TodoStep)
       /\ Is(n, "write", ListFile)' /\ todo'[n].value = Current'
       /\ \A i, kind, f : Is(i, kind, f)' => kind = "read" \/ (kind = "write" /\ i = n /\ f = ListFile)
  BY <1>14, <1>15, <1>16 DEF Is
<1>18. SameContent /\ List' = List /\ \A id \in Ids : Content(id)' = Content(id) /\ OnDisk(id)' = OnDisk(id)
  BY <1>1 DEF SameContent, Content, List, OnDisk
<1>19. mUserVersion' = 1 /\ phase' = "booting" /\ removals' = removals
  BY <1>1
<1>20. /\ wiped' = wiped /\ created' = created /\ removed' = removed /\ promised' = promised
       /\ reissued' = reissued /\ leftover' = leftover /\ userDir' = userDir
  BY <1>1
<1>21. OnDisk(0) /\ 0 \in Readable /\ ~Content(0).partial
  <2>1. 0 \in List.ids /\ (List.version = 1 => OnDisk(0)) /\ (OnDisk(0) => ~Content(0).partial)
    BY <1>0, <1>3 DEF OwnerOnDisk, StoreInv
  <2>2. List.version = 1 \/ 0 \in Readable
    BY <1>1, <1>3, <1>4 DEF Broken
  <2> QED BY <1>5, <2>1, <2>2, NamesDiffer
<1>22. TypeOK'
  <2>1. mUsers' \in [DOMAIN mUsers' -> User]
    <3>1. mUsers' = [id \in DOMAIN mUsers' |-> mUsers'[id]]
      BY <1>1 DEF users
    <3> QED BY <1>8, <3>1
  <2>2. DOMAIN mUsers' \subseteq Ids /\ mUserIds' \subseteq Ids
    BY <1>6, <1>7, <1>10
  <2> QED BY <1>0, <1>1, <1>9, <1>17, <1>18, <2>1, <2>2 DEF TypeOK
<1>23. QueueInv'
  <2>1. ListWrites'
    BY <1>17 DEF ListWrites
  <2>2. UserWrites'
    BY <1>17, NamesDiffer DEF UserWrites
  <2>3. Removals' /\ Returns'
    <3>1. \A i, f : ~Is(i, "delete", f)' /\ ~Is(i, "wipe", f)' /\ ~Is(i, "created", f)' /\ ~Is(i, "removed", f)'
      BY <1>17
    <3> QED BY <3>1 DEF Removals, Returns
  <2> QED BY <2>1, <2>2, <2>3 DEF QueueInv
<1>24. Synced'
  BY <1>8, <1>17, <1>18 DEF Synced
<1>25. Loaded'
  <2> SUFFICES ASSUME ~wiped, NEW id \in Ids, OnDisk(id)
               PROVE  id \in DOMAIN mUsers' /\ mUsers'[id] = Content(id)
    BY <1>18, <1>20 DEF Loaded
  <2>1. id \in List.ids
    BY <1>0 DEF ListedOnDisk, StoreInv
  <2> QED BY <1>5, <1>7, <2>1
<1>26. Serials'
  <2> SUFFICES ASSUME ~wiped, NEW a \in DOMAIN mUsers'
               PROVE  /\ mUsers'[a].serial < mNextSerialNumber'
                      /\ \A b \in DOMAIN mUsers' : mUsers'[a].serial = mUsers'[b].serial => a = b
    BY <1>20 DEF Serials
  <2>1. Content(a).serial < List.next /\ Content(a).serial \in Nat
    BY <1>0, <1>8 DEF ListedOnDisk, StoreInv, User
  <2>2. mUsers'[a].serial < mNextSerialNumber'
    BY <1>4, <1>8, <1>9, <2>1
  <2>3. \A b \in DOMAIN mUsers' : mUsers'[a].serial = mUsers'[b].serial => a = b
    BY <1>0, <1>8 DEF SerialsOnDisk, StoreInv
  <2> QED BY <2>2, <2>3
<1>27. IdsKnown'
  BY <1>10 DEF IdsKnown, Known, Complete
<1>28. MadeInMemory'
  BY <1>0, <1>8, <1>18, <1>20 DEF MadeInMemory, MadeOnDisk, StoreInv
<1>29. RemovedInMemory'
  BY <1>0, <1>8, <1>20 DEF RemovedInMemory, RemovedOnDisk, StoreInv
<1>30. OwnerInMemory'
  BY <1>7, <1>18, <1>21, NamesDiffer DEF OwnerInMemory, Complete
<1>31. PromisedInMemory'
  <2> SUFFICES ASSUME ~wiped, NEW p \in promised, p[1] \notin reissued
               PROVE  p[1] \in Complete(mUsers)' /\ mUsers'[p[1]].made = p[2] /\ removals'[p[1]] = 0
    BY <1>20 DEF PromisedInMemory
  <2>1. p[1] \in Ids
    BY <1>0 DEF TypeOK
  <2>2. OnDisk(p[1]) /\ ~Content(p[1]).partial /\ Content(p[1]).made = p[2]
    BY <1>0 DEF PromisedOnDisk, StoreInv
  <2>3. p[1] \in List.ids
    BY <1>0, <2>1, <2>2 DEF ListedOnDisk, StoreInv
  <2> QED BY <1>2, <1>5, <1>7, <1>19, <2>1, <2>2, <2>3 DEF Complete
<1>32. StoreInv'
  BY <1>0, <1>18, <1>20, StoreQuiet DEF Quiet
<1>33. DirsOwned'
  BY <1>0, <1>2, <1>18, <1>20 DEF DirsOwned
<1> QED BY <1>22, <1>23, <1>24, <1>25, <1>26, <1>27, <1>28, <1>29, <1>30, <1>31, <1>32, <1>33
        DEF IInv, MemoryInv

-----------------------------------------------------------------------------
(* The operations                                                          *)

\* Between two operations the disk says what memory says.
LEMMA Settled ==
    ASSUME IInv, phase # "down", todo = <<>>
    PROVE  /\ List = Current /\ List \in UserList /\ OnDisk(0)
           /\ \A id \in DOMAIN mUsers : id \in Ids /\ mUsers[id] \in User /\ Content(id) = mUsers[id] /\ OnDisk(id)
           /\ ~wiped => \A id \in Ids : OnDisk(id) => id \in DOMAIN mUsers
           /\ \A i, kind, f : ~Is(i, kind, f)
           /\ 0 \in DOMAIN mUsers /\ ~mUsers[0].partial
<1>0. TypeOK /\ MemoryInv
  BY DEF IInv
<1>1. \A i, kind, f : ~Is(i, kind, f)
  BY NothingLeft
<1>2. List = Current /\ List \in UserList
  BY <1>0, <1>1, CurrentIsList DEF Synced, MemoryInv
<1>3. \A id \in DOMAIN mUsers : id \in Ids /\ mUsers[id] \in User /\ Content(id) = mUsers[id] /\ OnDisk(id)
  BY <1>0, <1>1 DEF Synced, MemoryInv, OnDisk, TypeOK
<1>4. ~wiped => \A id \in Ids : OnDisk(id) => id \in DOMAIN mUsers
  BY <1>0, <1>1 DEF Loaded, MemoryInv
<1>5. 0 \in DOMAIN mUsers /\ ~mUsers[0].partial
  BY <1>0 DEF OwnerInMemory, MemoryInv, Complete
<1> QED BY <1>1, <1>2, <1>3, <1>4, <1>5

LEMMA ReadyStep ==
    ASSUME IInv, Ready
    PROVE  IInv'
<1>0. TypeOK /\ QueueInv /\ MemoryInv /\ StoreInv /\ DirsOwned
  BY DEF IInv
<1>1. /\ phase = "booting" /\ todo = <<>> /\ phase' = "up"
      /\ UNCHANGED <<todo, memory, removals, disk, userDir, created, crashes, history>>
  BY DEF Ready
<1>2. /\ UNCHANGED <<mUsers, mRemovingUserIds, mUserIds, mNextSerialNumber, mNextUserId, mUserVersion>>
      /\ UNCHANGED <<todo, removals, disk, userDir, created>>
      /\ UNCHANGED <<promised, removed, wiped, leftover, reissued>>
  BY <1>1 DEF memory, history
<1>3. OnDisk(0)
  BY <1>1, Settled
<1>4. /\ List' = List /\ Current' = Current
      /\ \A f : Content(f)' = Content(f) /\ OnDisk(f)' = OnDisk(f)
      /\ \A i, kind, f : Is(i, kind, f)' = Is(i, kind, f)
      /\ Complete(mUsers)' = Complete(mUsers) /\ \A id : Known(id)' = Known(id)
  BY <1>2 DEF List, Current, Content, OnDisk, Is, Complete, Known
<1>5. TypeOK'
  BY <1>0, <1>1, <1>2, <1>4 DEF TypeOK
<1>6. QueueInv'
  <2>1. \A i, kind, f : ~Is(i, kind, f)'
    BY <1>1, <1>4, NothingLeft
  <2> QED BY <2>1 DEF QueueInv, ListWrites, UserWrites, Removals, Returns
<1>7. MemoryInv'
  <2>1. Synced' /\ Loaded' /\ Serials' /\ IdsKnown'
    BY <1>0, <1>1, <1>2, <1>4 DEF MemoryInv, Synced, Loaded, Serials, IdsKnown
  <2>2. MadeInMemory' /\ RemovedInMemory' /\ OwnerInMemory' /\ PromisedInMemory'
    BY <1>0, <1>1, <1>2, <1>3, <1>4
       DEF MemoryInv, MadeInMemory, RemovedInMemory, OwnerInMemory, PromisedInMemory
  <2> QED BY <2>1, <2>2 DEF MemoryInv
<1>8. StoreInv'
  BY <1>0, <1>2, <1>4, StoreQuiet DEF Quiet, SameContent
<1>9. DirsOwned'
  BY <1>0, <1>2, <1>4 DEF DirsOwned
<1> QED BY <1>5, <1>6, <1>7, <1>8, <1>9 DEF IInv

\* removeUserStateLocked, by the constructor and by the thread of a removal.
TakesAway(id) ==
    /\ phase # "down" /\ todo = <<>> /\ id # 0
    /\ mUsers' = Without(mUsers, {id}) /\ mUserIds' = Complete(mUsers')
    /\ todo' = RemoveUserState(id, mUsers', mNextSerialNumber, mUserVersion)
    /\ mRemovingUserIds' \subseteq mRemovingUserIds
    /\ removals' \in [Ids -> Nat] /\ \A a \in Ids : removals[a] = 0 => removals'[a] = 0
    /\ ~wiped => \A p \in promised : p[1] \notin reissued => p[1] # id
    /\ UNCHANGED <<phase, mNextSerialNumber, mNextUserId, mUserVersion>>
    /\ UNCHANGED <<disk, userDir, created, promised, removed, wiped, leftover, reissued>>

LEMMA RemoveUserStateStep ==
    ASSUME IInv, NEW id \in Ids, TakesAway(id)
    PROVE  IInv'
<1>0. TypeOK /\ QueueInv /\ MemoryInv /\ StoreInv /\ DirsOwned
  BY DEF IInv
<1>a. /\ phase # "down" /\ todo = <<>> /\ id # 0 /\ phase' = phase
      /\ mRemovingUserIds' \subseteq mRemovingUserIds
      /\ removals' \in [Ids -> Nat] /\ \A a \in Ids : removals[a] = 0 => removals'[a] = 0
      /\ ~wiped => \A p \in promised : p[1] \notin reissued => p[1] # id
      /\ mNextSerialNumber' = mNextSerialNumber /\ mNextUserId' = mNextUserId /\ mUserVersion' = mUserVersion
      /\ disk' = disk /\ userDir' = userDir /\ created' = created /\ promised' = promised
      /\ removed' = removed /\ wiped' = wiped /\ leftover' = leftover /\ reissued' = reissued
  BY DEF TakesAway
<1>1. /\ List = Current /\ List \in UserList /\ OnDisk(0)
      /\ \A a \in DOMAIN mUsers : a \in Ids /\ mUsers[a] \in User /\ Content(a) = mUsers[a] /\ OnDisk(a)
      /\ ~wiped => \A a \in Ids : OnDisk(a) => a \in DOMAIN mUsers
      /\ 0 \in DOMAIN mUsers /\ ~mUsers[0].partial
      /\ \A i, kind, f : ~Is(i, kind, f)
  BY <1>a, Settled
<1>2. /\ DOMAIN mUsers' = DOMAIN mUsers \ {id}
      /\ \A a \in DOMAIN mUsers' : mUsers'[a] = mUsers[a]
      /\ mUsers' \in [DOMAIN mUsers' -> User]
  BY <1>1 DEF Without, TakesAway
<1>3. WriteUserList(mUsers', mNextSerialNumber, mUserVersion) = Step("write", ListFile, Current')
  BY <1>a DEF WriteUserList, Current
<1>4. Current' \in UserList
  BY <1>0, <1>a, <1>2 DEF Current, UserList, TypeOK
<1>5. /\ Step("delete", id, None) \in TodoStep /\ Step("wipe", id, None) \in TodoStep
      /\ Step("write", ListFile, Current') \in TodoStep
  BY <1>4, StepKinds
<1>6. PICK d \in TodoStep : d = Step("delete", id, None)
  BY <1>5
<1>7. PICK l \in TodoStep : l = Step("write", ListFile, Current')
  BY <1>5
<1>8. PICK w \in TodoStep : w = Step("wipe", id, None)
  BY <1>5
<1>9. /\ d.kind = "delete" /\ d.file = id
      /\ l.kind = "write" /\ l.file = ListFile /\ l.value = Current'
      /\ w.kind = "wipe" /\ w.file = id
  BY <1>6, <1>7, <1>8, StepKinds
<1>10. todo' = <<d, l, w>>
  BY <1>3, <1>6, <1>7, <1>8 DEF RemoveUserState, TakesAway
<1>11. /\ todo' \in Seq(TodoStep) /\ todo'[2] = l
       /\ \A i, kind, f : Is(i, kind, f)' <=>
             \/ i = 1 /\ d.kind = kind /\ d.file = f
             \/ i = 2 /\ l.kind = kind /\ l.file = f
             \/ i = 3 /\ w.kind = kind /\ w.file = f
  BY <1>10, Steps3
<1>12. /\ Is(1, "delete", id)' /\ Is(2, "write", ListFile)' /\ Is(3, "wipe", id)'
       /\ \A i, kind, f : Is(i, kind, f)' =>
             \/ kind = "delete" /\ i = 1 /\ f = id
             \/ kind = "write" /\ i = 2 /\ f = ListFile
             \/ kind = "wipe" /\ i = 3 /\ f = id
       /\ todo'[2].value = Current'
  BY <1>9, <1>11
<1>13. SameContent /\ List' = List /\ \A a \in Ids : Content(a)' = Content(a) /\ OnDisk(a)' = OnDisk(a)
  BY <1>a DEF SameContent, Content, List, OnDisk
<1>14. Complete(mUsers)' = Complete(mUsers) \ {id} /\ mUserIds' = Complete(mUsers)'
  BY <1>2 DEF Complete, TakesAway
<1>15. TypeOK'
  <2>1. removals'[0] = 0
    BY <1>0, <1>a, NamesDiffer DEF TypeOK
  <2>2. mUserIds' \subseteq Ids /\ DOMAIN mUsers' \subseteq Ids
    BY <1>0, <1>2, <1>14 DEF TypeOK, Complete
  <2> QED BY <1>0, <1>a, <1>2, <1>11, <1>13, <2>1, <2>2 DEF TypeOK
<1>16. QueueInv'
  <2>1. ListWrites'
    BY <1>12 DEF ListWrites
  <2>2. UserWrites'
    BY <1>12, NamesDiffer DEF UserWrites
  <2>3. Removals'
    <3> SUFFICES ASSUME NEW i \in Nat, NEW a \in Ids
                 PROVE  /\ Is(i, "delete", a)' => i = 1 /\ \E j \in Nat : Is(j, "wipe", a)'
                        /\ Is(i, "wipe", a)' =>
                              /\ a \notin DOMAIN mUsers' /\ a # 0
                              /\ \A j \in Nat, other \in Ids : Is(j, "wipe", other)' => other = a
      BY DEF Removals
    <3>1. ASSUME Is(i, "delete", a)' PROVE i = 1 /\ \E j \in Nat : Is(j, "wipe", a)'
      BY <1>12, <3>1
    <3>2. ASSUME Is(i, "wipe", a)'
          PROVE  /\ a \notin DOMAIN mUsers' /\ a # 0
                 /\ \A j \in Nat, other \in Ids : Is(j, "wipe", other)' => other = a
      BY <1>a, <1>2, <1>12, <3>2
    <3> QED BY <3>1, <3>2
  <2>4. Returns'
    <3>1. \A i, f : ~Is(i, "created", f)' /\ ~Is(i, "removed", f)'
      BY <1>12
    <3> QED BY <3>1 DEF Returns
  <2> QED BY <2>1, <2>2, <2>3, <2>4 DEF QueueInv
<1>17. Synced'
  BY <1>1, <1>a, <1>2, <1>12, <1>13 DEF Synced
<1>18. Loaded'
  <2> SUFFICES ASSUME ~wiped, NEW a \in Ids, OnDisk(a)
               PROVE  \/ /\ a \in DOMAIN mUsers'
                         /\ Content(a).serial = mUsers'[a].serial /\ Content(a).made = mUsers'[a].made
                      \/ \E i \in Nat : Is(i, "delete", a)'
    BY <1>13, <1>a DEF Loaded
  <2> QED BY <1>1, <1>2, <1>12
<1>19. Serials' /\ MadeInMemory' /\ RemovedInMemory'
  BY <1>0, <1>a, <1>2, <1>13 DEF MemoryInv, Serials, MadeInMemory, RemovedInMemory
<1>20. IdsKnown'
  BY <1>14 DEF IdsKnown, Known, Complete
<1>21. OwnerInMemory'
  BY <1>0, <1>a, <1>1, <1>13, <1>14, NamesDiffer DEF OwnerInMemory, MemoryInv
<1>22. PromisedInMemory'
  <2> SUFFICES ASSUME ~wiped, NEW p \in promised, p[1] \notin reissued
               PROVE  p[1] \in Complete(mUsers)' /\ mUsers'[p[1]].made = p[2] /\ removals'[p[1]] = 0
    BY <1>a DEF PromisedInMemory
  <2>1. p[1] \in Complete(mUsers) /\ mUsers[p[1]].made = p[2] /\ removals[p[1]] = 0 /\ p[1] \in Ids
    BY <1>0, <1>a DEF PromisedInMemory, MemoryInv, TypeOK
  <2>2. p[1] # id
    BY <1>a
  <2> QED BY <1>a, <1>2, <1>14, <2>1, <2>2 DEF Complete
<1>23. StoreInv'
  BY <1>0, <1>a, <1>13, StoreQuiet DEF Quiet
<1>24. DirsOwned'
  BY <1>0, <1>a, <1>1, <1>13 DEF DirsOwned
<1> QED BY <1>15, <1>16, <1>17, <1>18, <1>19, <1>20, <1>21, <1>22, <1>23, <1>24 DEF IInv, MemoryInv

LEMMA PruneStep ==
    ASSUME IInv, NEW id \in Ids, Prune(id)
    PROVE  IInv'
<1>0. TypeOK /\ MemoryInv
  BY DEF IInv
<1>1. /\ phase # "down" /\ todo = <<>> /\ id \in Partials(mUsers)
      /\ mUsers' = Without(mUsers, {id}) /\ mUserIds' = Complete(mUsers')
      /\ todo' = RemoveUserState(id, mUsers', mNextSerialNumber, mUserVersion)
      /\ UNCHANGED <<phase, mRemovingUserIds, mNextSerialNumber, mNextUserId, mUserVersion>>
      /\ UNCHANGED <<removals, disk, userDir, created>>
      /\ UNCHANGED <<promised, removed, wiped, leftover, reissued>>
  BY DEF Prune, history
<1>2. mUsers[id].partial /\ id \notin Complete(mUsers)
  BY <1>1 DEF Partials, Complete
<1>3. id # 0
  BY <1>0, <1>1, <1>2 DEF OwnerInMemory, MemoryInv
<1>4. ~wiped => \A p \in promised : p[1] \notin reissued => p[1] # id
  BY <1>0, <1>1, <1>2 DEF PromisedInMemory, MemoryInv
<1>5. /\ mRemovingUserIds' \subseteq mRemovingUserIds
      /\ removals' \in [Ids -> Nat] /\ \A a \in Ids : removals[a] = 0 => removals'[a] = 0
  BY <1>0, <1>1 DEF TypeOK
<1> QED BY <1>1, <1>3, <1>4, <1>5, RemoveUserStateStep DEF TakesAway

LEMMA RemovalThreadStep ==
    ASSUME IInv, NEW id \in Ids, RemovalThread(id)
    PROVE  IInv'
<1>0. TypeOK /\ MemoryInv
  BY DEF IInv
<1>1. /\ phase # "down" /\ todo = <<>> /\ removals[id] > 0
      /\ removals' = [removals EXCEPT ![id] = removals[id] - 1]
      /\ mUsers' = Without(mUsers, {id}) /\ mRemovingUserIds' = mRemovingUserIds \ {id}
      /\ mUserIds' = Complete(mUsers')
      /\ todo' = RemoveUserState(id, mUsers', mNextSerialNumber, mUserVersion)
      /\ UNCHANGED <<phase, mNextSerialNumber, mNextUserId, mUserVersion>>
      /\ UNCHANGED <<disk, userDir, created, promised, removed, wiped, leftover, reissued>>
  BY DEF RemovalThread, Idle, history
<1>2. removals \in [Ids -> Nat] /\ removals[0] = 0
  BY <1>0 DEF TypeOK
<1>3. id # 0
  BY <1>1, <1>2
<1>4. ~wiped => \A p \in promised : p[1] \notin reissued => p[1] # id
  BY <1>0, <1>1 DEF PromisedInMemory, MemoryInv
<1>5. removals[id] - 1 \in Nat
  BY <1>1, <1>2
<1>6. removals' \in [Ids -> Nat] /\ \A a \in Ids : removals[a] = 0 => removals'[a] = 0
  BY <1>1, <1>2, <1>5
<1>7. TakesAway(id)
  BY <1>1, <1>3, <1>4, <1>6 DEF TakesAway
<1> QED BY <1>7, RemoveUserStateStep

LEMMA UseUserStep ==
    ASSUME IInv, NEW id \in Ids, UseUser(id)
    PROVE  IInv'
<1>0. TypeOK /\ QueueInv /\ MemoryInv /\ StoreInv /\ DirsOwned
  BY DEF IInv
<1>1. /\ phase # "down" /\ todo = <<>> /\ id \in mUserIds /\ id # 0
      /\ userDir' = [userDir EXCEPT ![id] = userDir[id] \cup {mUsers[id].made}]
      /\ UNCHANGED <<mUsers, mRemovingUserIds, mUserIds, mNextSerialNumber, mNextUserId, mUserVersion>>
      /\ UNCHANGED <<phase, todo, removals, disk, created>>
      /\ UNCHANGED <<promised, removed, wiped, leftover, reissued>>
  BY DEF UseUser, Idle, memory, history
<1>2. id \in DOMAIN mUsers
  BY <1>0, <1>1 DEF MemoryInv, IdsKnown, Known
<1>3. /\ mUsers[id] \in User /\ Content(id) = mUsers[id] /\ OnDisk(id)
      /\ \A i, kind, f : ~Is(i, kind, f)
  BY <1>1, <1>2, Settled
<1>4. /\ List' = List /\ Current' = Current
      /\ \A f : Content(f)' = Content(f) /\ OnDisk(f)' = OnDisk(f)
      /\ \A i, kind, f : ~Is(i, kind, f)'
      /\ Complete(mUsers)' = Complete(mUsers) /\ \A a : Known(a)' = Known(a)
  BY <1>1, <1>3 DEF List, Current, Content, OnDisk, Is, Complete, Known
<1>5. mUsers[id].made \in Nat
  BY <1>3, UserAssumption DEF User
<1>6. userDir \in [Ids -> SUBSET Nat]
  BY <1>0 DEF TypeOK
<1>7. /\ userDir' \in [Ids -> SUBSET Nat]
      /\ userDir'[id] = userDir[id] \cup {mUsers[id].made}
      /\ \A a \in Ids \ {id} : userDir'[a] = userDir[a]
  BY <1>1, <1>5, <1>6
<1>8. TypeOK'
  BY <1>0, <1>1, <1>4, <1>7 DEF TypeOK
<1>9. QueueInv'
  BY <1>4 DEF QueueInv, ListWrites, UserWrites, Removals, Returns
<1>10. MemoryInv'
  <2>1. Synced' /\ Loaded' /\ Serials' /\ IdsKnown'
    BY <1>0, <1>1, <1>3, <1>4 DEF MemoryInv, Synced, Loaded, Serials, IdsKnown
  <2>2. MadeInMemory' /\ RemovedInMemory' /\ OwnerInMemory' /\ PromisedInMemory'
    BY <1>0, <1>1, <1>4 DEF MemoryInv, MadeInMemory, RemovedInMemory, OwnerInMemory, PromisedInMemory
  <2> QED BY <2>1, <2>2 DEF MemoryInv
<1>11. StoreInv'
  BY <1>0, <1>1, <1>4, StoreQuiet DEF Quiet, SameContent
<1>12. DirsOwned'
  <2> SUFFICES ASSUME ~wiped, NEW a \in Ids \ (leftover \cup {0}), userDir'[a] # {}
               PROVE  OnDisk(a) /\ userDir'[a] \subseteq {Content(a).made}
    BY <1>1, <1>4 DEF DirsOwned
  <2>1. CASE a = id
    <3>1. userDir[id] = {} \/ userDir[id] \subseteq {Content(id).made}
      BY <1>0, <1>3, <2>1 DEF DirsOwned
    <3> QED BY <1>3, <1>7, <2>1, <3>1
  <2>2. CASE a # id
    BY <1>0, <1>3, <1>7, <2>2 DEF DirsOwned
  <2> QED BY <2>1, <2>2
<1> QED BY <1>8, <1>9, <1>10, <1>11, <1>12 DEF IInv

LEMMA ChangeUserStep ==
    ASSUME IInv, NEW id \in Ids, ChangeUser(id)
    PROVE  IInv'
<1>0. TypeOK /\ QueueInv /\ MemoryInv /\ StoreInv /\ DirsOwned
  BY DEF IInv
<1>1. /\ phase # "down" /\ todo = <<>> /\ id \in Complete(mUsers)
      /\ UNCHANGED <<mUsers, mRemovingUserIds, mUserIds, mNextSerialNumber, mNextUserId, mUserVersion>>
      /\ UNCHANGED <<phase, removals, disk, userDir, created>>
      /\ UNCHANGED <<promised, removed, wiped, leftover, reissued>>
  BY DEF ChangeUser, Idle, memory, history
<1>2. id \in DOMAIN mUsers
  BY <1>1 DEF Complete
<1>3. /\ List = Current /\ mUsers[id] \in User
      /\ \A a \in DOMAIN mUsers : Content(a) = mUsers[a]
      /\ ~wiped => \A a \in Ids : OnDisk(a) => a \in DOMAIN mUsers
      /\ \A i, kind, f : ~Is(i, kind, f)
  BY <1>1, <1>2, Settled
<1>4. PICK w \in TodoStep : w = Step("write", id, mUsers[id])
  BY <1>3, StepKinds
<1>5. w.kind = "write" /\ w.file = id /\ w.value = mUsers[id]
  BY <1>4, StepKinds
<1>6. todo' = <<w>>
  BY <1>4 DEF ChangeUser, WriteUser
<1>7. /\ todo' \in Seq(TodoStep) /\ todo'[1] = w
      /\ \A i, kind, f : Is(i, kind, f)' <=> i = 1 /\ w.kind = kind /\ w.file = f
  BY <1>6, Steps1
<1>8. \A i, kind, f : Is(i, kind, f)' <=> i = 1 /\ kind = "write" /\ f = id
  BY <1>5, <1>7
<1>9. /\ List' = List /\ Current' = Current
      /\ \A f : Content(f)' = Content(f) /\ OnDisk(f)' = OnDisk(f)
      /\ Complete(mUsers)' = Complete(mUsers) /\ \A a : Known(a)' = Known(a)
  BY <1>1 DEF List, Current, Content, OnDisk, Complete, Known
<1>10. TypeOK'
  BY <1>0, <1>1, <1>7, <1>9 DEF TypeOK
<1>11. QueueInv'
  <2>1. ListWrites'
    BY <1>8, NamesDiffer DEF ListWrites
  <2>2. UserWrites'
    <3> SUFFICES ASSUME NEW i \in Nat, NEW a \in Ids, Is(i, "write", a)'
                 PROVE  /\ a \in DOMAIN mUsers /\ todo'[i].value = mUsers[a]
                        /\ \A j \in Nat : ~Is(j, "write", ListFile)'
                        /\ \A j \in Nat, other \in Ids :
                              ~Is(j, "delete", other)' /\ ~Is(j, "wipe", other)'
      BY <1>1 DEF UserWrites
    <3> QED BY <1>2, <1>5, <1>7, <1>8, NamesDiffer
  <2>3. Removals' /\ Returns'
    <3>1. \A i, f : ~Is(i, "delete", f)' /\ ~Is(i, "wipe", f)' /\ ~Is(i, "created", f)' /\ ~Is(i, "removed", f)'
      BY <1>8
    <3> QED BY <3>1 DEF Removals, Returns
  <2> QED BY <2>1, <2>2, <2>3 DEF QueueInv
<1>12. MemoryInv'
  <2>1. Synced' /\ Loaded' /\ Serials' /\ IdsKnown'
    BY <1>0, <1>1, <1>3, <1>9 DEF MemoryInv, Synced, Loaded, Serials, IdsKnown
  <2>2. MadeInMemory' /\ RemovedInMemory' /\ OwnerInMemory' /\ PromisedInMemory'
    BY <1>0, <1>1, <1>9 DEF MemoryInv, MadeInMemory, RemovedInMemory, OwnerInMemory, PromisedInMemory
  <2> QED BY <2>1, <2>2 DEF MemoryInv
<1>13. StoreInv'
  BY <1>0, <1>1, <1>9, StoreQuiet DEF Quiet, SameContent
<1>14. DirsOwned'
  BY <1>0, <1>1, <1>3, <1>9 DEF DirsOwned
<1> QED BY <1>10, <1>11, <1>12, <1>13, <1>14 DEF IInv

LEMMA RemoveUserStep ==
    ASSUME IInv, NEW id \in Ids, RemoveUser(id)
    PROVE  IInv'
<1>0. TypeOK /\ QueueInv /\ MemoryInv /\ StoreInv /\ DirsOwned
  BY DEF IInv
<1>1. /\ phase # "down" /\ todo = <<>> /\ id # 0 /\ id \in DOMAIN mUsers
      /\ mRemovingUserIds' = mRemovingUserIds \cup {id}
      /\ mUsers' = [mUsers EXCEPT ![id].partial = TRUE]
      /\ promised' = promised \ {<<id, mUsers[id].made>>}
      /\ removals' = [removals EXCEPT ![id] = removals[id] + 1]
      /\ UNCHANGED <<phase, mUserIds, mNextSerialNumber, mNextUserId, mUserVersion>>
      /\ UNCHANGED <<disk, userDir, created, removed, wiped, leftover, reissued>>
  BY DEF RemoveUser, Idle, Removable, Removing
<1>2. /\ List = Current /\ OnDisk(0)
      /\ \A a \in DOMAIN mUsers : a \in Ids /\ mUsers[a] \in User /\ Content(a) = mUsers[a] /\ OnDisk(a)
      /\ ~wiped => \A a \in Ids : OnDisk(a) => a \in DOMAIN mUsers
      /\ \A i, kind, f : ~Is(i, kind, f)
      /\ 0 \in DOMAIN mUsers /\ ~mUsers[0].partial
  BY <1>1, Settled
<1>3. /\ DOMAIN mUsers' = DOMAIN mUsers
      /\ mUsers'[id] = [mUsers[id] EXCEPT !.partial = TRUE]
      /\ \A a \in DOMAIN mUsers \ {id} : mUsers'[a] = mUsers[a]
  BY <1>0, <1>1 DEF TypeOK
<1>4. /\ mUsers'[id] \in User /\ mUsers'[id].partial
      /\ mUsers'[id].serial = mUsers[id].serial /\ mUsers'[id].made = mUsers[id].made
      /\ mUsers[id].made \in 0 .. MaxCreated
  BY <1>1, <1>2, <1>3 DEF User
<1>5. \A a \in DOMAIN mUsers : /\ mUsers'[a] \in User
                               /\ mUsers'[a].serial = mUsers[a].serial /\ mUsers'[a].made = mUsers[a].made
                               /\ mUsers[a].partial => mUsers'[a].partial
  BY <1>2, <1>3, <1>4
<1>6. PICK w \in TodoStep : w = Step("write", id, mUsers'[id])
  BY <1>4, StepKinds
<1>7. PICK r \in TodoStep : r = Step("removed", id, mUsers[id].made)
  BY <1>4, StepKinds
<1>8. /\ w.kind = "write" /\ w.file = id /\ w.value = mUsers'[id]
      /\ r.kind = "removed" /\ r.file = id /\ r.value = mUsers[id].made
  BY <1>6, <1>7, StepKinds
<1>9. todo' = <<w, r>>
  BY <1>4, <1>6, <1>7 DEF RemoveUser, RemoveSteps, WriteUser
<1>10. /\ todo' \in Seq(TodoStep) /\ Len(todo') = 2 /\ todo'[1] = w /\ todo'[2] = r
       /\ \A i, kind, f : Is(i, kind, f)' <=>
             \/ i = 1 /\ w.kind = kind /\ w.file = f
             \/ i = 2 /\ r.kind = kind /\ r.file = f
  BY <1>9, Steps2
<1>11. \A i, kind, f : Is(i, kind, f)' <=>
          \/ i = 1 /\ kind = "write" /\ f = id
          \/ i = 2 /\ kind = "removed" /\ f = id
  BY <1>8, <1>10
<1>12. /\ List' = List /\ Current' = Current
       /\ \A f : Content(f)' = Content(f) /\ OnDisk(f)' = OnDisk(f)
  BY <1>1, <1>3 DEF List, Current, Content, OnDisk
<1>13. Complete(mUsers)' = Complete(mUsers) \ {id}
  BY <1>3, <1>4 DEF Complete
<1>14. TypeOK'
  <2>1. mUsers' \in [DOMAIN mUsers' -> User]
    <3>1. mUsers' = [a \in DOMAIN mUsers |-> mUsers'[a]]
      BY <1>0, <1>1 DEF TypeOK
    <3> QED BY <1>3, <1>5, <3>1
  <2>2. removals' \in [Ids -> Nat] /\ removals'[0] = 0
    BY <1>0, <1>1 DEF TypeOK
  <2>3. promised' \subseteq Ids \X Nat
    BY <1>0, <1>1 DEF TypeOK
  <2> QED BY <1>0, <1>1, <1>3, <1>10, <1>12, <2>1, <2>2, <2>3 DEF TypeOK
<1>15. QueueInv'
  <2>1. ListWrites'
    BY <1>11, NamesDiffer DEF ListWrites
  <2>2. UserWrites'
    <3> SUFFICES ASSUME NEW i \in Nat, NEW a \in Ids, Is(i, "write", a)'
                 PROVE  /\ a \in DOMAIN mUsers' /\ todo'[i].value = mUsers'[a]
                        /\ \A j \in Nat : ~Is(j, "write", ListFile)'
                        /\ \A j \in Nat, other \in Ids :
                              ~Is(j, "delete", other)' /\ ~Is(j, "wipe", other)'
      BY DEF UserWrites
    <3>1. i = 1 /\ a = id
      BY <1>11
    <3>2. todo'[1].value = mUsers'[id]
      BY <1>8, <1>10
    <3> QED BY <1>1, <1>3, <1>11, <3>1, <3>2, NamesDiffer
  <2>3. Removals'
    BY <1>11 DEF Removals
  <2>4. Returns'
    <3> SUFFICES ASSUME NEW i \in Nat, NEW a \in Ids, Is(i, "removed", a)'
                 PROVE  /\ i = Len(todo')
                        /\ a \in DOMAIN mUsers' \ Complete(mUsers)' /\ todo'[i].value = mUsers'[a].made
      BY <1>11 DEF Returns
    <3>1. i = 2 /\ a = id
      BY <1>11
    <3> QED BY <1>1, <1>3, <1>4, <1>8, <1>10, <1>13, <3>1
  <2> QED BY <2>1, <2>2, <2>3, <2>4 DEF QueueInv
<1>16. Synced'
  <2>1. Is(1, "write", id)' /\ 1 \in Nat
    BY <1>11
  <2> QED BY <1>2, <1>3, <1>12, <2>1 DEF Synced
<1>17. Loaded'
  BY <1>1, <1>2, <1>3, <1>5, <1>12 DEF Loaded
<1>18. Serials' /\ MadeInMemory'
  <2>1. Serials'
    BY <1>0, <1>1, <1>3, <1>5 DEF MemoryInv, Serials
  <2>2. MadeInMemory'
    BY <1>0, <1>1, <1>3, <1>5, <1>12 DEF MemoryInv, MadeInMemory
  <2> QED BY <2>1, <2>2
<1>19. IdsKnown'
  <2>1. \A a \in mUserIds : Known(a)'
    <3> SUFFICES ASSUME NEW a \in mUserIds PROVE Known(a)'
      OBVIOUS
    <3>1. Known(a)
      BY <1>0 DEF MemoryInv, IdsKnown
    <3> QED BY <1>1, <1>3, <3>1 DEF Known
  <2> QED BY <1>0, <1>1, <1>13, <2>1 DEF MemoryInv, IdsKnown
<1>20. RemovedInMemory' /\ OwnerInMemory'
  <2>1. RemovedInMemory'
    BY <1>0, <1>1, <1>3, <1>5 DEF MemoryInv, RemovedInMemory
  <2>2. OwnerInMemory'
    BY <1>0, <1>1, <1>2, <1>12, <1>13, NamesDiffer DEF MemoryInv, OwnerInMemory
  <2> QED BY <2>1, <2>2
<1>21. PromisedInMemory'
  <2> SUFFICES ASSUME ~wiped, NEW p \in promised, p # <<id, mUsers[id].made>>, p[1] \notin reissued
               PROVE  p[1] \in Complete(mUsers)' /\ mUsers'[p[1]].made = p[2] /\ removals'[p[1]] = 0
    BY <1>1 DEF PromisedInMemory
  <2>1. /\ p[1] \in Complete(mUsers) /\ mUsers[p[1]].made = p[2] /\ removals[p[1]] = 0
        /\ p[1] \in Ids /\ p = <<p[1], p[2]>>
    BY <1>0, <1>1 DEF PromisedInMemory, MemoryInv, TypeOK
  <2>2. p[1] # id
    BY <2>1
  <2>3. p[1] \in DOMAIN mUsers /\ removals \in [Ids -> Nat]
    BY <1>0, <2>1 DEF Complete, TypeOK
  <2> QED BY <1>1, <1>3, <1>13, <2>1, <2>2, <2>3
<1>22. StoreInv'
  <2>1. created \in Nat /\ (created > 0 => List \in UserList /\ OnDisk(0))
    BY <1>0, UserAssumption DEF TypeOK, OwnerOnDisk, StoreInv
  <2>2. /\ wiped' = wiped /\ removed' = removed /\ promised' \subseteq promised
        /\ reissued' = reissued /\ created' = created
    BY <1>1
  <2> QED BY <1>0, <1>12, <2>1, <2>2, StoreKept DEF SameContent
<1>23. DirsOwned'
  BY <1>0, <1>1, <1>2, <1>12 DEF DirsOwned
<1> QED BY <1>14, <1>15, <1>16, <1>17, <1>18, <1>19, <1>20, <1>21, <1>22, <1>23 DEF IInv, MemoryInv

LEMMA CreateUserStep ==
    ASSUME IInv, CreateUser
    PROVE  IInv'
<1>0. TypeOK /\ QueueInv /\ MemoryInv /\ StoreInv /\ DirsOwned
  BY DEF IInv
<1>1. PICK id \in Nat : id = NextAvailableId
  BY <1>0, AvailableId
<1>2. PICK u \in [serial : Nat, partial : BOOLEAN, made : Nat] :
        u = [serial |-> mNextSerialNumber, partial |-> FALSE, made |-> created + 1]
  <2>1. mNextSerialNumber \in Nat /\ created + 1 \in Nat
    BY <1>0, UserAssumption DEF TypeOK
  <2> QED BY <2>1
<1>3. /\ phase = "up" /\ todo = <<>> /\ created < MaxCreated /\ id <= MaxId
      /\ created' = created + 1
      /\ mUsers' = [i \in DOMAIN mUsers \cup {id} |-> IF i = id THEN u ELSE mUsers[i]]
      /\ mUserIds' = Complete(mUsers')
      /\ mNextSerialNumber' = mNextSerialNumber + 1 /\ mNextUserId' = id + 1
      /\ reissued' = IF removals[id] > 0 THEN reissued \cup {id} ELSE reissued
      /\ UNCHANGED <<phase, mRemovingUserIds, mUserVersion, removals, disk, userDir>>
      /\ UNCHANGED <<promised, removed, wiped, leftover>>
  BY <1>1, <1>2 DEF CreateUser, Idle
<1>4. id \in Ids /\ id # 0 /\ id \notin DOMAIN mUsers
  BY <1>0, <1>1, <1>3, AvailableId, UserAssumption DEF Ids
<1>5. u.serial = mNextSerialNumber /\ ~u.partial /\ u.made = created + 1 /\ u \in User
  BY <1>0, <1>2, <1>3, UserAssumption DEF TypeOK, User
<1>6. /\ List = Current /\ List \in UserList /\ OnDisk(0)
      /\ \A a \in DOMAIN mUsers : a \in Ids /\ mUsers[a] \in User /\ Content(a) = mUsers[a] /\ OnDisk(a)
      /\ ~wiped => \A a \in Ids : OnDisk(a) => a \in DOMAIN mUsers
      /\ \A i, kind, f : ~Is(i, kind, f)
      /\ 0 \in DOMAIN mUsers /\ ~mUsers[0].partial
  BY <1>3, Settled
<1>7. /\ DOMAIN mUsers' = DOMAIN mUsers \cup {id} /\ mUsers'[id] = u
      /\ \A a \in DOMAIN mUsers : mUsers'[a] = mUsers[a] /\ a # id
  BY <1>3, <1>4
<1>8. Complete(mUsers)' = Complete(mUsers) \cup {id}
  BY <1>5, <1>7 DEF Complete
<1>9. /\ List' = List /\ \A f : Content(f)' = Content(f) /\ OnDisk(f)' = OnDisk(f)
  BY <1>3 DEF List, Content, OnDisk
<1>10. created \in Nat /\ created' \in 0 .. MaxCreated /\ mNextSerialNumber \in Nat
  BY <1>0, <1>3, UserAssumption, SMTT(30) DEF TypeOK
<1>11. reissued \subseteq reissued' /\ reissued' \subseteq Ids /\ (removals[id] > 0 => id \in reissued')
  BY <1>0, <1>3, <1>4 DEF TypeOK
<1>12. mUsers' \in [DOMAIN mUsers' -> User]
  <2>1. \A a \in DOMAIN mUsers' : mUsers'[a] \in User
    BY <1>5, <1>6, <1>7
  <2>2. mUsers' = [a \in DOMAIN mUsers' |-> mUsers'[a]]
    BY <1>3
  <2> QED BY <2>1, <2>2
<1>13. Current' \in UserList
  <2>1. /\ DOMAIN mUsers' \in SUBSET Ids /\ mNextSerialNumber' \in Nat /\ mUserVersion' \in 0 .. 1
    BY <1>0, <1>3, <1>4, <1>7, <1>10 DEF TypeOK
  <2> QED BY <2>1 DEF Current, UserList
<1>14. PICK v \in User : v = [u EXCEPT !.partial = TRUE]
  BY <1>5 DEF User
<1>15. v.partial /\ v.serial = u.serial /\ v.made = u.made
  BY <1>5, <1>14 DEF User
<1>16. PICK l \in TodoStep : l = Step("write", ListFile, Current')
  BY <1>13, StepKinds
<1>17. PICK w \in TodoStep : w = Step("write", id, v)
  BY <1>4, <1>14, StepKinds
<1>18. PICK x \in TodoStep : x = Step("write", id, u)
  BY <1>4, <1>5, StepKinds
<1>19. PICK r \in TodoStep : r = Step("created", id, u.made)
  BY <1>3, <1>4, <1>5, <1>10, StepKinds
<1>20. /\ l.kind = "write" /\ l.file = ListFile /\ l.value = Current'
       /\ w.kind = "write" /\ w.file = id /\ w.value = v
       /\ x.kind = "write" /\ x.file = id /\ x.value = u
       /\ r.kind = "created" /\ r.file = id /\ r.value = u.made
  BY <1>16, <1>17, <1>18, <1>19, StepKinds
<1>21. todo' = <<l, w, x, r>>
  <2>1. todo' = CreateSteps(id, u, mUsers', mNextSerialNumber')
    BY <1>1, <1>2 DEF CreateUser
  <2>2. l = WriteUserList(mUsers', mNextSerialNumber', mUserVersion)
    BY <1>3, <1>16 DEF WriteUserList, Current
  <2>3. w = WriteUser(id, [u EXCEPT !.partial = TRUE]) /\ x = WriteUser(id, u)
    BY <1>14, <1>17, <1>18 DEF WriteUser
  <2> QED BY <1>19, <2>1, <2>2, <2>3 DEF CreateSteps
<1>22. /\ todo' \in Seq(TodoStep) /\ Len(todo') = 4
       /\ todo'[1] = l /\ todo'[2] = w /\ todo'[3] = x /\ todo'[4] = r
       /\ \A i, kind, f : Is(i, kind, f)' <=>
             \/ i = 1 /\ l.kind = kind /\ l.file = f
             \/ i = 2 /\ w.kind = kind /\ w.file = f
             \/ i = 3 /\ x.kind = kind /\ x.file = f
             \/ i = 4 /\ r.kind = kind /\ r.file = f
  BY <1>21, Steps4
<1>23. \A i, kind, f : Is(i, kind, f)' <=>
          \/ i = 1 /\ kind = "write" /\ f = ListFile
          \/ i \in {2, 3} /\ kind = "write" /\ f = id
          \/ i = 4 /\ kind = "created" /\ f = id
  BY <1>20, <1>22
<1>24. TypeOK'
  <2>1. \A a \in Ids : Content(a)' \in User \cup {None, Torn}
    BY <1>0, <1>9 DEF TypeOK
  <2>2. mNextUserId' \in Nat \ {0} /\ mNextSerialNumber' \in Nat
    BY <1>3, <1>10
  <2>3. DOMAIN mUsers' \subseteq Ids /\ mUserIds' \subseteq Ids
    BY <1>3, <1>4, <1>6, <1>7 DEF Complete
  <2>4. removed' \subseteq 1 .. created'
    BY <1>0, <1>3, <1>10 DEF TypeOK
  <2> QED BY <1>0, <1>3, <1>9, <1>10, <1>11, <1>12, <1>22, <2>1, <2>2, <2>3, <2>4 DEF TypeOK
<1>25. QueueInv'
  <2>1. ListWrites'
    <3> SUFFICES ASSUME NEW i \in Nat, Is(i, "write", ListFile)' PROVE todo'[i].value = Current'
      BY DEF ListWrites
    <3>1. i = 1
      BY <1>4, <1>23, NamesDiffer
    <3> QED BY <1>20, <1>22, <3>1
  <2>2. UserWrites'
    <3> SUFFICES ASSUME NEW i \in Nat, NEW a \in Ids, Is(i, "write", a)'
                 PROVE  /\ a \in DOMAIN mUsers'
                        /\ todo'[i].value.serial = mUsers'[a].serial /\ todo'[i].value.made = mUsers'[a].made
                        /\ \/ todo'[i].value = mUsers'[a]
                           \/ /\ todo'[i].value.partial
                              /\ \E j \in Nat : j > i /\ Is(j, "write", a)'
                              /\ \E j \in Nat : Is(j, "created", a)'
                        /\ \A j \in Nat : Is(j, "write", ListFile)' => j < i
                        /\ \A j \in Nat, other \in Ids :
                              ~Is(j, "delete", other)' /\ ~Is(j, "wipe", other)'
      BY DEF UserWrites
    <3>1. i \in {2, 3} /\ a = id
      BY <1>23, NamesDiffer
    <3>2. Is(3, "write", id)' /\ Is(4, "created", id)'
      BY <1>23
    <3>3. \A j \in Nat : Is(j, "write", ListFile)' => j = 1
      BY <1>4, <1>23, NamesDiffer
    <3>4. \A j \in Nat, other \in Ids : ~Is(j, "delete", other)' /\ ~Is(j, "wipe", other)'
      BY <1>23
    <3>5. CASE i = 2
      BY <1>7, <1>15, <1>20, <1>22, <3>1, <3>2, <3>3, <3>4, <3>5
    <3>6. CASE i = 3
      BY <1>7, <1>20, <1>22, <3>1, <3>3, <3>4, <3>6
    <3> QED BY <3>1, <3>5, <3>6
  <2>3. Removals'
    BY <1>23 DEF Removals
  <2>4. Returns'
    <3> SUFFICES ASSUME NEW i \in Nat, NEW a \in Ids, Is(i, "created", a)'
                 PROVE  /\ i = Len(todo') /\ a # 0
                        /\ a \in Complete(mUsers)' \cap mUserIds' /\ todo'[i].value = mUsers'[a].made
                        /\ ~wiped => \A p \in promised : p[1] = a => a \in reissued'
                        /\ removals[a] > 0 => a \in reissued'
      BY <1>3, <1>23 DEF Returns
    <3>1. i = 4 /\ a = id
      BY <1>23
    <3>2. ASSUME ~wiped, NEW p \in promised, p[1] = id, id \notin reissued' PROVE FALSE
      <4>1. p[1] \in Complete(mUsers)
        BY <1>0, <1>3, <1>11, <3>2 DEF MemoryInv, PromisedInMemory
      <4> QED BY <1>4, <3>2, <4>1 DEF Complete
    <3>3. id \in Complete(mUsers)' \cap mUserIds'
      BY <1>3, <1>8
    <3>4. todo'[4].value = mUsers'[id].made
      BY <1>7, <1>20, <1>22
    <3> QED BY <1>4, <1>11, <1>22, <3>1, <3>2, <3>3, <3>4
  <2> QED BY <2>1, <2>2, <2>3, <2>4 DEF QueueInv
<1>26. Synced'
  <2>1. Is(1, "write", ListFile)' /\ Is(2, "write", id)'
    BY <1>23
  <2> QED BY <1>6, <1>7, <1>9, <2>1 DEF Synced
<1>27. Loaded'
  BY <1>3, <1>6, <1>7, <1>9 DEF Loaded
<1>28. Serials'
  <2> SUFFICES ASSUME ~wiped, NEW a \in DOMAIN mUsers'
               PROVE  /\ mUsers'[a].serial < mNextSerialNumber'
                      /\ \A b \in DOMAIN mUsers' : mUsers'[a].serial = mUsers'[b].serial => a = b
    BY <1>3 DEF Serials
  <2>1. \A b \in DOMAIN mUsers : mUsers[b].serial < mNextSerialNumber /\ mUsers[b].serial \in Nat
    BY <1>0, <1>6 DEF MemoryInv, Serials, User
  <2>2. \A b, c \in DOMAIN mUsers : mUsers[b].serial = mUsers[c].serial => b = c
    BY <1>0 DEF MemoryInv, Serials
  <2> QED BY <1>3, <1>5, <1>7, <1>10, <2>1, <2>2
<1>29. IdsKnown'
  <2>1. Complete(mUsers)' \subseteq mUserIds'
    BY <1>3
  <2>2. \A a \in mUserIds' : Known(a)'
    BY <1>3 DEF Known, Complete
  <2> QED BY <2>1, <2>2 DEF IdsKnown
<1>30. MadeInMemory'
  <2>1. \A a \in DOMAIN mUsers : mUsers[a].made <= created /\ mUsers[a].made \in Nat
    BY <1>0, <1>6, UserAssumption DEF MemoryInv, MadeInMemory, User
  <2>2. \A b \in Ids : OnDisk(b) => Content(b).made <= created /\ Content(b).made \in Nat
    BY <1>0, UserAssumption DEF StoreInv, MadeOnDisk, OnDisk, User
  <2> SUFFICES ASSUME NEW a \in DOMAIN mUsers'
               PROVE  /\ mUsers'[a].made <= created' /\ (a # 0 => mUsers'[a].made # 0)
                      /\ \A b \in DOMAIN mUsers' : mUsers'[a].made = mUsers'[b].made => a = b
                      /\ \A b \in Ids : OnDisk(b) /\ mUsers'[a].made = Content(b).made => a = b
    BY <1>9 DEF MadeInMemory
  <2>3. CASE a = id
    BY <1>3, <1>5, <1>7, <1>10, <2>1, <2>2, <2>3
  <2>4. CASE a \in DOMAIN mUsers
    <3>1. /\ a # 0 => mUsers[a].made # 0
          /\ \A b \in DOMAIN mUsers : mUsers[a].made = mUsers[b].made => a = b
          /\ \A b \in Ids : OnDisk(b) /\ mUsers[a].made = Content(b).made => a = b
      BY <1>0, <2>4 DEF MemoryInv, MadeInMemory
    <3>2. mUsers[a].made # u.made
      BY <1>5, <1>10, <2>1, <2>4
    <3> QED BY <1>3, <1>7, <1>10, <2>1, <2>4, <3>1, <3>2
  <2> QED BY <1>7, <2>3, <2>4
<1>31. RemovedInMemory'
  <2>1. u.made \notin removed
    BY <1>0, <1>5, <1>10 DEF TypeOK
  <2> QED BY <1>0, <1>3, <1>7, <2>1 DEF MemoryInv, RemovedInMemory
<1>32. OwnerInMemory'
  BY <1>0, <1>3, <1>6, <1>8, <1>9 DEF MemoryInv, OwnerInMemory
<1>33. PromisedInMemory'
  <2> SUFFICES ASSUME ~wiped, NEW p \in promised, p[1] \notin reissued
               PROVE  p[1] \in Complete(mUsers)' /\ mUsers'[p[1]].made = p[2] /\ removals[p[1]] = 0
    BY <1>3, <1>11 DEF PromisedInMemory
  <2>1. p[1] \in Complete(mUsers) /\ mUsers[p[1]].made = p[2] /\ removals[p[1]] = 0
    BY <1>0, <1>3 DEF PromisedInMemory, MemoryInv
  <2>2. p[1] \in DOMAIN mUsers
    BY <2>1 DEF Complete
  <2> QED BY <1>7, <1>8, <2>1, <2>2
<1>34. StoreInv'
  <2>1. /\ wiped' = wiped /\ removed' = removed /\ promised' \subseteq promised
        /\ created' \in Nat /\ created' >= created
    BY <1>3, <1>10
  <2> QED BY <1>0, <1>6, <1>9, <1>11, <2>1, StoreKept DEF SameContent
<1>35. DirsOwned'
  BY <1>0, <1>3, <1>6, <1>9 DEF DirsOwned
<1> QED BY <1>24, <1>25, <1>26, <1>27, <1>28, <1>29, <1>30, <1>31, <1>32, <1>33, <1>34, <1>35
        DEF IInv, MemoryInv

-----------------------------------------------------------------------------
(* The invariant                                                           *)

LEMMA InitInv == Init => IInv
<1> SUFFICES ASSUME Init PROVE IInv
  OBVIOUS
<1>1. mUsers = Nobody /\ DOMAIN mUsers = {} /\ todo = <<>> /\ phase = "down"
  BY DEF Init, Nobody
<1>2. disk = [f \in Files |-> NoFile]
  BY DEF Init, Files
<1>3. \A f \in Files : Content(f) = None
  BY <1>2, Reads DEF Content
<1>4. List = None /\ \A id \in Ids : ~OnDisk(id) /\ Content(id) = None
  BY <1>3, NotNone DEF OnDisk, List, Files
<1>5. \A i, kind, f : ~Is(i, kind, f)
  BY <1>1 DEF Is
<1>6. TypeOK
  <2>1. disk \in [Files -> FileStates]
    BY <1>2, FileTypes
  <2>2. mUsers \in [DOMAIN mUsers -> User]
    BY <1>1 DEF Nobody
  <2>3. removals \in [Ids -> Nat] /\ removals[0] = 0 /\ removals = [id \in Ids |-> 0]
    BY NamesDiffer DEF Init
  <2>4. userDir \in [Ids -> SUBSET Nat]
    BY DEF Init
  <2>5. todo \in Seq(TodoStep)
    BY <1>1
  <2>6. created \in 0 .. MaxCreated
    BY UserAssumption DEF Init
  <2>7. /\ mRemovingUserIds = {} /\ mUserIds = {} /\ mNextSerialNumber = 0 /\ mNextUserId = 1 /\ mUserVersion = 0
        /\ promised = {} /\ removed = {} /\ wiped = FALSE /\ leftover = {} /\ reissued = {}
    BY DEF Init, MIN_USER_ID
  <2>8. /\ mRemovingUserIds \subseteq Ids /\ mUserIds \subseteq Ids
        /\ mNextSerialNumber \in Nat /\ mNextUserId \in Nat \ {0} /\ mUserVersion \in 0 .. 1
        /\ promised \subseteq Ids \X Nat /\ removed \subseteq 1 .. created
        /\ leftover \subseteq Ids /\ reissued \subseteq Ids
    BY <2>7
  <2>9. wiped \in BOOLEAN
    BY <2>7
  <2>10. DOMAIN mUsers \subseteq Ids /\ phase \in {"down", "booting", "up"}
    BY <1>1
  <2>11. /\ \A id \in Ids : Content(id) \in User \cup {None, Torn}
         /\ List \in UserList \cup {None, Torn}
    BY <1>4
  <2>12. mUserVersion = 0
    BY <2>7
  <2> QED BY <1>1, <2>1, <2>2, <2>3, <2>4, <2>5, <2>6, <2>8, <2>9, <2>10, <2>11, <2>12 DEF TypeOK
<1>7. QueueInv
  BY <1>5 DEF QueueInv, ListWrites, UserWrites, Removals, Returns
<1>8. MemoryInv
  <2>1. Serials /\ MadeInMemory /\ RemovedInMemory
    BY <1>1 DEF Serials, MadeInMemory, RemovedInMemory
  <2>2. IdsKnown
    BY <1>1 DEF IdsKnown, Complete, Init
  <2>3. Synced /\ Loaded /\ OwnerInMemory /\ PromisedInMemory
    BY <1>1 DEF Synced, Loaded, OwnerInMemory, PromisedInMemory
  <2> QED BY <2>1, <2>2, <2>3 DEF MemoryInv
<1>9. StoreInv
  <2>1. created = 0 /\ promised = {}
    BY DEF Init
  <2>2. List \notin UserList
    BY <1>4, NotNone
  <2>3. OwnerOnDisk
    BY <1>4, <2>1, <2>2, NamesDiffer DEF OwnerOnDisk
  <2>4. ListedOnDisk /\ SerialsOnDisk /\ MadeOnDisk /\ RemovedOnDisk
    BY <1>4 DEF ListedOnDisk, SerialsOnDisk, MadeOnDisk, RemovedOnDisk
  <2>5. PromisedOnDisk
    BY <2>1 DEF PromisedOnDisk
  <2> QED BY <2>3, <2>4, <2>5 DEF StoreInv
<1>10. DirsOwned
  BY DEF DirsOwned, Init
<1> QED BY <1>6, <1>7, <1>8, <1>9, <1>10 DEF IInv

LEMMA NextInv == IInv /\ [Next]_vars => IInv'
<1> SUFFICES ASSUME IInv, [Next]_vars PROVE IInv'
  OBVIOUS
<1>1. CASE Boot
  BY <1>1, BootSingleUserStep, BootFromListStep, BootFailsStep DEF Boot
<1>2. CASE Constructor
  BY <1>2, ReadyStep, PruneStep DEF Constructor
<1>3. CASE DiskStep
  BY <1>3, WriteFileStep, ReadFileStep, DeleteFileStep, WipeDirStep, ReturnUserStep, ReturnRemovedStep
     DEF DiskStep
<1>4. CASE Crash
  BY <1>4, CrashStep
<1>5. CASE CreateUser
  BY <1>5, CreateUserStep
<1>6. ASSUME NEW id \in Ids, UseUser(id) \/ ChangeUser(id) \/ RemoveUser(id) \/ RemovalThread(id)
      PROVE  IInv'
  BY <1>6, UseUserStep, ChangeUserStep, RemoveUserStep, RemovalThreadStep
<1>7. CASE UNCHANGED vars
  <2>1. /\ UNCHANGED <<phase, todo, removals, disk, userDir, created>>
        /\ UNCHANGED <<mUsers, mRemovingUserIds, mUserIds, mNextSerialNumber, mNextUserId, mUserVersion>>
        /\ UNCHANGED <<promised, removed, wiped, leftover, reissued>>
    BY <1>7 DEF vars, memory, history
  <2>2. /\ List' = List /\ Current' = Current
        /\ \A f : Content(f)' = Content(f) /\ OnDisk(f)' = OnDisk(f)
        /\ \A i, kind, f : Is(i, kind, f)' = Is(i, kind, f)
        /\ Complete(mUsers)' = Complete(mUsers) /\ \A id : Known(id)' = Known(id)
    BY <2>1 DEF List, Current, Content, OnDisk, Is, Complete, Known
  <2>3. TypeOK'
    BY <2>1, <2>2 DEF IInv, TypeOK
  <2>4. QueueInv'
    <3>1. ListWrites' /\ UserWrites'
      BY <2>1, <2>2 DEF IInv, QueueInv, ListWrites, UserWrites
    <3>2. Removals' /\ Returns'
      BY <2>1, <2>2 DEF IInv, QueueInv, Removals, Returns
    <3> QED BY <3>1, <3>2 DEF QueueInv
  <2>5. MemoryInv'
    <3>1. Synced' /\ Loaded' /\ Serials' /\ IdsKnown'
      BY <2>1, <2>2 DEF IInv, MemoryInv, Synced, Loaded, Serials, IdsKnown
    <3>2. MadeInMemory' /\ RemovedInMemory' /\ OwnerInMemory' /\ PromisedInMemory'
      BY <2>1, <2>2 DEF IInv, MemoryInv, MadeInMemory, RemovedInMemory, OwnerInMemory, PromisedInMemory
    <3> QED BY <3>1, <3>2 DEF MemoryInv
  <2>6. StoreInv'
    BY <2>1, <2>2, StoreQuiet DEF IInv, Quiet, SameContent
  <2>7. DirsOwned'
    BY <2>1, <2>2 DEF IInv, DirsOwned
  <2> QED BY <2>3, <2>4, <2>5, <2>6, <2>7 DEF IInv
<1> QED BY <1>1, <1>2, <1>3, <1>4, <1>5, <1>6, <1>7 DEF Next

\* The users in memory, the files and what is left to do fit together at every
\* step of VUserManagerService, through every death of the process.
THEOREM Invariance == Spec => []IInv
<1> QED BY InitInv, NextInv, PTL DEF Spec

\* Every field and every file holds what its type says.
THEOREM TypeCorrect == Spec => []TypeOK
<1>1. IInv => TypeOK
  BY DEF IInv
<1> QED BY <1>1, Invariance, PTL

\* getUserSerialNumber and getUserHandle never meet an id of getUserIds that
\* getUserInfo does not know, and serial numbers stay unique.
THEOREM SerialsAlwaysResolve == Spec => []SerialsResolve
<1>1. IInv => SerialsResolve
  BY DEF IInv, MemoryInv, IdsKnown, Serials, SerialsResolve
<1> QED BY <1>1, Invariance, PTL

\* A user that createUser returned is there after every restart, but for the
\* exceptions that CreatedSurvives names.
THEOREM CreatedIsKept == Spec => []CreatedSurvives
<1>1. IInv => CreatedSurvives
  <2> SUFFICES ASSUME IInv, Idle, ~wiped, NEW p \in promised, p[1] \notin reissued
               PROVE  p[1] \in mUserIds /\ Known(p[1]) /\ mUsers[p[1]].made = p[2]
    BY DEF CreatedSurvives
  <2>1. p[1] \in Complete(mUsers) /\ mUsers[p[1]].made = p[2]
    BY DEF IInv, MemoryInv, PromisedInMemory, Idle
  <2> QED BY <2>1 DEF IInv, MemoryInv, IdsKnown
<1> QED BY <1>1, Invariance, PTL

\* A user whose removal was accepted never comes back as a complete user.
THEOREM RemovedIsGone == Spec => []RemovedStaysGone
<1>1. IInv => RemovedStaysGone
  BY DEF IInv, MemoryInv, RemovedInMemory, RemovedStaysGone
<1> QED BY <1>1, Invariance, PTL

\* The owner is there while the server is, and the start fails for good only
\* if the very first one was cut off.
THEOREM OwnerIsThere == Spec => []OwnerThere
<1>1. IInv => OwnerThere
  <2> SUFFICES ASSUME IInv PROVE OwnerThere
    OBVIOUS
  <2>1. phase # "down" => 0 \in Complete(mUsers)
    BY DEF IInv, MemoryInv, OwnerInMemory
  <2>2. ASSUME Broken PROVE created = 0
    <3> SUFFICES ASSUME created # 0 PROVE FALSE
      OBVIOUS
    <3>1. created > 0
      BY UserAssumption DEF IInv, TypeOK
    <3>2. List \in UserList /\ 0 \in List.ids /\ Content(0) \in User
      BY <3>1 DEF IInv, StoreInv, OwnerOnDisk, OnDisk
    <3>3. 0 \in Readable
      BY <3>2, NotNone DEF Readable, OnList, List, Content
    <3> QED BY <2>2, <3>3 DEF Broken
  <2> QED BY <2>1, <2>2 DEF OwnerThere
<1> QED BY <1>1, Invariance, PTL

\* A user finds the data of another one only if a deletion of the directory was
\* cut off by the death of the process, or the list was lost.
THEOREM ForeignDataNever == Spec => []ForeignDataOnlyIf
<1>1. IInv => ForeignDataOnlyIf
  <2> SUFFICES ASSUME IInv, Idle, ~wiped, NEW id \in mUserIds, id \notin leftover, id # 0
               PROVE  userDir[id] \subseteq {mUsers[id].made}
    BY DEF ForeignDataOnlyIf
  <2>1. id \in DOMAIN mUsers
    BY DEF IInv, MemoryInv, IdsKnown, Known
  <2>2. id \in Ids /\ Content(id) = mUsers[id] /\ \A i : ~Is(i, "wipe", id)
    BY <2>1, Settled DEF Idle
  <2> QED BY <2>2 DEF IInv, DirsOwned
<1> QED BY <1>1, Invariance, PTL

=============================================================================
