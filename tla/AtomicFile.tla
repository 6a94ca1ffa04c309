------------------------------ MODULE AtomicFile ------------------------------
(***************************************************************************)
(* helper/utils/AtomicFile, one operation at a time ("You must do your own  *)
(* threading protection"), one action per change on disk, with I/O errors   *)
(* where the code handles them and the death of the process between any two *)
(* steps. What was done to the disk stays done. The caller writes as        *)
(* VUserManagerService does: startWrite, the content, then finishWrite, or  *)
(* failWrite when an exception comes.                                       *)
(***************************************************************************)
EXTENDS AtomicFiles

CONSTANTS Value, Keep, NoFileOp

ASSUME FileAssumption ==
    /\ None \notin Value /\ Torn \notin Value /\ Keep \notin Value /\ NoFileOp \notin Value
    /\ None # Torn /\ None # Keep /\ None # NoFileOp /\ Keep # NoFileOp

VARIABLES
    base, backup,  \* mBaseName and mBackupName on disk
    pc,            \* the next step
    want,          \* the operation: a value to write, None to delete, Keep to read, NoFileOp
    got,           \* what the last read found
    told,          \* how the last operation ended
    before         \* history: the files when the operation began

files == <<base, backup>>
fileVars == <<files, pc, want, got, told, before>>

FileContent == Value \cup {None, Torn}
File == [base |-> base, bak |-> backup]

WriteSteps  == {"start", "open", "write", "finish", "fail", "restore"}
ReadSteps   == {"openRead", "rollback", "read"}
DeleteSteps == {"delete", "deleteBackup"}

FileTypeOK ==
    /\ base \in FileContent /\ backup \in FileContent /\ got \in FileContent
    /\ pc \in {"idle"} \cup WriteSteps \cup ReadSteps \cup DeleteSteps
    /\ pc = "idle" <=> want = NoFileOp
    /\ pc \in WriteSteps <=> want \in Value
    /\ pc \in ReadSteps <=> want = Keep
    /\ pc \in DeleteSteps <=> want = None
    /\ told \in {"ok", "failed"}
    /\ before \in [base : FileContent, bak : FileContent]

FileInit ==
    /\ base = None /\ backup = None
    /\ pc = "idle" /\ want = NoFileOp
    /\ got = None /\ told = "ok"
    /\ before = NoFile

Begin(step, w) ==
    /\ pc = "idle"
    /\ pc' = step /\ want' = w
    /\ before' = File
    /\ UNCHANGED <<files, got, told>>

End(t) == pc' = "idle" /\ want' = NoFileOp /\ told' = t /\ UNCHANGED <<got, before>>
Goto(step) == pc' = step /\ UNCHANGED <<want, got, told, before>>

-----------------------------------------------------------------------------
(* startWrite                                                              *)

\* Faulty variant: the base file is renamed over a backup that is there.
StartWrite_OverBackup ==
    /\ pc = "start"
    /\ \/ base # None /\ backup' = base /\ base' = None
       \/ base = None /\ UNCHANGED files
    /\ Goto("open")

\* The current file becomes the backup, unless there is one of an earlier
\* write that did not end.
StartWrite ==
    /\ pc = "start"
    /\ \/ base # None /\ backup = None /\ backup' = base /\ base' = None
       \/ base # None /\ backup # None /\ base' = None /\ UNCHANGED backup
       \/ base = None /\ UNCHANGED files
    /\ Goto("open")

OpenStream == pc = "open" /\ base' = Torn /\ UNCHANGED backup /\ Goto("write")

\* An IOException; failWrite(null) does nothing.
OpenFails == pc = "open" /\ UNCHANGED files /\ End("failed")

WriteContent == pc = "write" /\ base' = want /\ UNCHANGED backup /\ Goto("finish")
WriteFails == pc = "write" /\ UNCHANGED files /\ Goto("fail")

-----------------------------------------------------------------------------
(* finishWrite, failWrite                                                  *)

FinishWrite == pc = "finish" /\ backup' = None /\ UNCHANGED base /\ End("ok")

\* The exception of close() is logged, and the rest is skipped.
CloseFails == pc \in {"finish", "fail"} /\ UNCHANGED files /\ End("failed")

\* Faulty variant: the backup goes too.
FailWrite_Both == pc = "fail" /\ base' = None /\ backup' = None /\ Goto("restore")

FailWrite == pc = "fail" /\ base' = None /\ UNCHANGED backup /\ Goto("restore")
RestoreBackup == pc = "restore" /\ base' = backup /\ backup' = None /\ End("failed")

-----------------------------------------------------------------------------
(* openRead, delete, and the death of the process                          *)

OpenRead ==
    /\ pc = "openRead"
    /\ \/ backup # None /\ base' = None /\ UNCHANGED backup /\ Goto("rollback")
       \/ backup = None /\ UNCHANGED files /\ Goto("read")
RollBack == pc = "rollback" /\ base' = backup /\ backup' = None /\ Goto("read")
ReadContent ==
    /\ pc = "read"
    /\ got' = base
    /\ pc' = "idle" /\ want' = NoFileOp /\ told' = "ok"
    /\ UNCHANGED <<files, before>>

DeleteBase == pc = "delete" /\ base' = None /\ UNCHANGED backup /\ Goto("deleteBackup")
DeleteBackup == pc = "deleteBackup" /\ backup' = None /\ UNCHANGED base /\ End("ok")

FileCrash == pc # "idle" /\ UNCHANGED files /\ End("failed")

FileNext ==
    \/ \E v \in Value : Begin("start", v)
    \/ Begin("openRead", Keep) \/ Begin("delete", None)
    \/ StartWrite \/ OpenStream \/ OpenFails \/ WriteContent \/ WriteFails
    \/ FinishWrite \/ CloseFails \/ FailWrite \/ RestoreBackup
    \/ OpenRead \/ RollBack \/ ReadContent \/ DeleteBase \/ DeleteBackup \/ FileCrash

FileSpec == FileInit /\ [][FileNext]_fileVars

-----------------------------------------------------------------------------
(* Correctness                                                             *)

\* A file that cannot be read is as good as none.
Good(c) == IF c = Torn THEN None ELSE c

Register == INSTANCE AtomicRegister WITH val <- Good(Visible(File)), got <- Good(got), Idle <- NoFileOp

\* The promise in the comments of startWrite, finishWrite, failWrite and
\* openRead: whatever errors come and wherever the process dies, the file holds
\* the last good data or the new one, and finished writes are read.
RegisterSpec == Register!Spec

\* What is on disk at every step is what AtomicFiles says of a process that
\* dies in the middle of the operation: a torn file always has a backup, if
\* there was anything to back up.
CrashStates ==
    /\ pc \in WriteSteps => File \in MidWrite(before, want)
    /\ pc \in ReadSteps => File \in MidRead(before)
    /\ pc \in DeleteSteps => File \in MidDelete(before)
=============================================================================
