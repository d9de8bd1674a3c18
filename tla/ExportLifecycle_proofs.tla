----------------------- MODULE ExportLifecycle_proofs -----------------------
(***************************************************************************)
(* Theorems about ExportLifecycle, for every set of exports and readers    *)
(* and any number of failures and restarts.                                *)
(***************************************************************************)
EXTENDS ExportLifecycle, TLAPS

(***************************************************************************)
(* The inductive invariant, in parts.                                      *)
(***************************************************************************)
(* Until the server listens nobody but the archive task is at work. *)
QuietStart ==
    /\ task.at \in {"boot", "fail"} => ~listening
    /\ ~listening => opening = {} /\ \A x \in Exports : writer[x] \in {"idle", "done"}

(* Where a writer stands tells the status of its record, unless the record *)
(* was deleted; what it left running the start of the server will fail.    *)
WriterInv(x) ==
    /\ writer[x] = "idle" <=> record[x] = "none"
    /\ writer[x] \in {"created", "opened", "exporting", "closed"} =>
          record[x] \in {"Running", "deleted"}
    /\ writer[x] = "stored" => record[x] \in {"Completed", "deleted"}
    /\ writer[x] \in {"failing", "failed"} => record[x] \in {"Running", "Completed", "deleted"}
    /\ writer[x] = "done" /\ record[x] = "Running" =>
          /\ ~listening
          /\ task.at = "boot" \/ (task.at = "fail" /\ x \in task.left)

(* What of the archive is there, by where its writer stands. *)
FileInv(x) ==
    /\ x \in opening => writer[x] \in {"opened", "exporting", "failing", "failed", "done"}
    /\ writer[x] \in {"opened", "exporting"} /\ x \notin opening /\ Exists(x)
          => file[x] = "partial"
    /\ writer[x] = "closed" /\ Exists(x) => file[x] = "whole"
    /\ record[x] = "Completed" =>
          /\ x \notin opening /\ file[x] # "partial"
          /\ writer[x] = "failed" \/ x \in halfway \/ file[x] = "whole"

(* What the task holds: records to fail are running, records to delete once *)
(* existed, and the archive it is about to delete is nobody else's.         *)
TaskInv(x) ==
    /\ x \in task.left => record[x] # "none"
    /\ x \in task.left /\ task.at = "fail" => record[x] = "Running"
    /\ x = task.current =>
          /\ task.at \in {"fail", "expire"}
          /\ \/ record[x] = "deleted"
             \/ record[x] = "Failed" /\ writer[x] = "done"

(* A file that a deleted record may still leave behind is a known stray. *)
StrayInv(x) ==
    record[x] = "deleted" =>
        /\ Unopened(x) => x \in strays
        /\ file[x] # "none" => x \in deleting \cup {task.current} \cup strays

ExportInv(x) == WriterInv(x) /\ FileInv(x) /\ TaskInv(x) /\ StrayInv(x)

(* The archive of an export found completed may go away, not be written. *)
ReaderInv(r) ==
    LET x == reader[r].exp IN
    reader[r].seen = "Completed" =>
        /\ x \in Exports
        /\ writer[x] \in {"stored", "failing", "failed", "done"}
        /\ x \notin opening
        /\ file[x] # "partial"

LifecycleInv ==
    /\ TypeOK
    /\ QuietStart
    /\ \A x \in Exports : ExportInv(x)
    /\ \A r \in Readers : ReaderInv(r)
-----------------------------------------------------------------------------
LEMMA NoReadType == NoRead \in ReaderState
  BY DEF NoRead, ReaderState

LEMMA InitLifecycleInv == Init => LifecycleInv
<1> SUFFICES ASSUME Init PROVE LifecycleInv
  OBVIOUS
<1> USE ExportAssumption DEF Init
<1>1. TypeOK
  <2>1. NoRead \in ReaderState /\ Task("boot", {}, None) \in TaskState
    BY NoReadType DEF TaskState, Task
  <2>2. reader \in [Readers -> ReaderState] /\ task \in TaskState
    BY <2>1
  <2>3. writer \in [Exports -> WriterState]
    BY DEF WriterState
  <2>4. faults \in 0..MaxFaults /\ crashes \in 0..MaxCrashes
    OBVIOUS
  <2> QED  BY <2>2, <2>3, <2>4 DEF TypeOK
<1>2. QuietStart
  BY DEF QuietStart
<1>3. ASSUME NEW x \in Exports PROVE ExportInv(x)
  BY DEF ExportInv, WriterInv, FileInv, TaskInv, StrayInv, Exists, Unopened, Status, Task
<1>4. ASSUME NEW r \in Readers PROVE ReaderInv(r)
  BY DEF ReaderInv, NoRead
<1> QED  BY <1>1, <1>2, <1>3, <1>4 DEF LifecycleInv
-----------------------------------------------------------------------------
(***************************************************************************)
(* Type correctness.                                                       *)
(***************************************************************************)
LEMMA WriterTypeOK ==
    ASSUME TypeOK, NEW x \in Exports, WriterInv(x),
           createExport(x) \/ FileOpens(x) \/ WriterStep(x) \/ ExportFails(x)
    PROVE  TypeOK'
<1> USE ExportAssumption DEF TypeOK, WriterGoes, Unlinked, Fault, rest
<1>1. CASE createExport(x)
  <2>1. record[x] = "none"
    BY <1>1 DEF createExport, WriterInv
  <2> QED  BY <1>1, <2>1 DEF createExport, WriterState, Status
<1>2. CASE FileOpens(x)
  BY <1>2 DEF FileOpens
<1>3. CASE writeContent(x)
  BY <1>3 DEF writeContent, WriterState
<1>4. CASE MarkRunning(x)
  BY <1>4 DEF MarkRunning, updateExport, Exists, WriterState, Status
<1>5. CASE Finalize(x)
  BY <1>5 DEF Finalize, WriterState
<1>6. CASE MarkCompleted(x)
  BY <1>6 DEF MarkCompleted, updateExport, Exists, WriterState, Status
<1>7. CASE DiscardContent(x)
  BY <1>7 DEF DiscardContent, WriterState
<1>8. CASE MarkFailed(x)
  BY <1>8 DEF MarkFailed, updateExport, Exists, WriterState, Status
<1>9. CASE ExportFails(x)
  BY <1>9 DEF ExportFails, WriterState
<1>10. CASE CompletedAnswered(x)
  BY <1>10 DEF CompletedAnswered, WriterState
<1> QED
  BY <1>1, <1>2, <1>3, <1>4, <1>5, <1>6, <1>7, <1>8, <1>9, <1>10 DEF WriterStep

LEMMA RequestTypeOK ==
    ASSUME TypeOK,
           \/ \E x \in Exports : \/ Expire(x) \/ deleteExportForUser(x) \/ deleteContent(x)
                               \/ \E r \in Readers : getExportForUser(r, x)
           \/ \E r \in Readers : readContent(r)
    PROVE  TypeOK'
<1> USE ExportAssumption DEF TypeOK, Unlinked, Fault, rest, world
<1>1. ASSUME NEW x \in Exports, Expire(x) PROVE TypeOK'
  BY <1>1 DEF Expire
<1>2. ASSUME NEW x \in Exports, deleteExportForUser(x) PROVE TypeOK'
  BY <1>2 DEF deleteExportForUser
<1>3. ASSUME NEW x \in Exports, deleteContent(x) PROVE TypeOK'
  BY <1>3 DEF deleteContent
<1>4. ASSUME NEW x \in Exports, NEW r \in Readers, getExportForUser(r, x) PROVE TypeOK'
  BY <1>4 DEF getExportForUser, ReaderState, Exists
<1>5. ASSUME NEW r \in Readers, readContent(r) PROVE TypeOK'
  BY <1>5, NoReadType DEF readContent
<1> QED
  BY <1>1, <1>2, <1>3, <1>4, <1>5

LEMMA TaskTypeOK ==
    ASSUME TypeOK, TaskStep \/ SweepFails
    PROVE  TypeOK'
<1> USE ExportAssumption
    DEF TypeOK, TaskOnly, SweepOnly, TaskState, Task, Unlinked, Fault, rest, world
<1>1. CASE FindInterrupted
  BY <1>1 DEF FindInterrupted
<1>2. ASSUME NEW x \in Exports, FailInterrupted(x) PROVE TypeOK'
  BY <1>2 DEF FailInterrupted, updateExport, Exists, Status
<1>3. ASSUME NEW x \in Exports, deleteExpired(x) PROVE TypeOK'
  BY <1>3 DEF deleteExpired
<1>4. CASE FindExpired
  BY <1>4 DEF FindExpired
<1>5. CASE TaskDeletesContent
  BY <1>5 DEF TaskDeletesContent
<1>6. CASE EndSweep
  BY <1>6 DEF EndSweep
<1>7. CASE SweepFails
  BY <1>7 DEF SweepFails
<1> QED
  BY <1>1, <1>2, <1>3, <1>4, <1>5, <1>6, <1>7 DEF TaskStep

LEMMA CrashTypeOK == TypeOK /\ Crash => TypeOK'
<1> SUFFICES ASSUME TypeOK, Crash PROVE TypeOK'
  OBVIOUS
<1>1. writer' \in [Exports -> WriterState]
  BY DEF TypeOK, Crash, WriterState
<1>2. reader' \in [Readers -> ReaderState]
  BY NoReadType DEF TypeOK, Crash
<1>3. task' \in TaskState
  BY DEF Crash, Task, TaskState
<1>4. crashes' \in 0..MaxCrashes
  BY ExportAssumption DEF TypeOK, Crash
<1> QED  BY <1>1, <1>2, <1>3, <1>4 DEF TypeOK, Crash

LEMMA NextTypeOK == LifecycleInv /\ [Next]_vars => TypeOK'
<1> SUFFICES ASSUME LifecycleInv, [Next]_vars PROVE TypeOK'
  OBVIOUS
<1> USE DEF LifecycleInv, ExportInv
<1>1. CASE Crash
  BY <1>1, CrashTypeOK
<1>2. CASE UNCHANGED vars
  BY <1>2 DEF vars, world, rest, TypeOK
<1> QED
  BY <1>1, <1>2, WriterTypeOK, RequestTypeOK, TaskTypeOK DEF Next
-----------------------------------------------------------------------------
(***************************************************************************)
(* The steps preserve the invariant: first what it says of the exports,    *)
(* with a lemma for each group of actors, then what it says of readers.    *)
(***************************************************************************)
ExportsInv == QuietStart /\ \A x \in Exports : ExportInv(x)

LEMMA WriterKeepsExports ==
    ASSUME LifecycleInv, TypeOK', NEW x \in Exports,
           createExport(x) \/ FileOpens(x) \/ WriterStep(x) \/ ExportFails(x)
    PROVE  ExportsInv'
<1> USE ExportAssumption
    DEF LifecycleInv, ExportsInv, TypeOK, ExportInv, QuietStart, WriterInv, FileInv,
        TaskInv, StrayInv, Exists, Unopened, Status, WriterGoes, Unlinked, Fault, rest
<1>1. CASE createExport(x)
  BY <1>1 DEF createExport
<1>2. CASE FileOpens(x)
  BY <1>2 DEF FileOpens
<1>3. CASE writeContent(x)
  BY <1>3 DEF writeContent
<1>4. CASE MarkRunning(x)
  BY <1>4 DEF MarkRunning, updateExport
<1>5. CASE Finalize(x)
  BY <1>5 DEF Finalize
<1>6. CASE MarkCompleted(x)
  BY <1>6 DEF MarkCompleted, updateExport
<1>7. CASE DiscardContent(x)
  BY <1>7 DEF DiscardContent
<1>8. CASE MarkFailed(x)
  BY <1>8 DEF MarkFailed, updateExport
<1>9. CASE ExportFails(x)
  BY <1>9 DEF ExportFails
<1>10. CASE CompletedAnswered(x)
  BY <1>10 DEF CompletedAnswered
<1> QED
  BY <1>1, <1>2, <1>3, <1>4, <1>5, <1>6, <1>7, <1>8, <1>9, <1>10 DEF WriterStep

LEMMA RequestKeepsExports ==
    ASSUME LifecycleInv, TypeOK',
           \/ \E x \in Exports :
                 \/ Expire(x) \/ deleteExportForUser(x) \/ deleteContent(x)
                 \/ \E r \in Readers : getExportForUser(r, x)
           \/ \E r \in Readers : readContent(r)
    PROVE  ExportsInv'
<1> USE ExportAssumption
    DEF LifecycleInv, ExportsInv, TypeOK, ExportInv, QuietStart, WriterInv, FileInv,
        TaskInv, StrayInv, Exists, Unopened, Status, Unlinked, Fault, rest
<1>1. ASSUME NEW x \in Exports, Expire(x) PROVE ExportsInv'
  BY <1>1 DEF Expire
<1>2. ASSUME NEW x \in Exports, deleteExportForUser(x) PROVE ExportsInv'
  BY <1>2 DEF deleteExportForUser
<1>3. ASSUME NEW x \in Exports, deleteContent(x) PROVE ExportsInv'
  BY <1>3 DEF deleteContent
<1>4. ASSUME NEW x \in Exports, NEW r \in Readers, getExportForUser(r, x)
      PROVE ExportsInv'
  BY <1>4 DEF getExportForUser, world
<1>5. ASSUME NEW r \in Readers, readContent(r) PROVE ExportsInv'
  BY <1>5 DEF readContent, world
<1> QED
  BY <1>1, <1>2, <1>3, <1>4, <1>5

LEMMA TaskKeepsExports ==
    ASSUME LifecycleInv, TypeOK', TaskStep \/ SweepFails \/ Crash
    PROVE  ExportsInv'
<1> USE ExportAssumption
    DEF LifecycleInv, ExportsInv, TypeOK, ExportInv, QuietStart, WriterInv, FileInv,
        TaskInv, StrayInv, Exists, Unopened, Status, Task, TaskOnly, SweepOnly, Unlinked,
        Fault, rest
<1>1. CASE FindInterrupted
  BY <1>1 DEF FindInterrupted
<1>2. ASSUME NEW x \in Exports, FailInterrupted(x) PROVE ExportsInv'
  BY <1>2 DEF FailInterrupted, updateExport
<1>3. ASSUME NEW x \in Exports, deleteExpired(x) PROVE ExportsInv'
  BY <1>3 DEF deleteExpired
<1>4. CASE FindExpired
  BY <1>4 DEF FindExpired
<1>5. CASE TaskDeletesContent
  BY <1>5 DEF TaskDeletesContent
<1>6. CASE EndSweep
  BY <1>6 DEF EndSweep
<1>7. CASE SweepFails
  BY <1>7 DEF SweepFails
<1>8. CASE Crash
  BY <1>8 DEF Crash
<1> QED
  BY <1>1, <1>2, <1>3, <1>4, <1>5, <1>6, <1>7, <1>8 DEF TaskStep

(* A writer that is done writes no more, and a reader holds a record that   *)
(* was completed only once its writer was.                                  *)
LEMMA StepKeepsReaders ==
    ASSUME LifecycleInv, TypeOK', Next, NEW q \in Readers
    PROVE  ReaderInv(q)'
<1> USE ExportAssumption
    DEF LifecycleInv, TypeOK, ExportInv, WriterInv, FileInv, TaskInv, ReaderInv,
        ReaderState, Unlinked, Fault, rest
<1>1. ASSUME NEW x \in Exports, createExport(x) PROVE ReaderInv(q)'
  BY <1>1 DEF createExport, WriterGoes
<1>2. ASSUME NEW x \in Exports, FileOpens(x) PROVE ReaderInv(q)'
  BY <1>2 DEF FileOpens
<1>3. ASSUME NEW x \in Exports, writeContent(x) PROVE ReaderInv(q)'
  BY <1>3 DEF writeContent, WriterGoes
<1>4. ASSUME NEW x \in Exports, MarkRunning(x) PROVE ReaderInv(q)'
  BY <1>4 DEF MarkRunning, WriterGoes
<1>5. ASSUME NEW x \in Exports, Finalize(x) PROVE ReaderInv(q)'
  BY <1>5 DEF Finalize, WriterGoes
<1>6. ASSUME NEW x \in Exports, MarkCompleted(x) PROVE ReaderInv(q)'
  BY <1>6 DEF MarkCompleted, WriterGoes
<1>7. ASSUME NEW x \in Exports, DiscardContent(x) PROVE ReaderInv(q)'
  BY <1>7 DEF DiscardContent, WriterGoes
<1>8. ASSUME NEW x \in Exports, MarkFailed(x) PROVE ReaderInv(q)'
  BY <1>8 DEF MarkFailed, WriterGoes
<1>9. ASSUME NEW x \in Exports, ExportFails(x) PROVE ReaderInv(q)'
  BY <1>9 DEF ExportFails, WriterGoes
<1>10. ASSUME NEW x \in Exports, Expire(x) PROVE ReaderInv(q)'
  BY <1>10 DEF Expire
<1>11. ASSUME NEW x \in Exports, deleteExportForUser(x) PROVE ReaderInv(q)'
  BY <1>11 DEF deleteExportForUser
<1>12. ASSUME NEW x \in Exports, deleteContent(x) PROVE ReaderInv(q)'
  BY <1>12 DEF deleteContent
<1>13. ASSUME NEW x \in Exports, NEW r \in Readers, getExportForUser(r, x)
       PROVE ReaderInv(q)'
  BY <1>13 DEF getExportForUser, WriterState, world
<1>14. ASSUME NEW r \in Readers, readContent(r) PROVE ReaderInv(q)'
  BY <1>14 DEF readContent, world, NoRead
<1>15. CASE TaskStep \/ SweepFails
  BY <1>15 DEF TaskStep, FindInterrupted, FailInterrupted, deleteExpired, FindExpired,
                TaskDeletesContent, EndSweep, SweepFails, TaskOnly, SweepOnly, Task, world
<1>16. CASE Crash
  BY <1>16 DEF Crash, NoRead
<1>17. ASSUME NEW x \in Exports, CompletedAnswered(x) PROVE ReaderInv(q)'
  BY <1>17 DEF CompletedAnswered, WriterGoes
<1> QED
  BY <1>1, <1>2, <1>3, <1>4, <1>5, <1>6, <1>7, <1>8, <1>9, <1>10, <1>11, <1>12,
     <1>13, <1>14, <1>15, <1>16, <1>17 DEF Next, WriterStep

(***************************************************************************)
(* The theorems.                                                           *)
(***************************************************************************)
LEMMA NextLifecycleInv == LifecycleInv /\ [Next]_vars => LifecycleInv'
<1> SUFFICES ASSUME LifecycleInv, [Next]_vars PROVE LifecycleInv'
  OBVIOUS
<1>1. TypeOK'
  BY NextTypeOK
<1>2. CASE Next
  <2>1. ExportsInv'
    BY <1>1, <1>2, WriterKeepsExports, RequestKeepsExports, TaskKeepsExports
       DEF Next
  <2>2. \A r \in Readers : ReaderInv(r)'
    BY <1>1, <1>2, StepKeepsReaders
  <2> QED  BY <1>1, <2>1, <2>2 DEF LifecycleInv, ExportsInv
<1>3. CASE UNCHANGED vars
  BY <1>3 DEF vars, world, rest, LifecycleInv, TypeOK, QuietStart, ExportInv,
              WriterInv, FileInv, TaskInv, StrayInv, ReaderInv, Exists, Unopened
<1> QED  BY <1>2, <1>3

(* All that is known of an export, its archive and its readers holds for    *)
(* ever; the theorems below are read off from it.                           *)
THEOREM LifecycleCorrect == Spec => []LifecycleInv
  BY InitLifecycleInv, NextLifecycleInv, PTL DEF Spec

(* Every variable keeps its type, and a delete request that has yet to      *)
(* delete the file is one whose record is gone.                             *)
THEOREM TypeCorrect == Spec => []TypeOK
<1>1. LifecycleInv => TypeOK
  BY DEF LifecycleInv
<1> QED  BY <1>1, LifecycleCorrect, PTL

(* A completed export has its whole archive until it is deleted, but for    *)
(* the one that its writer takes back after a rejected update               *)
(* (updateExportForUser, and the catch of CreateExport).                    *)
THEOREM CompletedCorrect == Spec => []CompletedIsWhole
<1>1. LifecycleInv => CompletedIsWhole
  BY DEF LifecycleInv, CompletedIsWhole, ExportInv, FileInv
<1> QED  BY <1>1, LifecycleCorrect, PTL

(* While the server listens an export shown as running is worked on. *)
THEOREM RunningCorrect == Spec => []RunningHasWriter
<1>1. LifecycleInv => RunningHasWriter
  BY DEF LifecycleInv, RunningHasWriter, ExportInv, WriterInv
<1> QED  BY <1>1, LifecycleCorrect, PTL

(* An archive that outlives its record is being deleted, or a known stray. *)
THEOREM StraysCorrect == Spec => []OnlyKnownStrays
<1>1. LifecycleInv => OnlyKnownStrays
  BY DEF LifecycleInv, OnlyKnownStrays, ExportInv, StrayInv
<1> QED  BY <1>1, LifecycleCorrect, PTL

(* What was found completed is never downloaded in part. *)
THEOREM ReadsCorrect == Spec => []CompletedReadsWhole
<1>1. LifecycleInv => CompletedReadsWhole
  BY DEF LifecycleInv, CompletedReadsWhole, ReaderInv
<1> QED  BY <1>1, LifecycleCorrect, PTL

(* No step takes an export out of a settled status but to delete it: the    *)
(* writers of settled exports are done, or take back a completion that was  *)
(* stored and rejected; and the task fails running ones.                    *)
THEOREM SettledCorrect == Spec => SettledStays
<1> DEFINE Stays(x) ==
        \/ record'[x] \in {record[x], "deleted"}
        \/ record[x] = "Completed" /\ writer[x] = "failed" /\ record'[x] = "Failed"
<1>1. ASSUME LifecycleInv, [Next]_vars, NEW x \in Exports,
             record[x] \in {"Completed", "Failed"}
      PROVE  Stays(x)
  <2> USE <1>1 DEF LifecycleInv, TypeOK, ExportInv, WriterInv, TaskInv, Status
  <2>1. ASSUME NEW y \in Exports,
               createExport(y) \/ FileOpens(y) \/ WriterStep(y) \/ ExportFails(y)
        PROVE  Stays(x)
    BY <2>1 DEF createExport, FileOpens, WriterStep, writeContent, MarkRunning, Finalize,
                MarkCompleted, CompletedAnswered, DiscardContent, MarkFailed, ExportFails,
                WriterGoes, updateExport, Exists
  <2>2. ASSUME NEW y \in Exports,
               \/ Expire(y) \/ deleteExportForUser(y) \/ deleteContent(y)
               \/ \E r \in Readers : getExportForUser(r, y) \/ readContent(r)
        PROVE  Stays(x)
    BY <2>2 DEF Expire, deleteExportForUser, deleteContent, getExportForUser, readContent,
                world
  <2>3. CASE TaskStep \/ SweepFails \/ Crash
    BY <2>3 DEF TaskStep, FindInterrupted, FailInterrupted, FindExpired, deleteExpired,
                TaskDeletesContent, EndSweep, SweepFails, Crash, updateExport, Exists, world
  <2>4. CASE UNCHANGED vars
    BY <2>4 DEF vars, world
  <2> QED  BY <2>1, <2>2, <2>3, <2>4 DEF Next
<1>2. LifecycleInv /\ [Next]_vars =>
          \A x \in Exports : record[x] \in {"Completed", "Failed"} => Stays(x)
  BY <1>1
<1> QED  BY <1>2, LifecycleCorrect, PTL DEF Spec, SettledStays
=============================================================================
