--------------------------- MODULE ExportLifecycle ---------------------------
(***************************************************************************)
(* Exports: a record in the database and an archive file beside it, for    *)
(* each export a user asked for.                                           *)
(*                                                                         *)
(* Four kinds of actors work on the two, with no lock between them:        *)
(*   - a writer per export (CreateExport), which answers the request early *)
(*     and goes on writing the archive in the background;                  *)
(*   - delete requests (DeleteExport) and downloads (GetExportContent);    *)
(*   - the archive task (ExportArchiveTask), which fails what an earlier   *)
(*     life of the server left running, before the server listens, and     *)
(*     then sweeps expired exports on a timer.                             *)
(***************************************************************************)
EXTENDS Naturals, FiniteSets

CONSTANTS
    Exports,      (* export ids                                            *)
    Readers,      (* downloads                                             *)
    MaxFaults,    (* bound: rejections that the code catches               *)
    MaxCrashes,   (* bound: restarts of the server                         *)
    None          (* no export                                             *)

ASSUME ExportAssumption ==
    /\ None \notin Exports
    /\ MaxFaults \in Nat
    /\ MaxCrashes \in Nat

VARIABLES
    record,     (* status of the record in the database                    *)
    file,       (* the archive at the export's path                        *)
    opening,    (* writers whose file is still being opened                *)
    expired,    (* exports whose expiration date has passed                *)
    writer,     (* progress of CreateExport and its background part        *)
    deleting,   (* delete requests that have yet to delete the file        *)
    reader,     (* downloads that found a record, and the status it had    *)
    task,       (* where the archive task stands                           *)
    listening,  (* the server accepts requests                             *)
    faults, crashes,
    strays,     (* history: deletions that failed, or were overtaken by    *)
                (* the writer or a crash                                   *)
    halfway     (* history: writers that a crash stopped in the catch      *)

world == <<record, file, opening, expired>>
rest  == <<faults, crashes, strays, halfway>>
vars  == <<world, writer, deleting, reader, task, listening, rest>>

Status == {"Running", "Completed", "Failed"}

WriterState == {"idle", "created", "opened", "exporting", "closed", "stored", "failing",
                "failed", "done"}
ReaderState == [exp : Exports \cup {None}, seen : Status \cup {"none"}]
TaskState   == [at : {"boot", "fail", "expire", "asleep"},
                left : SUBSET Exports, current : Exports \cup {None}]

NoRead == [exp |-> None, seen |-> "none"]
Task(p, left, x) == [at |-> p, left |-> left, current |-> x]

Exists(x) == record[x] \in Status

(* The writer has created the record, and not yet the file. *)
Unopened(x) == writer[x] = "created" \/ x \in opening

(* An update of a record that was deleted finds nothing and changes nothing. *)
updateExport(x, status) ==
    record' = IF Exists(x) THEN [record EXCEPT ![x] = status] ELSE record

Fault == faults < MaxFaults /\ faults' = faults + 1

(* The archive is unlinked.  An error of the file system is returned, which *)
(* no caller looks at; of a deleted record that leaves the file.            *)
Unlinked(x) ==
    \/ file' = [file EXCEPT ![x] = "none"] /\ UNCHANGED <<faults, strays>>
    \/ /\ Fault
       /\ strays' = IF Exists(x) THEN strays ELSE strays \cup {x}
       /\ UNCHANGED file

Init ==
    /\ record = [x \in Exports |-> "none"]
    /\ file = [x \in Exports |-> "none"]
    /\ opening = {}
    /\ expired = {}
    /\ writer = [x \in Exports |-> "idle"]
    /\ deleting = {}
    /\ reader = [r \in Readers |-> NoRead]
    /\ task = Task("boot", {}, None)
    /\ listening = FALSE
    /\ faults = 0
    /\ crashes = 0
    /\ strays = {}
    /\ halfway = {}

Expire(x) ==
    /\ Exists(x)
    /\ x \notin expired
    /\ expired' = expired \cup {x}
    /\ UNCHANGED <<record, file, opening, writer, deleting, reader, task, listening,
                   rest>>

-----------------------------------------------------------------------------
(***************************************************************************)
(* The writer.                                                             *)
(***************************************************************************)
WriterGoes(x, from, to) ==
    /\ writer[x] = from
    /\ writer' = [writer EXCEPT ![x] = to]
    /\ UNCHANGED <<expired, deleting, reader, task, listening>>

createExport(x) ==
    /\ listening
    /\ WriterGoes(x, "idle", "created")
    /\ record' = [record EXCEPT ![x] = "Running"]
    /\ UNCHANGED <<file, opening, rest>>

(* Asks for the file; it is there when the file system has opened it. *)
writeContent(x) ==
    /\ WriterGoes(x, "created", "opened")
    /\ opening' = opening \cup {x}
    /\ UNCHANGED <<record, file, rest>>

FileOpens(x) ==
    /\ x \in opening
    /\ opening' = opening \ {x}
    /\ file' = [file EXCEPT ![x] = "partial"]
    /\ UNCHANGED <<record, expired, writer, deleting, reader, task, listening, rest>>

MarkRunning(x) ==
    /\ WriterGoes(x, "opened", "exporting")
    /\ updateExport(x, "Running")
    /\ UNCHANGED <<file, opening, rest>>

(* What is written to a file that was unlinked is gone with it. *)
Finalize(x) ==
    /\ x \notin opening
    /\ WriterGoes(x, "exporting", "closed")
    /\ file' = IF file[x] = "partial" THEN [file EXCEPT ![x] = "whole"] ELSE file
    /\ UNCHANGED <<record, opening, rest>>

(* MUTANT of MarkCompleted: does not wait for the archive to be closed. *)
MarkCompletedEarly(x) ==
    /\ WriterGoes(x, "exporting", "done")
    /\ updateExport(x, "Completed")
    /\ UNCHANGED <<file, opening, rest>>

(* The database stores the status; the answer comes when it has also found *)
(* the user and the event of the export.                                   *)
MarkCompleted(x) ==
    /\ WriterGoes(x, "closed", "stored")
    /\ updateExport(x, "Completed")
    /\ UNCHANGED <<file, opening, rest>>

CompletedAnswered(x) ==
    /\ WriterGoes(x, "stored", "done")
    /\ UNCHANGED <<record, file, opening, rest>>

(* The background part rejects, its last update included, before or after  *)
(* that was stored: on to the catch.                                       *)
ExportFails(x) ==
    /\ \E from \in {"exporting", "closed", "stored"} : WriterGoes(x, from, "failing")
    /\ Fault
    /\ UNCHANGED <<record, file, opening, crashes, strays, halfway>>

DiscardContent(x) ==
    /\ WriterGoes(x, "failing", "failed")
    /\ Unlinked(x)
    /\ UNCHANGED <<record, opening, crashes, halfway>>

MarkFailed(x) ==
    /\ WriterGoes(x, "failed", "done")
    /\ updateExport(x, "Failed")
    /\ UNCHANGED <<file, opening, rest>>

-----------------------------------------------------------------------------
(***************************************************************************)
(* Delete requests and downloads.                                          *)
(***************************************************************************)
(* MUTANT of deleteExportForUser: the file goes first, the record stays. *)
deleteExportFileFirst(x) ==
    /\ listening
    /\ Exists(x)
    /\ deleting' = deleting \cup {x}
    /\ UNCHANGED <<world, writer, reader, task, listening, rest>>

deleteExportForUser(x) ==
    /\ listening
    /\ Exists(x)
    /\ record' = [record EXCEPT ![x] = "deleted"]
    /\ deleting' = deleting \cup {x}
    /\ strays' = IF Unopened(x) THEN strays \cup {x} ELSE strays
    /\ UNCHANGED <<file, opening, expired, writer, reader, task, listening, faults, crashes,
                   halfway>>

deleteContent(x) ==
    /\ x \in deleting
    /\ deleting' = deleting \ {x}
    /\ Unlinked(x)
    /\ UNCHANGED <<record, opening, expired, writer, reader, task, listening, crashes, halfway>>

getExportForUser(r, x) ==
    /\ listening
    /\ reader[r].exp = None
    /\ Exists(x)
    /\ reader' = [reader EXCEPT ![r] = [exp |-> x, seen |-> record[x]]]
    /\ UNCHANGED <<world, writer, deleting, task, listening, rest>>

(* Opens the file, whatever the record said, and sends what it finds; a     *)
(* stream that was begun goes on when the file is unlinked.                 *)
readContent(r) ==
    /\ reader[r].exp # None
    /\ reader' = [reader EXCEPT ![r] = NoRead]
    /\ UNCHANGED <<world, writer, deleting, task, listening, rest>>

-----------------------------------------------------------------------------
(***************************************************************************)
(* The archive task.                                                       *)
(***************************************************************************)
TaskOnly == UNCHANGED <<opening, expired, writer, deleting, reader, rest>>

SweepOnly == UNCHANGED <<opening, expired, writer, deleting, reader, crashes, halfway>>

(* MUTANT of FindInterrupted: only those that had begun their file. *)
FindInterruptedWithFile ==
    /\ task.at = "boot"
    /\ task' = Task("fail", {x \in Exports : record[x] = "Running" /\ file[x] # "none"}, None)
    /\ UNCHANGED <<record, file, listening>>
    /\ TaskOnly

(* MUTANT of FindInterrupted: does not look at the status. *)
FindInterruptedAll ==
    /\ task.at = "boot"
    /\ task' = Task("fail", {x \in Exports : Exists(x)}, None)
    /\ UNCHANGED <<record, file, listening>>
    /\ TaskOnly

(* Only now are the records read that were running when the server stopped. *)
FindInterrupted ==
    /\ task.at = "boot"
    /\ task' = Task("fail", {x \in Exports : record[x] = "Running"}, None)
    /\ UNCHANGED <<record, file, listening>>
    /\ TaskOnly

FailInterrupted(x) ==
    /\ task.at = "fail"
    /\ task.current = None
    /\ x \in task.left
    /\ updateExport(x, "Failed")
    /\ task' = Task(task.at, task.left \ {x}, x)
    /\ UNCHANGED <<file, listening>>
    /\ TaskOnly

FindExpired ==
    /\ \/ task.at = "fail" /\ task.left = {} /\ task.current = None
       \/ task.at = "asleep"
    /\ task' = Task("expire", {x \in Exports : Exists(x)}, None)
    /\ UNCHANGED <<record, file, listening>>
    /\ TaskOnly

(* MUTANT of deleteExpired: forgets the file. *)
deleteExpiredRecord(x) ==
    /\ task.at = "expire"
    /\ task.current = None
    /\ x \in task.left
    /\ record' = IF x \in expired THEN [record EXCEPT ![x] = "deleted"] ELSE record
    /\ task' = Task(task.at, task.left \ {x}, None)
    /\ strays' = IF x \in expired /\ Unopened(x)
                 THEN strays \cup {x} ELSE strays
    /\ UNCHANGED <<file, listening, faults>>
    /\ SweepOnly

(* MUTANT of deleteExpired: leaves a running export to its writer. *)
deleteExpiredSettled(x) ==
    /\ task.at = "expire"
    /\ task.current = None
    /\ x \in task.left
    /\ IF x \in expired /\ record[x] # "Running"
       THEN /\ record' = [record EXCEPT ![x] = "deleted"]
            /\ task' = Task(task.at, task.left \ {x}, x)
       ELSE /\ task' = Task(task.at, task.left \ {x}, None)
            /\ UNCHANGED record
    /\ UNCHANGED <<file, opening, expired, writer, deleting, reader, listening, rest>>

(* The list is the one that was read; the clock is read for each export. *)
deleteExpired(x) ==
    /\ task.at = "expire"
    /\ task.current = None
    /\ x \in task.left
    /\ IF x \in expired
       THEN /\ record' = [record EXCEPT ![x] = "deleted"]
            /\ task' = Task(task.at, task.left \ {x}, x)
       ELSE /\ task' = Task(task.at, task.left \ {x}, None)
            /\ UNCHANGED record
    /\ strays' = IF x \in expired /\ Unopened(x)
                 THEN strays \cup {x} ELSE strays
    /\ UNCHANGED <<file, listening, faults>>
    /\ SweepOnly

TaskDeletesContent ==
    /\ task.current # None
    /\ Unlinked(task.current)
    /\ task' = Task(task.at, task.left, None)
    /\ UNCHANGED <<record, listening>>
    /\ SweepOnly

(* The first sweep ends the start of the server. *)
EndSweep ==
    /\ task.at = "expire"
    /\ task.left = {}
    /\ task.current = None
    /\ task' = Task("asleep", {}, None)
    /\ listening' = TRUE
    /\ UNCHANGED <<record, file>>
    /\ TaskOnly

(* The database fails the sweep, when it reads the list, or before or after *)
(* a record is deleted: the rest waits for the next one.                    *)
SweepFails ==
    /\ \/ task.at = "expire"
       \/ task.at = "fail" /\ task.left = {} /\ task.current = None
       \/ task.at = "asleep"
    /\ Fault
    /\ task' = Task("asleep", {}, None)
    /\ listening' = TRUE
    /\ strays' = strays \cup ({task.current} \cap Exports)
    /\ UNCHANGED <<record, file>>
    /\ SweepOnly

(* The server stops and is started again.  A rejection that no catch awaits, *)
(* in a request or at the start of the server, ends the process too.         *)
Crash ==
    /\ crashes < MaxCrashes
    /\ crashes' = crashes + 1
    /\ listening' = FALSE
    /\ task' = Task("boot", {}, None)
    /\ writer' = [x \in Exports |-> IF writer[x] = "idle" THEN "idle" ELSE "done"]
    /\ reader' = [r \in Readers |-> NoRead]
    /\ deleting' = {}
    /\ opening' = {}
    /\ strays' = strays \cup {x \in Exports :
           record[x] = "deleted" /\ (x \in deleting \/ x = task.current)}
    /\ halfway' = halfway \cup {x \in Exports : writer[x] = "failed"}
    /\ UNCHANGED <<record, file, expired, faults>>

-----------------------------------------------------------------------------
WriterStep(x) ==
    writeContent(x) \/ MarkRunning(x) \/ Finalize(x) \/ MarkCompleted(x)
        \/ CompletedAnswered(x) \/ DiscardContent(x) \/ MarkFailed(x)

TaskStep ==
    \/ FindInterrupted
    \/ \E x \in Exports : FailInterrupted(x) \/ deleteExpired(x)
    \/ FindExpired
    \/ TaskDeletesContent
    \/ EndSweep

Next ==
    \/ \E x \in Exports :
          \/ Expire(x)
          \/ createExport(x) \/ FileOpens(x) \/ WriterStep(x) \/ ExportFails(x)
          \/ deleteExportForUser(x) \/ deleteContent(x)
          \/ \E r \in Readers : getExportForUser(r, x)
    \/ \E r \in Readers : readContent(r)
    \/ TaskStep
    \/ SweepFails
    \/ Crash

Spec == Init /\ [][Next]_vars

(* The task re-arms its timer whatever a sweep met with. *)
FairSpec == Spec /\ WF_vars(TaskStep)
-----------------------------------------------------------------------------
(* Every variable keeps its type; the file is deleted after the record. *)
TypeOK ==
    /\ record \in [Exports -> Status \cup {"none", "deleted"}]
    /\ file \in [Exports -> {"none", "partial", "whole"}]
    /\ opening \subseteq Exports
    /\ expired \subseteq Exports
    /\ writer \in [Exports -> WriterState]
    /\ deleting \subseteq {x \in Exports : record[x] = "deleted"}
    /\ reader \in [Readers -> ReaderState]
    /\ task \in TaskState
    /\ listening \in BOOLEAN
    /\ faults \in 0..MaxFaults
    /\ crashes \in 0..MaxCrashes
    /\ strays \subseteq Exports
    /\ halfway \subseteq Exports

(* A completed export has its whole archive, through failures of the writer, *)
(* restarts and sweeps, until its record is deleted: unless the update that  *)
(* completed it was stored and still rejected, and the catch has unlinked    *)
(* the archive and is about to say failed, or was stopped there by a crash.  *)
CompletedIsWhole ==
    \A x \in Exports :
        record[x] = "Completed" /\ writer[x] # "failed" /\ x \notin halfway => file[x] = "whole"

(* Once the server listens, an export shown as running is being worked on:  *)
(* the start of the server failed those an earlier life had left, and a     *)
(* writer does not leave before it has said how it went.                    *)
RunningHasWriter ==
    \A x \in Exports :
        listening /\ record[x] = "Running" => writer[x] \notin {"idle", "done"}

(* A file outlives its record only while it is being deleted, or when the   *)
(* deletion failed, which its callers do not notice, or was overtaken: by a *)
(* crash, a failure of the sweep, or a writer that had created the record   *)
(* and not yet the file.                                                    *)
OnlyKnownStrays ==
    \A x \in Exports :
        record[x] = "deleted" /\ file[x] # "none"
            => x \in deleting \cup {task.current} \cup strays

(* A download that found a completed export opens its whole archive, or     *)
(* none if it was deleted in between, and never a part of one.              *)
CompletedReadsWhole ==
    \A r \in Readers :
        reader[r].seen = "Completed" => file[reader[r].exp] # "partial"

(* An export that settled changes no more, until it is deleted; only the    *)
(* writer whose update was stored and rejected takes its own status back.   *)
SettledStays ==
    [][\A x \in Exports :
          record[x] \in {"Completed", "Failed"} =>
              \/ record'[x] \in {record[x], "deleted"}
              \/ record[x] = "Completed" /\ writer[x] = "failed" /\ record'[x] = "Failed"]_vars

(* Expired exports go away, whatever state they are in. *)
ExpiredReclaimed ==
    \A x \in Exports : x \in expired ~> record[x] = "deleted"
=============================================================================
