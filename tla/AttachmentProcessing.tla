------------------------ MODULE AttachmentProcessing ------------------------
(***************************************************************************)
(* Content of the attachments of one observation, on a server that has at  *)
(* least one attachment-processing hook registered (a virus scanner).      *)
(*                                                                         *)
(* Three kinds of actors share the observation document and two            *)
(* directories of files, and give way to each other at every `await`:      *)
(*   - upload requests (StoreAttachmentContent) stage a file and record    *)
(*     its id on the attachment;                                           *)
(*   - the background job (processPendingAttachment) scans staged files,   *)
(*     moves the clean ones to their final place, drops the others;        *)
(*   - edit requests (SaveObservation) write the whole attachment array    *)
(*     from the copy they read, and have removed content deleted.          *)
(*                                                                         *)
(* An upload stands for its staged content id and for the content it       *)
(* carries: uniqid() gives every fresh stream a new id.                    *)
(***************************************************************************)
EXTENDS Integers, FiniteSets

CONSTANTS
    Attachments,   (* attachment ids, in the order of the attachment array *)
    Saved,         (* the attachments on the observation at the start      *)
    Uploads,       (* content uploads, each made at most once              *)
    Target,        (* the attachment an upload is for                      *)
    Malware,       (* the uploads whose content the scanner rejects        *)
    Editors,       (* clients that save the observation                    *)
    RetryLimit,    (* scans that may fail before the job gives up          *)
    BatchSize,     (* attachments the job takes in one cycle               *)
    MaxEdits,      (* bound: edit requests in a behaviour                  *)
    MaxFaults,     (* bound: crashes and unexpected errors in a behaviour  *)
    None           (* no upload                                            *)

ASSUME ProcessingAssumption ==
    /\ Attachments \subseteq Nat
    /\ Saved \subseteq Attachments
    /\ Target \in [Uploads -> Attachments]
    /\ Malware \subseteq Uploads
    /\ None \notin Uploads
    /\ RetryLimit \in Nat \ {0}
    /\ BatchSize \in Nat \ {0}
    /\ MaxEdits \in Nat
    /\ MaxFaults \in Nat

VARIABLES
    doc,         (* the attachment array of the stored observation         *)
    issued,      (* attachment ids given out so far                        *)
    pendingDir,  (* staged files, by upload                                *)
    finalDir,    (* the file at an attachment's final path                 *)
    upload,      (* progress of the upload requests                        *)
    jobAt,       (* where the job's single loop stands                     *)
    batch,       (* attachments left in the job's current batch            *)
    jobAtt,      (* the attachment being processed                         *)
    jobSeen,     (* its record as the job read it                          *)
    verdict,     (* what the hooks said of its staged file                 *)
    edit,        (* progress of the edit requests                          *)
    removing,    (* removed attachments whose content is to be deleted     *)
    edits,       (* edit requests made so far                              *)
    faults,      (* crashes and unexpected errors so far                   *)
    acked,       (* history: the last upload acknowledged for an attachment*)
    scans        (* history: scans of an upload, counted up to RetryLimit  *)

jobVars  == <<jobAt, batch, jobAtt, jobSeen, verdict>>
editVars == <<edit, removing, edits, issued>>
vars == <<doc, pendingDir, finalDir, upload, jobVars, editVars, faults,
          acked, scans>>

Status == {"absent", "none", "pending", "success", "rejected", "error"}
AttachmentDoc == [status : Status, staged : Uploads \cup {None}, retries : Nat]
ObservationDoc == [Attachments -> AttachmentDoc]

Absent == [status |-> "absent", staged |-> None, retries |-> 0]
Fresh  == [status |-> "none", staged |-> None, retries |-> 0]

(* The job's local variables are gone once it is done with an attachment. *)
LetGo == jobAtt' = None /\ jobSeen' = Absent /\ verdict' = "pass"
Hold  == UNCHANGED <<jobAtt, jobSeen>>

Present(d)     == {a \in Attachments : d[a].status # "absent"}
PendingOn(d)   == {a \in Attachments : d[a].status = "pending"}

UploadState == [at : {"idle", "found", "staged", "done"}, seen : AttachmentDoc]
EditState   == [at : {"idle", "prepared", "saving"}, seen : ObservationDoc,
                base : ObservationDoc, stale : BOOLEAN,
                add : SUBSET Attachments, remove : SUBSET Attachments]
Done        == [at |-> "done", seen |-> Absent]
NoEdit(d)   == [at |-> "idle", seen |-> d, base |-> d, stale |-> FALSE,
                add |-> {}, remove |-> {}]
NoDoc       == [a \in Attachments |-> Absent]

Init ==
    /\ doc = [a \in Attachments |-> IF a \in Saved THEN Fresh ELSE Absent]
    /\ issued = Saved
    /\ pendingDir = {}
    /\ finalDir = [a \in Attachments |-> None]
    /\ upload = [u \in Uploads |-> [at |-> "idle", seen |-> Absent]]
    /\ jobAt = "idle"
    /\ batch = {}
    /\ jobAtt = None
    /\ jobSeen = Absent
    /\ verdict = "pass"
    /\ edit = [e \in Editors |-> NoEdit(NoDoc)]
    /\ removing = {}
    /\ edits = 0
    /\ faults = 0
    /\ acked = [a \in Attachments |-> None]
    /\ scans = [u \in Uploads |-> 0]

-----------------------------------------------------------------------------
(***************************************************************************)
(* The database.  patchAttachment computes the patched record from the     *)
(* copy its caller holds and replaces the one array element with that id,  *)
(* if there still is one.                                                  *)
(***************************************************************************)
Patched(status, staged, retries) ==
    [status |-> status, staged |-> staged, retries |-> retries]

(* MUTANT of patchAttachment: writes the element back when it was removed. *)
patchAttachmentUpserts(a, patched) ==
    doc' = [doc EXCEPT ![a] = patched]

patchAttachment(a, patched) ==
    doc' = IF doc[a].status = "absent" THEN doc
                                       ELSE [doc EXCEPT ![a] = patched]

(***************************************************************************)
(* Uploads: find the observation, stage the bytes, patch the attachment.   *)
(***************************************************************************)
FindForUpload(u) ==
    /\ upload[u].at = "idle"
    /\ doc[Target[u]].status # "absent"
    /\ upload' = [upload EXCEPT ![u] = [at |-> "found", seen |-> doc[Target[u]]]]
    /\ UNCHANGED <<doc, pendingDir, finalDir, jobVars, editVars, faults, acked, scans>>

StageContent(u) ==
    /\ upload[u].at = "found"
    /\ pendingDir' = pendingDir \cup {u}
    /\ upload' = [upload EXCEPT ![u].at = "staged"]
    /\ UNCHANGED <<doc, finalDir, jobVars, editVars, faults, acked, scans>>

(* The stream breaks: the part that was written stays where it was staged. *)
StagingFails(u) ==
    /\ upload[u].at = "found"
    /\ pendingDir' = pendingDir \cup {u}
    /\ upload' = [upload EXCEPT ![u] = Done]
    /\ UNCHANGED <<doc, finalDir, jobVars, editVars, faults, acked, scans>>

(* A null result (the attachment went away) is an error to the client. *)
StorePatch(u) ==
    /\ upload[u].at = "staged"
    /\ patchAttachment(Target[u], Patched("pending", u, upload[u].seen.retries))
    /\ acked' = IF doc[Target[u]].status = "absent" THEN acked
                ELSE [acked EXCEPT ![Target[u]] = u]
    /\ upload' = [upload EXCEPT ![u] = Done]
    /\ UNCHANGED <<pendingDir, finalDir, jobVars, editVars, faults, scans>>

-----------------------------------------------------------------------------
(***************************************************************************)
(* The job: one loop, one attachment at a time.                            *)
(***************************************************************************)
FirstPending ==
    {a \in PendingOn(doc) :
        Cardinality({b \in PendingOn(doc) : b < a}) < BatchSize}

findPendingAttachments ==
    /\ jobAt = "idle"
    /\ batch' = FirstPending
    /\ jobAt' = "next"
    /\ UNCHANGED <<doc, pendingDir, finalDir, upload, jobAtt, jobSeen, verdict,
                   editVars, faults, acked, scans>>

EndBatch ==
    /\ jobAt = "next"
    /\ batch = {}
    /\ jobAt' = "idle"
    /\ UNCHANGED <<doc, pendingDir, finalDir, upload, batch, jobAtt, jobSeen,
                   verdict, editVars, faults, acked, scans>>

(* MUTANT of FindAttachment: trusts the batch and does not look for staged content. *)
FindAttachmentTrusting(a) ==
    /\ jobAt = "next"
    /\ a \in batch
    /\ \A b \in batch : a <= b
    /\ batch' = batch \ {a}
    /\ jobAt' = "scan" /\ jobAtt' = a /\ jobSeen' = doc[a]
    /\ UNCHANGED <<doc, pendingDir, finalDir, upload, verdict, editVars, faults,
                   acked, scans>>

(* Reads the observation again; without staged content there is nothing to do. *)
FindAttachment(a) ==
    /\ jobAt = "next"
    /\ a \in batch
    /\ \A b \in batch : a <= b
    /\ batch' = batch \ {a}
    /\ IF doc[a].status = "absent" \/ doc[a].staged = None
       THEN jobAt' = "next" /\ Hold
       ELSE jobAt' = "scan" /\ jobAtt' = a /\ jobSeen' = doc[a]
    /\ UNCHANGED <<doc, pendingDir, finalDir, upload, verdict, editVars, faults,
                   acked, scans>>

(* MUTANT of Outcomes: a file that is not there has nothing in it to reject. *)
OutcomesMissingPasses(u) ==
    {"error", IF u \in pendingDir /\ u \in Malware THEN "reject" ELSE "pass"}

(* A scan that cannot read the file, or reach the scanner, is an error. *)
Outcomes(u) ==
    {"error"} \cup (IF u \notin pendingDir THEN {}
                    ELSE IF u \in Malware THEN {"reject"} ELSE {"pass"})

(* MUTANT of GivesUp: one scan too early. *)
GivesUpEarly == jobSeen.retries + 2 >= RetryLimit

GivesUp == jobSeen.retries + 1 >= RetryLimit

RunPipeline ==
    LET u == jobSeen.staged IN
    /\ jobAt = "scan"
    /\ verdict' \in Outcomes(u)
    /\ jobAt' = CASE verdict' = "pass"   -> "finalize"
                  [] verdict' = "reject" -> "discard"
                  [] OTHER               -> IF GivesUp THEN "discard" ELSE "patch"
    /\ scans' = [scans EXCEPT ![u] = IF @ < RetryLimit THEN @ + 1 ELSE @]
    /\ UNCHANGED <<doc, pendingDir, finalDir, upload, batch, jobAtt, jobSeen,
                   editVars, faults, acked>>

(* MUTANT of SaveContent: moves what is staged now, not what was scanned. *)
SaveContentLatest ==
    LET u == doc[jobAtt].staged IN
    /\ jobAt = "finalize"
    /\ IF u \in pendingDir
       THEN /\ pendingDir' = pendingDir \ {u}
            /\ finalDir' = [finalDir EXCEPT ![jobAtt] = u]
            /\ jobAt' = "patch"
            /\ UNCHANGED <<jobAtt, jobSeen, verdict>>
       ELSE /\ jobAt' = "next" /\ LetGo
            /\ UNCHANGED <<pendingDir, finalDir>>
    /\ UNCHANGED <<doc, upload, batch, editVars, faults, acked, scans>>

(* Moves the scanned file; when the move fails the attachment is left alone. *)
SaveContent ==
    LET u == jobSeen.staged IN
    /\ jobAt = "finalize"
    /\ IF u \in pendingDir
       THEN /\ pendingDir' = pendingDir \ {u}
            /\ finalDir' = [finalDir EXCEPT ![jobAtt] = u]
            /\ jobAt' = "patch"
            /\ UNCHANGED <<jobAtt, jobSeen, verdict>>
       ELSE /\ jobAt' = "next" /\ LetGo
            /\ UNCHANGED <<pendingDir, finalDir>>
    /\ UNCHANGED <<doc, upload, batch, editVars, faults, acked, scans>>

DeleteStagedContent ==
    /\ jobAt = "discard"
    /\ pendingDir' = pendingDir \ {jobSeen.staged}
    /\ jobAt' = "patch"
    /\ UNCHANGED <<doc, finalDir, upload, batch, jobAtt, jobSeen, verdict,
                   editVars, faults, acked, scans>>

(* MUTANT of Processed: a retry forgets the staged content. *)
ProcessedForgetful ==
    CASE verdict = "pass"   -> Patched("success", None, jobSeen.retries)
      [] verdict = "reject" -> Patched("rejected", None, jobSeen.retries)
      [] OTHER -> IF GivesUp
                  THEN Patched("error", None, jobSeen.retries + 1)
                  ELSE Patched("pending", None, jobSeen.retries + 1)

(* MUTANT of Processed: the failed scan is not counted. *)
ProcessedUncounted ==
    CASE verdict = "pass"   -> Patched("success", None, jobSeen.retries)
      [] verdict = "reject" -> Patched("rejected", None, jobSeen.retries)
      [] OTHER -> Patched("pending", jobSeen.staged, jobSeen.retries)

Processed ==
    CASE verdict = "pass"   -> Patched("success", None, jobSeen.retries)
      [] verdict = "reject" -> Patched("rejected", None, jobSeen.retries)
      [] OTHER -> IF GivesUp
                  THEN Patched("error", None, jobSeen.retries + 1)
                  ELSE Patched("pending", jobSeen.staged, jobSeen.retries + 1)

PatchProcessed ==
    /\ jobAt = "patch"
    /\ patchAttachment(jobAtt, Processed)
    /\ jobAt' = "next"
    /\ LetGo
    /\ UNCHANGED <<pendingDir, finalDir, upload, batch, editVars, faults, acked,
                   scans>>

(* An await throws (the database, say): the catch goes on to the next attachment. *)
UnexpectedError ==
    /\ faults < MaxFaults
    /\ jobAt \in {"scan", "finalize", "discard", "patch"}
    /\ jobAt' = "next"
    /\ LetGo
    /\ faults' = faults + 1
    /\ UNCHANGED <<doc, pendingDir, finalDir, upload, batch, editVars, acked,
                   scans>>

-----------------------------------------------------------------------------
(***************************************************************************)
(* Edits: read the observation and work the changes out on that copy, read *)
(* the document to update, write the array and emit AttachmentsRemoved.    *)
(***************************************************************************)
(* MUTANT of PrepareEdit: deletes the content before the edit is saved. *)
PrepareEditEager(e, add, remove) ==
    /\ edits < MaxEdits
    /\ edit[e].at = "idle"
    /\ add \cap issued = {}
    /\ remove \subseteq Present(doc)
    /\ edits' = edits + 1
    /\ issued' = issued \cup add
    /\ removing' = removing \cup remove
    /\ edit' = [edit EXCEPT ![e] = [NoEdit(doc) EXCEPT
                   !.at = "prepared", !.add = add, !.remove = remove]]
    /\ UNCHANGED <<doc, pendingDir, finalDir, upload, jobVars, faults, acked, scans>>

PrepareEdit(e, add, remove) ==
    /\ edits < MaxEdits
    /\ edit[e].at = "idle"
    /\ add \cap issued = {}
    /\ remove \subseteq Present(doc)
    /\ edits' = edits + 1
    /\ issued' = issued \cup add
    /\ edit' = [edit EXCEPT ![e] = [NoEdit(doc) EXCEPT
                   !.at = "prepared", !.add = add, !.remove = remove]]
    /\ UNCHANGED <<doc, pendingDir, finalDir, upload, jobVars, removing, faults,
                   acked, scans>>

FindDocument(e) ==
    /\ edit[e].at = "prepared"
    /\ edit' = [edit EXCEPT ![e].at = "saving", ![e].base = doc, ![e].stale = FALSE]
    /\ UNCHANGED <<doc, pendingDir, finalDir, upload, jobVars, removing, edits,
                   issued, faults, acked, scans>>

Edited(e) ==
    [a \in Attachments |-> IF a \in edit[e].remove THEN Absent
                           ELSE IF a \in edit[e].add THEN Fresh
                           ELSE edit[e].seen[a]]

(* Writing an array checks and advances the document's version; an array   *)
(* equal to the one just read is not written at all.                       *)
SaveDocument(e) ==
    LET writes == Edited(e) # edit[e].base IN
    /\ edit[e].at = "saving"
    /\ ~(writes /\ edit[e].stale)
    /\ doc' = IF writes THEN Edited(e) ELSE doc
    /\ removing' = removing \cup edit[e].remove
    /\ edit' = [f \in Editors |->
                   IF f = e THEN NoEdit(NoDoc)
                   ELSE IF writes /\ edit[f].at = "saving"
                        THEN [edit[f] EXCEPT !.stale = TRUE] ELSE edit[f]]
    /\ UNCHANGED <<pendingDir, finalDir, upload, jobVars, edits, issued, faults,
                   acked, scans>>

(* The process dies and is started again: the document and the files stay. *)
ServerRestarts ==
    /\ upload' = [u \in Uploads |->
           IF upload[u].at = "idle" THEN upload[u] ELSE Done]
    /\ \E torn \in SUBSET {u \in Uploads : upload[u].at = "found"} :
          pendingDir' = pendingDir \cup torn
    /\ jobAt' = "idle"
    /\ LetGo
    /\ batch' = {}
    /\ edit' = [e \in Editors |-> NoEdit(NoDoc)]
    /\ removing' = {}
    /\ UNCHANGED <<doc, finalDir, edits, issued, acked, scans>>

(* Nothing handles the rejection of a request's promise: it ends the process. *)
VersionError(e) ==
    /\ edit[e].at = "saving"
    /\ edit[e].stale
    /\ Edited(e) # edit[e].base
    /\ ServerRestarts
    /\ UNCHANGED faults

(* Deletes what is at the final path, and only there; a missing file is an error logged. *)
DeleteContent(a) ==
    /\ a \in removing
    /\ removing' = removing \ {a}
    /\ finalDir' = [finalDir EXCEPT ![a] = None]
    /\ UNCHANGED <<doc, pendingDir, upload, jobVars, edit, edits, issued, faults,
                   acked, scans>>

(* Any other end of the process, another unhandled rejection included. *)
Crash ==
    /\ faults < MaxFaults
    /\ faults' = faults + 1
    /\ ServerRestarts

-----------------------------------------------------------------------------
JobStep ==
    \/ findPendingAttachments
    \/ EndBatch
    \/ \E a \in Attachments : FindAttachment(a)
    \/ RunPipeline
    \/ SaveContent
    \/ DeleteStagedContent
    \/ PatchProcessed

Next ==
    \/ \E u \in Uploads :
          FindForUpload(u) \/ StageContent(u) \/ StagingFails(u) \/ StorePatch(u)
    \/ JobStep
    \/ UnexpectedError
    \/ \E e \in Editors :
          \/ \E add, remove \in SUBSET Attachments : PrepareEdit(e, add, remove)
          \/ FindDocument(e)
          \/ SaveDocument(e)
          \/ VersionError(e)
    \/ \E a \in Attachments : DeleteContent(a)
    \/ Crash

Spec == Init /\ [][Next]_vars

(* The loop re-arms its timer after every batch, whatever happened in it. *)
FairSpec == Spec /\ WF_vars(JobStep)
-----------------------------------------------------------------------------
(***************************************************************************)
(* Properties                                                              *)
(***************************************************************************)

(* Every variable keeps its type: in particular the job holds an attachment *)
(* and its record exactly while it processes one.                           *)
TypeOK ==
    /\ doc \in ObservationDoc
    /\ issued \subseteq Attachments
    /\ pendingDir \subseteq Uploads
    /\ finalDir \in [Attachments -> Uploads \cup {None}]
    /\ upload \in [Uploads -> UploadState]
    /\ jobAt \in {"idle", "next", "scan", "finalize", "discard", "patch"}
    /\ batch \subseteq Attachments
    /\ jobSeen \in AttachmentDoc
    /\ IF jobAt \in {"idle", "next"}
       THEN jobAtt = None /\ jobSeen.staged = None
       ELSE jobAtt \in Attachments /\ jobSeen.staged \in Uploads
    /\ verdict \in {"pass", "reject", "error"}
    /\ edit \in [Editors -> EditState]
    /\ removing \subseteq Attachments
    /\ edits \in 0..MaxEdits
    /\ faults \in 0..MaxFaults
    /\ acked \in [Attachments -> Uploads \cup {None}]
    /\ scans \in [Uploads -> 0..RetryLimit]

(* What lies at a final path, where ReadAttachmentContent serves it whatever *)
(* the status, was passed by the hooks: the job publishes the file it        *)
(* scanned, even when the attachment got another upload in the meantime.     *)
OnlyScannedContentPublished ==
    \A a \in Attachments : finalDir[a] \notin Malware

(* A client that reads "success" can read the content: the status comes only *)
(* after the move, and content is deleted only after the attachment is gone. *)
SuccessHasContent ==
    \A a \in Attachments : doc[a].status = "success" => finalDir[a] # None

(* No acknowledged upload is forgotten: it is still to be processed, it was  *)
(* published, or the attachment says it was refused or given up.  This is    *)
(* what patchAttachment exists for: uploads to several attachments of one    *)
(* observation, and the job, all start from their own copy of it.            *)
AckedUploadTracked ==
    \A a \in Attachments :
        LET u == acked[a] IN
        u # None /\ doc[a].status # "absent" =>
            \/ doc[a].status = "pending" /\ doc[a].staged = u
            \/ doc[a].status = "success" /\ finalDir[a] = u
            \/ doc[a].status \in {"rejected", "error"}

(* A hook that fails on an upload is asked again, up to the retry limit,     *)
(* before that upload is given up and its file deleted, whatever crashes     *)
(* come between.                                                             *)
RetriesBeforeGivingUp ==
    jobAt = "discard" /\ verdict = "error" => scans[jobSeen.staged] >= RetryLimit

(* An attachment that was removed never comes back through an upload or the  *)
(* job: only an edit that is adding it puts an attachment on the observation.*)
RemovedStaysRemoved ==
    [][\A a \in Attachments :
          doc[a].status = "absent" /\ doc'[a].status # "absent"
              => \E e \in Editors : a \in edit[e].add]_vars

(* Every pending attachment is eventually resolved, or removed. *)
PendingSettles ==
    \A a \in Attachments : doc[a].status = "pending" ~> doc[a].status # "pending"

(* While each attachment gets one upload and nobody edits the observation,  *)
(* the upload requests, the job and the file moves together implement the   *)
(* abstract attachment, its liveness included.                              *)
Promise == INSTANCE AttachmentPromise WITH
    status  <- [a \in Attachments |-> doc[a].status],
    content <- finalDir
KeepsPromise == Promise!FairSpec
=============================================================================
